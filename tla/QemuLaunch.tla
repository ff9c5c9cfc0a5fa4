----------------------------- MODULE QemuLaunch -----------------------------
(***************************************************************************)
(* scripts/qemucommand.py: what one launch of a QEMU machine takes from    *)
(* the deploy directory, copies beside its overlay, reads from a table of  *)
(* its process and binds on the host, beside bitbake, which rebuilds and   *)
(* cleans the deploy directory, a user who deletes an overlay, and other   *)
(* launches.  The script run-qemu-ota makes one launch in a process of its *)
(* own; oe-selftest makes all its launches in one.                         *)
(*                                                                         *)
(* A file is the build it comes from, 0 if it does not exist; a copy may   *)
(* be cut short.  There is one overlay name, used by one launch at a time  *)
(* (QEMU locks it).  Serial and ssh ports are found alike: the ssh port    *)
(* stands for both.  The image is one chosen by name for qemux86-64, not   *)
(* by an explicit path, which is used as it is.                            *)
(***************************************************************************)
EXTENDS Naturals, FiniteSets, FiniteSetsExt

CONSTANTS
  Launches, Processes,
  Process,          \* the process of a launch
  Options,          \* argument records, see OptionType
  start_port, NumPorts, \* find_local_port tries so many ports
  MaxBuilds, MaxDeletes

Exts == {"ext4", "ota-ext4"}
OptionType == [uboot : BOOLEAN, efi : BOOLEAN, overlay : BOOLEAN, dry_run : BOOLEAN]

ASSUME LaunchAssumption ==
  /\ Process \in [Launches -> Processes] /\ Options \subseteq OptionType
  /\ start_port \in Nat \ {0} /\ NumPorts \in Nat
ASSUME BoundAssumption == MaxBuilds \in Nat \ {0} /\ MaxDeletes \in Nat

Ports == start_port..(start_port + NumPorts - 1)
NoFile == [build |-> 0, whole |-> TRUE]

VARIABLES
  deploy,       \* files in the deploy directory: the u-boot rom and the image of each extension
  built,        \* builds so far
  EXTENSIONS,   \* extension of a qemux86-64 image, in the module of each process
  overlay,      \* the overlay exists
  base,         \* the image the overlay was created on
  rom, img,     \* overlay.u-boot.rom and overlay.img
  pc, opt,      \* of each launch
  bios, ext,    \* what it boots with: "rom", "OVMF" or "none"; the extension of its image
  ssh_port,     \* 0 until found
  bound,        \* the launch whose machine listens on a port
  deletes

fileVars == <<deploy, built, overlay, base, rom, img, deletes>>
launchVars == <<EXTENSIONS, pc, opt, bios, ext, ssh_port>>
vars == <<fileVars, launchVars, bound>>

Sources == {"rom"} \union Exts
Steps == {"new", "rom", "copy_rom", "image", "copy_image", "port", "create", "run", "up", "on", "failed", "off"}
File == [build : Nat, whole : BOOLEAN]

\* Types of the variables; every port a machine was told is one the launcher may try.
TypeOK ==
  /\ deploy \in [Sources -> Nat] /\ built \in Nat
  /\ EXTENSIONS \in [Processes -> Exts]
  /\ overlay \in BOOLEAN /\ base \in File /\ rom \in File /\ img \in File /\ deletes \in Nat
  /\ pc \in [Launches -> Steps] /\ opt \in [Launches -> Options]
  /\ bios \in [Launches -> {"rom", "OVMF", "none"}] /\ ext \in [Launches -> Exts]
  /\ ssh_port \in [Launches -> Ports \union {0}]
  /\ bound \in [Ports -> SUBSET Launches]
  /\ \A l \in Launches : pc[l] \in {"create", "run", "up", "on"} => ssh_port[l] \in Ports

Active(l) == pc[l] \notin {"new", "failed", "off"}

Init ==
  /\ deploy = [s \in Sources |-> 1] /\ built = 1
  /\ EXTENSIONS = [p \in Processes |-> "ota-ext4"]
  /\ overlay = FALSE /\ base = NoFile /\ rom = NoFile /\ img = NoFile /\ deletes = 0
  /\ pc = [l \in Launches |-> "new"]
  /\ opt \in [Launches -> Options]
  /\ bios = [l \in Launches |-> "none"] /\ ext = [l \in Launches |-> "ota-ext4"]
  /\ ssh_port = [l \in Launches |-> 0]
  /\ bound = [p \in Ports |-> {}]

Goto(l, step) == pc' = [pc EXCEPT ![l] = step]

-----------------------------------------------------------------------------
\* QemuCommand.__init__

\* Launches of a process follow each other: the previous one has failed, ended, or its machine has come up
\* within wait_for_boot_time.
MayStart(l) ==
  /\ \A k \in Launches : Process[k] = Process[l] /\ Active(k) => pc[k] = "on"
  /\ opt[l].overlay => \A k \in Launches : Active(k) => ~opt[k].overlay

KeepExtension(l) == UNCHANGED EXTENSIONS

SetExtension(l) ==
  EXTENSIONS' = IF opt[l].uboot THEN EXTENSIONS ELSE [EXTENSIONS EXCEPT ![Process[l]] = "ext4"]

Start(l) ==
  /\ pc[l] = "new" /\ MayStart(l)
  /\ IF ~opt[l].uboot /\ opt[l].overlay
     THEN Goto(l, "failed") /\ UNCHANGED EXTENSIONS
     ELSE Goto(l, "rom") /\ SetExtension(l)
  /\ UNCHANGED <<fileVars, opt, bios, ext, ssh_port, bound>>

UsesRom(l) == opt[l].uboot /\ ~opt[l].efi
NewOverlay(l) == opt[l].overlay /\ ~overlay

\* The source is missing where it is needed: "... does not exist". A dry run without the overlay skips the last test.
Missing(l, s, copy) ==
  IF opt[l].overlay
  THEN (~overlay /\ deploy[s] = 0) \/ (copy.build = 0 /\ overlay)
  ELSE deploy[s] = 0

\* Copied only to a name that does not exist; dry_run prints the cp.
MustCopy(l, copy) == NewOverlay(l) /\ copy.build = 0 /\ ~opt[l].dry_run

ChooseLoader(l) ==
  /\ pc[l] = "rom"
  /\ bios' = [bios EXCEPT ![l] = IF opt[l].efi THEN "OVMF" ELSE IF opt[l].uboot THEN "rom" ELSE "none"]
  /\ IF UsesRom(l) /\ Missing(l, "rom", rom) THEN Goto(l, "failed") /\ UNCHANGED rom
     ELSE IF UsesRom(l) /\ MustCopy(l, rom)
          THEN Goto(l, "copy_rom") /\ rom' = [build |-> deploy["rom"], whole |-> FALSE]
          ELSE Goto(l, "image") /\ UNCHANGED rom
  /\ UNCHANGED <<deploy, built, overlay, base, img, deletes, EXTENSIONS, opt, ext, ssh_port, bound>>

RomCopied(l) ==
  /\ pc[l] = "copy_rom" /\ rom' = [rom EXCEPT !.whole = TRUE]
  /\ Goto(l, "image")
  /\ UNCHANGED <<deploy, built, overlay, base, img, deletes, EXTENSIONS, opt, bios, ext, ssh_port, bound>>

ChooseImageAgain(l) ==
  /\ pc[l] = "image"
  /\ LET e == EXTENSIONS[Process[l]] IN
     /\ ext' = [ext EXCEPT ![l] = e]
     /\ IF Missing(l, e, img) THEN Goto(l, "failed") /\ UNCHANGED img
        ELSE IF opt[l].overlay /\ ~opt[l].dry_run
             THEN Goto(l, "copy_image") /\ img' = [build |-> deploy[e], whole |-> FALSE]
             ELSE Goto(l, "port") /\ UNCHANGED img
  /\ UNCHANGED <<deploy, built, overlay, base, rom, deletes, EXTENSIONS, opt, bios, ssh_port, bound>>

ChooseImage(l) ==
  /\ pc[l] = "image"
  /\ LET e == EXTENSIONS[Process[l]] IN
     /\ ext' = [ext EXCEPT ![l] = e]
     /\ IF Missing(l, e, img) THEN Goto(l, "failed") /\ UNCHANGED img
        ELSE IF MustCopy(l, img)
             THEN Goto(l, "copy_image") /\ img' = [build |-> deploy[e], whole |-> FALSE]
             ELSE Goto(l, "port") /\ UNCHANGED img
  /\ UNCHANGED <<deploy, built, overlay, base, rom, deletes, EXTENSIONS, opt, bios, ssh_port, bound>>

ImageCopied(l) ==
  /\ pc[l] = "copy_image" /\ img' = [img EXCEPT !.whole = TRUE]
  /\ Goto(l, "port")
  /\ UNCHANGED <<deploy, built, overlay, base, rom, deletes, EXTENSIONS, opt, bios, ext, ssh_port, bound>>

FreePorts == {p \in Ports : bound[p] = {}}

FirstPort == IF NumPorts > 0 THEN {start_port} ELSE {}

\* find_local_port: bound for the test and closed again.
LocalPort == IF FreePorts = {} THEN {} ELSE {Min(FreePorts)}

FindPort(l) ==
  /\ pc[l] = "port"
  /\ IF LocalPort = {} THEN Goto(l, "failed") /\ UNCHANGED ssh_port
     ELSE /\ ssh_port' = [ssh_port EXCEPT ![l] = CHOOSE p \in LocalPort : TRUE]
          /\ Goto(l, IF opt[l].dry_run THEN "off" ELSE IF NewOverlay(l) THEN "create" ELSE "run")
  /\ UNCHANGED <<fileVars, EXTENSIONS, opt, bios, ext, bound>>

-----------------------------------------------------------------------------
\* run-qemu-ota and qemu_boot_image

\* qemu-img create; its exit status is not looked at.
CreateOverlay(l) ==
  /\ pc[l] = "create"
  /\ \/ overlay' = TRUE /\ base' = img
     \/ UNCHANGED <<overlay, base>>
  /\ Goto(l, "run")
  /\ UNCHANGED <<deploy, built, rom, img, deletes, EXTENSIONS, opt, bios, ext, ssh_port, bound>>

\* command_line: -bios with U-Boot enabled, -kernel otherwise, which --efi leaves unset (None).
Runnable(l) == opt[l].uboot \/ ~opt[l].efi

\* The machine's files as QEMU opens them.
Opens(l) ==
  IF opt[l].overlay THEN overlay ELSE deploy[ext[l]] # 0 /\ (UsesRom(l) => deploy["rom"] # 0)

Run(l) ==
  /\ pc[l] = "run"
  /\ Goto(l, IF Runnable(l) THEN "up" ELSE "failed")
  /\ UNCHANGED <<fileVars, EXTENSIONS, opt, bios, ext, ssh_port, bound>>

\* QEMU opens its files and binds its ports, or exits. Its launcher has told the port already.
Bind(l) ==
  /\ pc[l] = "up" /\ Opens(l) /\ bound[ssh_port[l]] = {}
  /\ bound' = [bound EXCEPT ![ssh_port[l]] = {l}]
  /\ Goto(l, "on")
  /\ UNCHANGED <<fileVars, EXTENSIONS, opt, bios, ext, ssh_port>>

QemuExits(l) ==
  /\ pc[l] = "up" /\ (~Opens(l) \/ bound[ssh_port[l]] # {})
  /\ Goto(l, "off")
  /\ UNCHANGED <<fileVars, EXTENSIONS, opt, bios, ext, ssh_port, bound>>

\* qemu_terminate, a shutdown of the guest or a signal: the launch and its machine are gone, its files stay.
Stop(l) ==
  /\ Active(l)
  /\ bound' = [p \in Ports |-> bound[p] \ {l}]
  /\ Goto(l, "off")
  /\ UNCHANGED <<fileVars, EXTENSIONS, opt, bios, ext, ssh_port>>

-----------------------------------------------------------------------------
\* bitbake builds or cleans an image; the user deletes the overlay, not the files beside it.
Build ==
  /\ built < MaxBuilds /\ built' = built + 1
  /\ deploy' = [s \in Sources |-> built + 1]
  /\ UNCHANGED <<overlay, base, rom, img, deletes, launchVars, bound>>

Clean ==
  /\ deploy' = [s \in Sources |-> 0]
  /\ UNCHANGED <<built, overlay, base, rom, img, deletes, launchVars, bound>>

DeleteOverlay ==
  /\ overlay /\ deletes < MaxDeletes /\ \A l \in Launches : Active(l) => ~opt[l].overlay
  /\ overlay' = FALSE /\ base' = NoFile /\ deletes' = deletes + 1
  /\ UNCHANGED <<deploy, built, rom, img, launchVars, bound>>

Launch(l) ==
  \/ Start(l) \/ ChooseLoader(l) \/ RomCopied(l) \/ ChooseImage(l) \/ ImageCopied(l) \/ FindPort(l)
  \/ CreateOverlay(l) \/ Run(l) \/ Bind(l) \/ QemuExits(l) \/ Stop(l)

Next == (\E l \in Launches : Launch(l)) \/ Build \/ Clean \/ DeleteOverlay

Spec == Init /\ [][Next]_vars

-----------------------------------------------------------------------------
\* "we need to keep the backing image around, as bitbake will often clean it up" (:99): as long as an overlay
\* exists, the image below it is the one it was created on, over every rebuild, clean and launch.
OverlayKeepsBase == overlay => img = base /\ img.build # 0

\* "we use ext4 root fs instead of custom one ota-ext4" (:57) if U-Boot is disabled, and only if it is or was
\* for an earlier launch of the process: the assignment changes the table of the module.
RootfsFitsLoader ==
  \A l \in Launches : pc[l] \in {"up", "on"} =>
    /\ ~opt[l].uboot => ext[l] = "ext4"
    /\ ext[l] = "ext4" => \E k \in Launches : Process[k] = Process[l] /\ pc[k] # "new" /\ ~opt[k].uboot

\* A port that was told for a machine leads to that machine or nowhere: no other machine of its process takes
\* it in between, while those of other processes may, and then the machine does not come up.
PortIsOwn ==
  \A l \in Launches :
    /\ pc[l] = "up" => \A k \in bound[ssh_port[l]] : Process[k] # Process[l]
    /\ pc[l] = "on" => bound[ssh_port[l]] = {l}
=============================================================================
