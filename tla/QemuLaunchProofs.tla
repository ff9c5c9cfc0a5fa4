-------------------------- MODULE QemuLaunchProofs --------------------------
(***************************************************************************)
(* What holds of QemuLaunch for any launches, processes, options and ports *)
(* and any number of builds, cleans and deleted overlays.                  *)
(***************************************************************************)
EXTENDS QemuLaunch, WellFoundedInduction, TLAPS

-----------------------------------------------------------------------------
(* The inductive invariant.                                                *)

\* One launch uses the overlay at a time. While it is about to create it, there is none, and the image it
\* copied, now or for an earlier overlay, is there.
OverlayInv ==
  /\ \A k, l \in Launches :
       Active(k) /\ Active(l) /\ opt[k].overlay /\ opt[l].overlay => k = l
  /\ \A l \in Launches :
       /\ pc[l] \in {"copy_rom", "copy_image", "create"} => NewOverlay(l)
       /\ pc[l] \in {"copy_image", "create"} => ~opt[l].dry_run
       /\ pc[l] \in {"copy_image", "port", "create"} /\ opt[l].overlay /\ ~opt[l].dry_run => img.build # 0

\* The extension is ext4 in a process that started without U-Boot, for good.
ExtensionInv ==
  /\ \A p \in Processes : EXTENSIONS[p] = "ext4" =>
       \E k \in Launches : Process[k] = p /\ pc[k] # "new" /\ ~opt[k].uboot
  /\ \A l \in Launches :
       /\ Active(l) /\ ~opt[l].uboot => EXTENSIONS[Process[l]] = "ext4"
       /\ pc[l] \in {"copy_image", "port", "create", "run", "up", "on"} =>
            /\ ~opt[l].uboot => ext[l] = "ext4"
            /\ ext[l] = "ext4" => EXTENSIONS[Process[l]] = "ext4"

\* Of a process, one launch at most has no machine that is on; a port is bound by the machine it was told for.
PortInv ==
  /\ \A k, l \in Launches :
       Process[k] = Process[l] /\ Active(k) /\ Active(l) /\ k # l => pc[k] = "on" \/ pc[l] = "on"
  /\ \A p \in Ports : \A k \in bound[p] : pc[k] = "on" /\ ssh_port[k] = p
  /\ \A l \in Launches :
       /\ pc[l] \in {"create", "run", "up"} => \A k \in bound[ssh_port[l]] : Process[k] # Process[l]
       /\ pc[l] = "on" => bound[ssh_port[l]] = {l}

IInv == TypeOK /\ OverlayInv /\ OverlayKeepsBase /\ ExtensionInv /\ PortInv

-----------------------------------------------------------------------------
(* Facts about the operators.                                              *)

\* A free port is a port that may be tried.
LEMMA FirstFree ==
  ASSUME TypeOK, LocalPort # {}
  PROVE  /\ FreePorts # {} /\ LocalPort = {Min(FreePorts)}
         /\ (CHOOSE p \in LocalPort : TRUE) = Min(FreePorts)
         /\ Min(FreePorts) \in Ports /\ bound[Min(FreePorts)] = {}
<1>1. FreePorts # {} /\ LocalPort = {Min(FreePorts)}
  BY DEF LocalPort
<1>2. FreePorts \subseteq Nat
  BY LaunchAssumption DEF FreePorts, Ports
<1>3. PICK x \in FreePorts : \A y \in FreePorts : ~(<<y, x>> \in OpToRel(<, Nat))
  BY <1>1, <1>2, WFMin, NatLessThanWellFounded
<1>4. \A y \in FreePorts : x <= y
  <2> SUFFICES ASSUME NEW y \in FreePorts, y < x PROVE FALSE
    BY <1>2
  <2>1. <<y, x>> \in OpToRel(<, Nat)
    BY <1>2 DEF OpToRel
  <2> QED BY <2>1, <1>3
<1>5. Min(FreePorts) \in FreePorts
  BY <1>4 DEF Min
<1> QED BY <1>1, <1>5 DEF FreePorts

\* The step of one launch moves the program counter of that launch.
LEMMA Moves ==
  ASSUME TypeOK, NEW l \in Launches, Launch(l)
  PROVE  /\ pc' \in [Launches -> Steps] /\ opt' = opt
         /\ \A k \in Launches : k # l => pc'[k] = pc[k]
         /\ Active(l) => pc'[l] # "new"
         /\ pc[l] = "new" => pc'[l] \in {"rom", "failed"}
         /\ pc[l] \in {"new", "failed", "off"} => pc[l] = "new"
BY DEF TypeOK, Launch, Goto, Steps, Active, Start, ChooseLoader, RomCopied, ChooseImage, ImageCopied, FindPort,
       CreateOverlay, Run, Bind, QemuExits, Stop, fileVars

-----------------------------------------------------------------------------
(* Types.                                                                  *)

LEMMA InitIInv == Init => IInv
<1> SUFFICES ASSUME Init PROVE IInv
  OBVIOUS
<1>1. TypeOK
  BY LaunchAssumption DEF Init, TypeOK, Sources, Exts, Steps, File, NoFile
<1>2. OverlayInv /\ OverlayKeepsBase
  BY DEF Init, OverlayInv, OverlayKeepsBase, Active
<1>3. ExtensionInv
  BY LaunchAssumption DEF Init, ExtensionInv, Active
<1>4. PortInv
  BY DEF Init, PortInv, Active
<1> QED BY <1>1, <1>2, <1>3, <1>4 DEF IInv

LEMMA FileType ==
  /\ NoFile \in File
  /\ \A n \in Nat : [build |-> n, whole |-> FALSE] \in File
BY DEF NoFile, File

\* A copy is of a file that is there.
LEMMA Copied ==
  ASSUME TypeOK, NEW l \in Launches, NEW s \in Sources, NEW copy \in File,
         ~Missing(l, s, copy), MustCopy(l, copy)
  PROVE  deploy[s] \in Nat \ {0} /\ opt[l].overlay /\ ~overlay /\ ~opt[l].dry_run
BY DEF TypeOK, Missing, MustCopy, NewOverlay

LEMMA TypeStep ==
  ASSUME TypeOK, Next
  PROVE  TypeOK'
<1>1. ASSUME NEW l \in Launches, Launch(l) PROVE TypeOK'
  <2>1. pc' \in [Launches -> Steps] /\ opt' = opt
    BY <1>1, Moves
  <2>2. CASE Start(l)
    BY <2>1, <2>2, LaunchAssumption DEF TypeOK, Start, SetExtension, Goto, fileVars, Exts
  <2>3. CASE ChooseLoader(l)
    <3>1. deploy["rom"] \in Nat
      BY DEF TypeOK, Sources
    <3>2. rom' \in File
      BY <2>3, <3>1, FileType DEF ChooseLoader, TypeOK
    <3>3. bios' \in [Launches -> {"rom", "OVMF", "none"}]
      BY <2>3 DEF ChooseLoader, TypeOK
    <3>4. \A k \in Launches : pc'[k] \in {"create", "run", "up", "on"} => pc[k] = pc'[k]
      BY <2>3 DEF ChooseLoader, Goto, TypeOK
    <3> QED BY <2>1, <2>3, <3>2, <3>3, <3>4 DEF TypeOK, ChooseLoader
  <2>4. CASE RomCopied(l)
    BY <2>1, <2>4 DEF TypeOK, RomCopied, Goto, File
  <2>5. CASE ChooseImage(l)
    <3>1. EXTENSIONS[Process[l]] \in Exts /\ deploy[EXTENSIONS[Process[l]]] \in Nat
      BY LaunchAssumption DEF TypeOK, Sources
    <3>2. img' \in File
      BY <2>5, <3>1, FileType DEF ChooseImage, TypeOK
    <3>3. ext' \in [Launches -> Exts]
      BY <2>5, <3>1 DEF ChooseImage, TypeOK
    <3>4. \A k \in Launches : pc'[k] \in {"create", "run", "up", "on"} => pc[k] = pc'[k]
      BY <2>5 DEF ChooseImage, Goto, TypeOK
    <3> QED BY <2>1, <2>5, <3>2, <3>3, <3>4 DEF TypeOK, ChooseImage
  <2>6. CASE ImageCopied(l)
    BY <2>1, <2>6 DEF TypeOK, ImageCopied, Goto, File
  <2>7. CASE FindPort(l)
    BY <2>1, <2>7, FirstFree DEF TypeOK, FindPort, Goto, fileVars
  <2>8. CASE CreateOverlay(l)
    BY <2>1, <2>8 DEF TypeOK, CreateOverlay, Goto
  <2>9. CASE Run(l)
    BY <2>1, <2>9 DEF TypeOK, Run, Goto, fileVars
  <2>10. CASE Bind(l)
    BY <2>1, <2>10 DEF TypeOK, Bind, Goto, fileVars
  <2>11. CASE QemuExits(l)
    BY <2>1, <2>11 DEF TypeOK, QemuExits, Goto, fileVars
  <2>12. CASE Stop(l)
    BY <2>1, <2>12 DEF TypeOK, Stop, Goto, fileVars
  <2> QED
    BY <1>1, <2>2, <2>3, <2>4, <2>5, <2>6, <2>7, <2>8, <2>9, <2>10, <2>11, <2>12 DEF Launch
<1>2. CASE Build
  BY <1>2 DEF TypeOK, Build, launchVars
<1>3. CASE Clean
  BY <1>3 DEF TypeOK, Clean, launchVars
<1>4. CASE DeleteOverlay
  <2>1. overlay' \in BOOLEAN
    BY <1>4 DEF DeleteOverlay
  <2>2. base' \in File /\ deletes' \in Nat
    BY <1>4, FileType DEF DeleteOverlay, TypeOK
  <2>3. UNCHANGED <<deploy, built, EXTENSIONS, rom, img, pc, opt, bios, ext, ssh_port, bound>>
    BY <1>4 DEF DeleteOverlay, launchVars
  <2> QED BY <2>1, <2>2, <2>3 DEF TypeOK
<1> QED BY <1>1, <1>2, <1>3, <1>4 DEF Next

-----------------------------------------------------------------------------
(* The overlay and the image below it.                                     *)

LEMMA OverlayStep ==
  ASSUME IInv, Next, TypeOK'
  PROVE  (OverlayInv /\ OverlayKeepsBase)'
<1> USE DEF IInv
<1>1. ASSUME NEW l \in Launches, Launch(l) PROVE (OverlayInv /\ OverlayKeepsBase)'
  <2>1. /\ pc' \in [Launches -> Steps] /\ opt' = opt
        /\ \A k \in Launches : k # l => pc'[k] = pc[k]
        /\ pc \in [Launches -> Steps] /\ opt \in [Launches -> Options]
    BY <1>1, Moves DEF TypeOK
  <2>2. CASE Start(l)
    BY <2>1, <2>2 DEF Start, MayStart, Goto, fileVars, OverlayInv, OverlayKeepsBase, Active, NewOverlay
  <2>3. CASE ChooseLoader(l)
    BY <2>1, <2>3 DEF ChooseLoader, MustCopy, Goto, OverlayInv, OverlayKeepsBase, Active, NewOverlay
  <2>4. CASE RomCopied(l)
    BY <2>1, <2>4 DEF RomCopied, Goto, OverlayInv, OverlayKeepsBase, Active, NewOverlay
  <2>5. CASE ChooseImage(l)
    <3> DEFINE e == EXTENSIONS[Process[l]]
    <3>1. e \in Sources /\ deploy[e] \in Nat /\ img \in File
      BY LaunchAssumption DEF TypeOK, Sources
    <3>2. /\ pc[l] = "image" /\ pc'[l] \in {"failed", "copy_image", "port"}
          /\ pc'[l] # "failed" => ~Missing(l, e, img)
          /\ pc'[l] = "copy_image" => MustCopy(l, img) /\ img' = [build |-> deploy[e], whole |-> FALSE]
          /\ pc'[l] # "copy_image" => img' = img
          /\ pc'[l] = "port" => ~MustCopy(l, img)
          /\ UNCHANGED <<overlay, base, opt>>
      BY <2>1, <2>5 DEF ChooseImage, Goto
    <3>3. CASE pc'[l] = "copy_image"
      <4>1. /\ img'.build # 0 /\ opt[l].overlay /\ ~overlay /\ ~opt[l].dry_run
        BY <3>1, <3>2, <3>3, Copied
      <4> QED BY <4>1, <2>1, <3>2, <3>3 DEF OverlayInv, OverlayKeepsBase, Active, NewOverlay
    <3>4. CASE pc'[l] = "port"
      <4>1. opt[l].overlay /\ ~opt[l].dry_run => img.build # 0
        BY <3>2, <3>4 DEF Missing, MustCopy, NewOverlay
      <4> QED BY <4>1, <2>1, <3>2, <3>4 DEF OverlayInv, OverlayKeepsBase, Active, NewOverlay
    <3>5. CASE pc'[l] = "failed"
      BY <2>1, <3>2, <3>5 DEF OverlayInv, OverlayKeepsBase, Active, NewOverlay
    <3> QED BY <3>2, <3>3, <3>4, <3>5
  <2>6. CASE ImageCopied(l)
    BY <2>1, <2>6 DEF ImageCopied, Goto, OverlayInv, OverlayKeepsBase, Active, NewOverlay, TypeOK, File
  <2>7. CASE FindPort(l)
    BY <2>1, <2>7 DEF FindPort, Goto, fileVars, OverlayInv, OverlayKeepsBase, Active, NewOverlay
  <2>8. CASE CreateOverlay(l)
    BY <2>1, <2>8 DEF CreateOverlay, Goto, OverlayInv, OverlayKeepsBase, Active, NewOverlay
  <2>9. CASE Run(l)
    BY <2>1, <2>9 DEF Run, Goto, fileVars, OverlayInv, OverlayKeepsBase, Active, NewOverlay
  <2>10. CASE Bind(l)
    BY <2>1, <2>10 DEF Bind, Goto, fileVars, OverlayInv, OverlayKeepsBase, Active, NewOverlay
  <2>11. CASE QemuExits(l)
    BY <2>1, <2>11 DEF QemuExits, Goto, fileVars, OverlayInv, OverlayKeepsBase, Active, NewOverlay
  <2>12. CASE Stop(l)
    BY <2>1, <2>12 DEF Stop, Goto, fileVars, OverlayInv, OverlayKeepsBase, Active, NewOverlay
  <2> QED
    BY <1>1, <2>2, <2>3, <2>4, <2>5, <2>6, <2>7, <2>8, <2>9, <2>10, <2>11, <2>12 DEF Launch
<1>2. CASE Build \/ Clean
  BY <1>2 DEF Build, Clean, launchVars, OverlayInv, OverlayKeepsBase, Active, NewOverlay
<1>3. CASE DeleteOverlay
  BY <1>3 DEF DeleteOverlay, launchVars, OverlayInv, OverlayKeepsBase, Active, NewOverlay
<1> QED BY <1>1, <1>2, <1>3 DEF Next

-----------------------------------------------------------------------------
(* The extension of the image.                                             *)

LEMMA ExtensionStep ==
  ASSUME IInv, Next, TypeOK'
  PROVE  ExtensionInv'
<1> USE DEF IInv
<1>0. Process \in [Launches -> Processes]
  BY LaunchAssumption
<1>1. ASSUME NEW l \in Launches, Launch(l) PROVE ExtensionInv'
  <2>1. /\ pc' \in [Launches -> Steps] /\ opt' = opt
        /\ \A k \in Launches : k # l => pc'[k] = pc[k]
        /\ pc \in [Launches -> Steps] /\ pc'[l] # "new"
        /\ ext \in [Launches -> Exts] /\ EXTENSIONS \in [Processes -> Exts]
    BY <1>1, Moves DEF TypeOK, Active
  <2>2. CASE Start(l)
    BY <1>0, <2>1, <2>2 DEF Start, SetExtension, Goto, ExtensionInv, Active
  <2>3. CASE ChooseLoader(l)
    BY <1>0, <2>1, <2>3 DEF ChooseLoader, Goto, ExtensionInv, Active
  <2>4. CASE RomCopied(l)
    BY <1>0, <2>1, <2>4 DEF RomCopied, Goto, ExtensionInv, Active
  <2>5. CASE ChooseImage(l)
    BY <1>0, <2>1, <2>5 DEF ChooseImage, Goto, ExtensionInv, Active
  <2>6. CASE ImageCopied(l)
    BY <1>0, <2>1, <2>6 DEF ImageCopied, Goto, ExtensionInv, Active
  <2>7. CASE FindPort(l)
    BY <1>0, <2>1, <2>7 DEF FindPort, Goto, ExtensionInv, Active
  <2>8. CASE CreateOverlay(l)
    BY <1>0, <2>1, <2>8 DEF CreateOverlay, Goto, ExtensionInv, Active
  <2>9. CASE Run(l)
    BY <1>0, <2>1, <2>9 DEF Run, Goto, ExtensionInv, Active
  <2>10. CASE Bind(l)
    BY <1>0, <2>1, <2>10 DEF Bind, Goto, ExtensionInv, Active
  <2>11. CASE QemuExits(l)
    BY <1>0, <2>1, <2>11 DEF QemuExits, Goto, ExtensionInv, Active
  <2>12. CASE Stop(l)
    BY <1>0, <2>1, <2>12 DEF Stop, Goto, ExtensionInv, Active
  <2> QED
    BY <1>1, <2>2, <2>3, <2>4, <2>5, <2>6, <2>7, <2>8, <2>9, <2>10, <2>11, <2>12 DEF Launch
<1>2. CASE Build \/ Clean \/ DeleteOverlay
  BY <1>2 DEF Build, Clean, DeleteOverlay, launchVars, ExtensionInv, Active
<1> QED BY <1>1, <1>2 DEF Next

-----------------------------------------------------------------------------
(* The ports.                                                              *)

LEMMA PortStep ==
  ASSUME IInv, Next, TypeOK'
  PROVE  PortInv'
<1> USE DEF IInv
<1>1. ASSUME NEW l \in Launches, Launch(l) PROVE PortInv'
  <2>1. /\ pc' \in [Launches -> Steps] /\ opt' = opt
        /\ \A k \in Launches : k # l => pc'[k] = pc[k]
        /\ pc \in [Launches -> Steps]
        /\ bound \in [Ports -> SUBSET Launches] /\ ssh_port \in [Launches -> Ports \union {0}]
        /\ \A k \in Launches : pc[k] \in {"create", "run", "up", "on"} => ssh_port[k] \in Ports
    BY <1>1, Moves DEF TypeOK
  <2>2. CASE Start(l)
    BY <2>1, <2>2 DEF Start, MayStart, Goto, PortInv, Active
  <2>3. CASE ChooseLoader(l)
    BY <2>1, <2>3 DEF ChooseLoader, Goto, PortInv, Active
  <2>4. CASE RomCopied(l)
    BY <2>1, <2>4 DEF RomCopied, Goto, PortInv, Active
  <2>5. CASE ChooseImage(l)
    BY <2>1, <2>5 DEF ChooseImage, Goto, PortInv, Active
  <2>6. CASE ImageCopied(l)
    BY <2>1, <2>6 DEF ImageCopied, Goto, PortInv, Active
  <2>7. CASE FindPort(l)
    BY <2>1, <2>7, FirstFree DEF FindPort, Goto, PortInv, Active
  <2>8. CASE CreateOverlay(l)
    BY <2>1, <2>8 DEF CreateOverlay, Goto, PortInv, Active
  <2>9. CASE Run(l)
    BY <2>1, <2>9 DEF Run, Goto, PortInv, Active
  <2>10. CASE Bind(l)
    BY <2>1, <2>10 DEF Bind, Goto, PortInv, Active
  <2>11. CASE QemuExits(l)
    BY <2>1, <2>11 DEF QemuExits, Goto, PortInv, Active
  <2>12. CASE Stop(l)
    BY <2>1, <2>12 DEF Stop, Goto, PortInv, Active
  <2> QED
    BY <1>1, <2>2, <2>3, <2>4, <2>5, <2>6, <2>7, <2>8, <2>9, <2>10, <2>11, <2>12 DEF Launch
<1>2. CASE Build \/ Clean \/ DeleteOverlay
  BY <1>2 DEF Build, Clean, DeleteOverlay, launchVars, PortInv, Active
<1> QED BY <1>1, <1>2 DEF Next

-----------------------------------------------------------------------------
(* Theorems of the specification.                                          *)

LEMMA NextIInv == IInv /\ [Next]_vars => IInv'
<1> SUFFICES ASSUME IInv, [Next]_vars PROVE IInv'
  OBVIOUS
<1>1. CASE UNCHANGED vars
  BY <1>1 DEF vars, fileVars, launchVars, IInv, TypeOK, OverlayInv, OverlayKeepsBase, ExtensionInv, PortInv,
              Active, NewOverlay
<1>2. CASE Next
  BY <1>2, TypeStep, OverlayStep, ExtensionStep, PortStep DEF IInv
<1> QED BY <1>1, <1>2

THEOREM Invariant == Spec => []IInv
BY InitIInv, NextIInv, PTL DEF Spec

\* The types of the variables, and that the port of a machine is one of those the launcher may try.
THEOREM TypeCorrect == Spec => []TypeOK
<1>1. IInv => TypeOK
  BY DEF IInv
<1> QED BY <1>1, Invariant, PTL

\* For any number of launches, rebuilds, cleans and deleted overlays: the image below the overlay is the
\* one the overlay was created on.
THEOREM BaseIsKept == Spec => []OverlayKeepsBase
<1>1. IInv => OverlayKeepsBase
  BY DEF IInv
<1> QED BY <1>1, Invariant, PTL

\* A machine without U-Boot boots the ext4 image; one with U-Boot does so only in a process that also
\* launched one without.
THEOREM ExtensionFits == Spec => []RootfsFitsLoader
<1>1. IInv => RootfsFitsLoader
  BY LaunchAssumption DEF IInv, ExtensionInv, RootfsFitsLoader, Active
<1> QED BY <1>1, Invariant, PTL

\* A port that was told for a machine leads to that machine or to one of another process, which took it
\* before the machine was on.
THEOREM OwnPort == Spec => []PortIsOwn
<1>1. IInv => PortIsOwn
  BY DEF IInv, PortInv, PortIsOwn
<1> QED BY <1>1, Invariant, PTL
=============================================================================
