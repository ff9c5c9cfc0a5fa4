------------------------------ MODULE WicImage ------------------------------
(***************************************************************************)
(* The disk image of an EFI machine: the plugins bootimg_sota_efi and      *)
(* otaimage under wic, after the tasks that leave them their input.  Each  *)
(* build is a generation: do_image_ota deploys it (the boot directory goes *)
(* to OTA_BOOT for systemd-boot), do_image_ota_ext4 makes the root file    *)
(* system in IMGDEPLOYDIR, do_image_wic joins both, do_image_complete      *)
(* copies to DEPLOY_DIR_IMAGE.  Any task may fail; a later build starts    *)
(* from what is there.                                                     *)
(*                                                                         *)
(* A file of the ESP is a path with a content, a pair of where it was made *)
(* and a generation or name.  OTA_BOOT is hard linked into the staging     *)
(* directory hdd, so a file written in place there changes in both.        *)
(***************************************************************************)
EXTENDS Naturals, Sequences, FiniteSets, Functions, SequencesExt

CONSTANTS
  Setups,              \* layouts and variables of an image
  Unset,               \* a variable without a value
  FileBlocks, BOOTDD_EXTRA_SPACE,
  MaxBuilds

VARIABLES
  setup,
  pc,                  \* the running task, or the step of do_image_wic
  gen,                 \* the generation being built
  OTA_BOOT,            \* files below boot
  deployed,            \* the generation deployed in OTA_SYSROOT
  IMGDEPLOYDIR, DEPLOY_DIR_IMAGE,   \* the generation of the ota-ext4 file there, 0 if none
  num,                 \* the partition wic prepares
  hdd, linked,         \* files staged below hdd/boot, and those that are links into OTA_BOOT
  install_task,        \* class attribute
  boot_img,            \* files of cr_workdir/boot.img, Empty if there is none
  source,              \* of each prepared partition: the generation of an ota-ext4 file, 0 for boot.img
  size,                \* blocks of each prepared partition
  disk                 \* the content of each partition of the assembled image, <<>> if none

wicVars == <<num, hdd, linked, install_task, boot_img, source, size>>
buildVars == <<gen, deployed, IMGDEPLOYDIR, DEPLOY_DIR_IMAGE>>
vars == <<setup, pc, OTA_BOOT, disk, wicVars, buildVars>>

Empty == [p \in {} |-> Unset]

\* A directory after the files f were written to it.
With(f, dir) == [p \in DOMAIN f \union DOMAIN dir |-> IF p \in DOMAIN f THEN f[p] ELSE dir[p]]
File(p, content) == [q \in {p} |-> content]

ESP(p) == p.source = "bootimg_sota_efi"

\* An entry of IMAGE_EFI_BOOT_FILES has a shape: "file" ("src" or "src;dst"), "glob" ("dir/*"), "noDst" ("src;")
\* or "three" ("a;b;c"). The files of the partition's own variable (_uuid- or _label-), or else of IMAGE_EFI_BOOT_FILES.
HasFiles(v) == v \notin {Unset, <<>>}
Listed(s, p) == IF HasFiles(p.own) THEN p.own ELSE s.IMAGE_EFI_BOOT_FILES

\* An entry stands for one task, one with a * for a task per file it matches.
TasksOf(s, e) == IF e.shape = "glob" THEN {[src |-> f, dst |-> f] : f \in e.src \intersect s.kernel_dir}
                 ELSE {[src |-> e.src, dst |-> e.dst]}
TasksFor(s, p) == LET list == Listed(s, p) IN UNION {TasksOf(s, list[i]) : i \in DOMAIN list}

\* A list names each destination once, and none of the files that the loader brings.
SetupAssumption ==
  /\ FileBlocks \in Nat /\ BOOTDD_EXTRA_SPACE \in Nat
  /\ \A s \in Setups :
       /\ s.parts \in Seq(ToSet(s.parts))
       /\ \A p \in ToSet(s.parts) :
            /\ p.fixed \in Nat /\ p.size \in Nat
            /\ HasFiles(Listed(s, p)) => \A t \in TasksFor(s, p) :
                 /\ t.dst \notin {"entries", "loader.conf", "boot.efi", "grub.cfg"}
                 /\ \A u \in TasksFor(s, p) : u.dst = t.dst => u = t

Init ==
  /\ setup \in Setups
  /\ pc = "idle" /\ gen = 0 /\ deployed = 0 /\ OTA_BOOT = Empty
  /\ IMGDEPLOYDIR = 0 /\ DEPLOY_DIR_IMAGE = 0
  /\ num = 1 /\ hdd = Empty /\ linked = {} /\ install_task = {} /\ boot_img = Empty
  /\ source = <<>> /\ size = <<>> /\ disk = <<>>

-----------------------------------------------------------------------------
\* Tasks of a build.

\* A change of the root file system: do_rootfs cleans IMGDEPLOYDIR. A change of do_image_ota's own
\* variables does not.
StartBuild ==
  /\ pc = "idle" /\ gen < MaxBuilds
  /\ gen' = gen + 1 /\ pc' = "ota"
  /\ IMGDEPLOYDIR' \in {0, IMGDEPLOYDIR}
  /\ UNCHANGED <<setup, OTA_BOOT, deployed, DEPLOY_DIR_IMAGE, wicVars, disk>>

SystemdBoot(s) == s.loader = "systemd-boot"

\* cleandirs empties OTA_BOOT. For systemd-boot it gets the boot directory of the deployment, with an empty
\* loader.conf, and the EFI binary of the root file system; for grub both stay in the sysroot.
BootFiles(g) ==
  IF SystemdBoot(setup) THEN [p \in {"entries", "loader.conf", "boot.efi"} |->
                        IF p = "boot.efi" THEN <<"rootfs", g>> ELSE <<"ota", g>>]
  ELSE Empty

ImageOta ==
  /\ pc = "ota"
  /\ deployed' = gen /\ OTA_BOOT' = BootFiles(gen)
  /\ pc' = "ext4"
  /\ UNCHANGED <<setup, gen, IMGDEPLOYDIR, DEPLOY_DIR_IMAGE, wicVars, disk>>

ImageOtaExt4 ==
  /\ pc = "ext4"
  /\ IMGDEPLOYDIR' = deployed
  /\ pc' = "wic"
  /\ UNCHANGED <<setup, gen, deployed, OTA_BOOT, DEPLOY_DIR_IMAGE, wicVars, disk>>

\* do_image_wic alone, forced.
Rerun ==
  /\ pc = "idle" /\ gen # 0 /\ deployed = gen /\ IMGDEPLOYDIR = gen
  /\ pc' = "wic"
  /\ UNCHANGED <<setup, OTA_BOOT, disk, wicVars, buildVars>>

\* do_image_wic waits for do_image_ota_ext4. It starts in a clean directory.
StartWic ==
  /\ pc = "wic"
  /\ num' = 1 /\ hdd' = Empty /\ linked' = {} /\ install_task' = {} /\ boot_img' = Empty
  /\ source' = <<>> /\ size' = <<>> /\ disk' = <<>>
  /\ pc' = "configure"
  /\ UNCHANGED <<setup, OTA_BOOT, buildVars>>

Complete ==
  /\ pc = "complete"
  /\ DEPLOY_DIR_IMAGE' = IMGDEPLOYDIR
  /\ pc' = "idle"
  /\ UNCHANGED <<setup, gen, deployed, OTA_BOOT, IMGDEPLOYDIR, wicVars, disk>>

\* A task fails or is interrupted; what it wrote stays.
TaskFails ==
  /\ pc \in {"ota", "ext4", "wic", "complete"}
  /\ pc' = "idle"
  /\ UNCHANGED <<setup, OTA_BOOT, disk, wicVars, buildVars>>

-----------------------------------------------------------------------------
\* bootimg_sota_efi

part == setup.parts[num]
At(step) == pc = step /\ num <= Len(setup.parts)
Raise == pc' = "failed" /\ UNCHANGED <<setup, OTA_BOOT, disk, wicVars, buildVars>>

do_configure_grubefi ==
  /\ At("configure") /\ ESP(part) /\ setup.loader = "grub-efi"
  /\ hdd' = With(File("grub.cfg", <<"wic", "grub.cfg">>), hdd)
  /\ pc' = "boot_files"
  /\ UNCHANGED <<setup, OTA_BOOT, disk, buildVars, num, linked, install_task, boot_img, source, size>>

\* copyhardlinktree, then open(loader.conf, "w"), which keeps the inode.
do_configure_systemdboot ==
  /\ At("configure") /\ ESP(part) /\ SystemdBoot(setup) /\ part.rootfs_dir
  /\ LET conf == File("loader.conf", <<"wic", "loader.conf">>)
     IN OTA_BOOT' = With(conf, OTA_BOOT) /\ hdd' = With(OTA_BOOT', hdd)
  /\ linked' = DOMAIN OTA_BOOT
  /\ pc' = "boot_files"
  /\ UNCHANGED <<setup, disk, buildVars, num, install_task, boot_img, source, size>>

\* An unknown loader, none, systemd-boot without --rootfs-dir, or a configfile of grub that is not found.
ConfigureFails ==
  /\ At("configure") /\ ESP(part)
  /\ SystemdBoot(setup) => ~part.rootfs_dir
  /\ Raise

Malformed == LET list == Listed(setup, part) IN \E i \in DOMAIN list : list[i].shape \in {"noDst", "three"}

AddTasks ==
  /\ At("boot_files") /\ setup.IMAGE_EFI_BOOT_FILES # Unset /\ ~Malformed
  /\ install_task' = TasksFor(setup, part)
  /\ pc' = "prepare"
  /\ UNCHANGED <<setup, OTA_BOOT, disk, buildVars, num, hdd, linked, boot_img, source, size>>

NoBootFiles ==
  /\ At("boot_files") /\ setup.IMAGE_EFI_BOOT_FILES = Unset
  /\ pc' = "prepare"
  /\ UNCHANGED <<setup, OTA_BOOT, disk, buildVars, wicVars>>

BootFilesFail ==
  /\ At("boot_files") /\ setup.IMAGE_EFI_BOOT_FILES # Unset /\ Malformed
  /\ Raise

Installing == At("prepare") /\ ESP(part) /\ HasFiles(setup.IMAGE_EFI_BOOT_FILES)

\* In the order of the list, which makes no difference when each destination is named once.
InstallFile ==
  /\ Installing
  /\ \E t \in install_task :
       /\ t.src \in setup.kernel_dir
       /\ hdd' = With(File(t.dst, <<"deploy", t.src>>), hdd)
       /\ linked' = linked \ {t.dst}   \* install unlinks its target
       /\ install_task' = install_task \ {t}
  /\ UNCHANGED <<setup, pc, OTA_BOOT, disk, buildVars, num, boot_img, source, size>>

InstallFileFails ==
  /\ Installing
  /\ \E t \in install_task : t.src \notin setup.kernel_dir
  /\ Raise

Binary(s) == IF SystemdBoot(s) THEN "systemd-boot.efi" ELSE "grub-efi-boot.efi"

\* cp of the loader's files in DEPLOY_DIR_IMAGE, which writes through a link.
InstallLoader ==
  /\ At("prepare") /\ ESP(part)
  /\ HasFiles(setup.IMAGE_EFI_BOOT_FILES) => install_task = {}
  /\ LET efi == IF Binary(setup) \in setup.kernel_dir THEN File("boot.efi", <<"deploy", Binary(setup)>>) ELSE Empty
     IN /\ hdd' = With(efi, hdd)
        /\ OTA_BOOT' = IF "boot.efi" \in linked THEN With(efi, OTA_BOOT) ELSE OTA_BOOT
  /\ pc' = "make"
  /\ UNCHANGED <<setup, disk, buildVars, num, linked, install_task, boot_img, source, size>>

\* At least one EFI boot loader must have been installed; mkfs.vfat -C does not take a file that exists.
NoLoader == "boot.efi" \notin DOMAIN hdd
MakeFails ==
  /\ At("make") /\ (NoLoader \/ boot_img # Empty)
  /\ Raise

Larger(a, b) == IF a < b THEN b ELSE a

BlocksToSize == Larger(Larger(part.size, FileBlocks * Cardinality(DOMAIN hdd)), part.fixed)

\* 1k blocks of the file system: content, at least BOOTDD_EXTRA_SPACE more, up to --size, and all of a fixed size.
Blocks ==
  LET content == FileBlocks * Cardinality(DOMAIN hdd)
      wanted  == Larger(part.size, content) - content
  IN Larger(content + Larger(wanted, BOOTDD_EXTRA_SPACE), part.fixed)

MakeImageOver ==
  /\ At("make") /\ ~NoLoader
  /\ boot_img' = hdd
  /\ source' = Append(source, 0) /\ size' = Append(size, Blocks)
  /\ num' = num + 1 /\ pc' = "configure"
  /\ UNCHANGED <<setup, OTA_BOOT, disk, buildVars, hdd, linked, install_task>>

MakeImage ==
  /\ At("make") /\ ~NoLoader /\ boot_img = Empty
  /\ boot_img' = hdd
  /\ source' = Append(source, 0) /\ size' = Append(size, Blocks)
  /\ num' = num + 1 /\ pc' = "configure"
  /\ UNCHANGED <<setup, OTA_BOOT, disk, buildVars, hdd, linked, install_task>>

-----------------------------------------------------------------------------
\* otaimage

OtaImageDeployed == IF DEPLOY_DIR_IMAGE # 0 THEN DEPLOY_DIR_IMAGE ELSE IMGDEPLOYDIR

OtaImage == IF IMGDEPLOYDIR # 0 THEN IMGDEPLOYDIR ELSE DEPLOY_DIR_IMAGE

PrepareRoot ==
  /\ At("configure") /\ ~ESP(part) /\ OtaImage # 0
  /\ source' = Append(source, OtaImage) /\ size' = Append(size, 0)
  /\ num' = num + 1
  /\ UNCHANGED <<setup, pc, OTA_BOOT, disk, buildVars, hdd, linked, install_task, boot_img>>

-----------------------------------------------------------------------------
\* wic: the sources are copied into the disk only when all partitions have been prepared.

TooLarge(i) == setup.parts[i].fixed # 0 /\ size[i] > setup.parts[i].fixed

Assemble ==
  /\ pc = "configure" /\ num > Len(setup.parts)
  /\ \A i \in DOMAIN size : ~TooLarge(i)
  /\ disk' = [i \in DOMAIN source |-> IF source[i] = 0 THEN boot_img ELSE File("root", <<"ota", source[i]>>)]
  /\ pc' = "complete"
  /\ UNCHANGED <<setup, OTA_BOOT, wicVars, buildVars>>

AssembleFails ==
  /\ pc = "configure" /\ num > Len(setup.parts)
  /\ \E i \in DOMAIN size : TooLarge(i)
  /\ Raise

\* The failed wic task ends the build.
Abort ==
  /\ pc = "failed" /\ pc' = "idle"
  /\ UNCHANGED <<setup, OTA_BOOT, disk, wicVars, buildVars>>

Configure == do_configure_grubefi \/ do_configure_systemdboot \/ ConfigureFails
                \/ AddTasks \/ NoBootFiles \/ BootFilesFail
Prepare == InstallFile \/ InstallFileFails \/ InstallLoader \/ MakeImage \/ MakeFails \/ PrepareRoot

Next == \/ StartBuild \/ ImageOta \/ ImageOtaExt4 \/ Rerun \/ StartWic \/ Complete \/ TaskFails
        \/ Configure \/ Prepare \/ Assemble \/ AssembleFails \/ Abort

Spec == Init /\ [][Next]_vars

-----------------------------------------------------------------------------
\* Boot entries and root file system of an image are of one generation: the entries name the deployment by
\* its boot checksum, so others do not boot.
BootMatchesRoot ==
  \A i, j \in DOMAIN disk :
    ESP(setup.parts[i]) /\ ~ESP(setup.parts[j]) /\ "entries" \in DOMAIN disk[i] =>
      disk[i]["entries"] = disk[j]["root"]

\* The files that a partition is asked to hold: of a list of its own if it has one.
Wanted(s, p) == IF HasFiles(Listed(s, p)) THEN TasksFor(s, p) ELSE {}

\* Both tests of the plugin (:115, :183) are of the general variable: where that is unset or empty, a list of the
\* partition's own is passed over in silence.
Ignored(s, p) == HasFiles(p.own) /\ ~HasFiles(s.IMAGE_EFI_BOOT_FILES)

\* An ESP with these files and those of the loader, whatever ran before.
Content(s, files, g) ==
  LET efi   == File("boot.efi", IF Binary(s) \in s.kernel_dir THEN <<"deploy", Binary(s)>> ELSE <<"rootfs", g>>)
      boot  == IF SystemdBoot(s) THEN [f \in {"entries", "loader.conf"} |->
                                     IF f = "entries" THEN <<"ota", g>> ELSE <<"wic", f>>]
               ELSE File("grub.cfg", <<"wic", "grub.cfg">>)
      own   == [d \in {t.dst : t \in files} |-> <<"deploy", (CHOOSE t \in files : t.dst = d).src>>]
  IN With(efi, With(boot, own))

\* Each ESP of an assembled image holds the content of its own partition, complete and nothing else, although
\* all of them are staged in one directory, made under one name and listed in a class attribute, and although
\* a run of wic writes through links into OTA_BOOT, the input of the next run. The exception is a list of its own
\* that is ignored: of that nothing is there.
EspContent ==
  pc = "complete" => \A i \in DOMAIN disk :
    LET p == setup.parts[i]
    IN ESP(p) => disk[i] = Content(setup, IF Ignored(setup, p) THEN {} ELSE Wanted(setup, p), deployed)

\* "required for compatibility with certain devices expecting file system block count to be equal to partition
\* block count" (:239): a partition of fixed size is filled by its file system; others have --size and the extra space.
BlocksFit ==
  disk # <<>> =>
    \A i \in DOMAIN disk : ESP(setup.parts[i]) =>
      /\ setup.parts[i].fixed # 0 => size[i] = setup.parts[i].fixed
      /\ size[i] >= FileBlocks * Cardinality(DOMAIN disk[i]) + BOOTDD_EXTRA_SPACE
      /\ size[i] >= setup.parts[i].size
=============================================================================
