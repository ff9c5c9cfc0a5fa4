-------------------------- MODULE ComposefsVerity ---------------------------
(***************************************************************************)
(* The composefs module of the initramfs: composefs_ensure_fsverity, which *)
(* makes sure at boot that fs-verity is enabled on every file of the       *)
(* ostree repository and on the composefs file of every deployment.        *)
(*                                                                         *)
(* The decision to do the work reads three markers: a lock file, the       *)
(* composefs file of the booted deployment and, on an upgrade, one file of *)
(* each deployment.  The power may fail at any time, and enabling verity   *)
(* may fail on any file; so may the commands that list the files and that  *)
(* keep a record of the errors, whose own status nobody looks at.  Between *)
(* boots, updates add files.                                               *)
(***************************************************************************)
EXTENDS Naturals

CONSTANTS
  Deployments, NoDeployment,
  Objects,        \* files of ostree/repo/objects of each deployment, a function
  OsRelease,      \* the object that is usr/etc/os-release, a function
  CfsFile,        \* the composefs file of a deployment, a function
  Devices,        \* kinds of devices, see DeviceType
  MaxBoots, MaxFaults

AllObjects == UNION {Objects[d] : d \in Deployments}
CfsFiles == {CfsFile[d] : d \in Deployments}
Files == AllObjects \union CfsFiles

\* WithCfs: deployments that have a composefs file; Mode: composefs.enabled of a deployment's
\* prepare-root.conf, "none" without one; First: deployments on disk at the first boot; Upgrade,
\* Always: CFS_UPGRADE_ENABLE, CFS_ALWAYS_ENABLE; UpdateSeals: what an update adds has verity,
\* ex-integrity.fsverity of the repository.
DeviceType ==
  [WithCfs : SUBSET Deployments, Mode : [Deployments -> {"none", "no", "yes", "signed"}],
   First : SUBSET Deployments, Upgrade : BOOLEAN, Always : BOOLEAN, UpdateSeals : BOOLEAN]

ASSUME FilesAssumption ==
  /\ \A d \in Deployments : OsRelease[d] \in Objects[d]
  /\ AllObjects \intersect CfsFiles = {}
  /\ \A d, e \in Deployments : CfsFile[d] = CfsFile[e] => d = e
  /\ NoDeployment \notin Deployments
ASSUME ConfigAssumption ==
  Devices \subseteq DeviceType /\ MaxBoots \in Nat /\ MaxFaults \in Nat

VARIABLES
  device,    \* of Devices
  deployed,  \* deployments on disk
  verity,    \* files with fs-verity
  feature,   \* the verity feature of the file system
  lockfile,
  pc, booted, todo, status,  \* of the running boot
  errors,    \* files recorded in tmpf
  tmpf,      \* mktemp made it
  boots, faults,
  enabled,   \* history: deployments on disk whose files the running boot has been through
  lost,      \* history: files that were left out without a record, when they were last looked at
  failures   \* history: files that enabling ever left out

vars == <<device, deployed, verity, feature, lockfile, pc, booted, todo, errors, tmpf, status, boots,
          faults, enabled, lost, failures>>

PCs == {"off", "config", "feature", "decide", "lock", "mktemp", "find", "objects", "cfs", "unlock", "up"}

\* Types of the variables; files are enabled under the lock file only.
TypeOK ==
  /\ device \in Devices
  /\ deployed \subseteq Deployments /\ verity \subseteq Files
  /\ feature \in BOOLEAN /\ lockfile \in BOOLEAN
  /\ pc \in PCs /\ booted \in Deployments \union {NoDeployment}
  /\ todo \subseteq Files /\ errors \subseteq Files /\ status \in {0, 1}
  /\ boots \in Nat /\ faults \in Nat
  /\ tmpf \in BOOLEAN
  /\ enabled \subseteq Deployments /\ failures \subseteq Files /\ lost \subseteq Files
  /\ pc \in {"mktemp", "find", "objects", "cfs", "unlock"} => lockfile

ObjectsOnDisk == UNION {Objects[d] : d \in deployed}
CfsOf(ds) == {CfsFile[d] : d \in ds \intersect device.WithCfs}

\* An image built with or without the verity feature; the build host enables verity on no file.
Init ==
  /\ device \in Devices /\ deployed = device.First /\ verity = {} /\ feature \in BOOLEAN /\ lockfile = FALSE
  /\ pc = "off" /\ booted = NoDeployment /\ todo = {} /\ errors = {} /\ status = 0
  /\ tmpf = FALSE /\ lost = {} /\ boots = 0 /\ faults = 0 /\ enabled = {} /\ failures = {}

record == <<errors, tmpf>>
boot == <<booted, todo, record, status>>
history == <<enabled, lost, failures>>

Boot(d) ==
  /\ pc = "off" /\ boots < MaxBoots /\ boots' = boots + 1
  /\ pc' = "config" /\ booted' = d /\ todo' = {} /\ errors' = {} /\ status' = 0
  /\ tmpf' = FALSE /\ enabled' = {}
  /\ UNCHANGED <<deployed, verity, feature, lockfile, faults, lost, failures>>

Return(from, code) == pc = from /\ pc' = "up" /\ status' = code /\ UNCHANGED <<booted, todo, record>>
Goto(from, to) == pc = from /\ pc' = to /\ UNCHANGED boot
Fault == faults < MaxFaults /\ faults' = faults + 1

\* Only mode signed needs verity. A deployment without the module has no configuration either.
ReadConfig ==
  /\ IF booted # NoDeployment /\ device.Mode[booted] # "signed" THEN Return("config", 0)
                                                          ELSE Goto("config", "feature")
  /\ UNCHANGED <<deployed, verity, feature, lockfile, boots, faults, history>>

\* composefs_enable_fsverity_fs, then the deployment of ostree=
EnableFeature ==
  /\ feature' = TRUE
  /\ IF booted = NoDeployment THEN Return("feature", 1) ELSE Goto("feature", "decide")
  /\ UNCHANGED <<deployed, verity, lockfile, boots, faults, history>>

FeatureFails ==
  /\ Fault
  /\ Return("feature", 1)
  /\ UNCHANGED <<deployed, verity, feature, lockfile, boots, history>>

CfsUnsealed == booted \in device.WithCfs /\ CfsFile[booted] \notin verity
PartlySealed == device.Upgrade /\ \E d \in deployed : OsRelease[d] \notin verity
NeededIgnoringCfs == lockfile \/ PartlySealed \/ device.Always
Needed == lockfile \/ CfsUnsealed \/ PartlySealed \/ device.Always

\* "Enabling fsverity on repository is not needed", or start it.
Decide ==
  /\ IF Needed THEN Goto("decide", "lock") ELSE Return("decide", 0)
  /\ UNCHANGED <<deployed, verity, feature, lockfile, boots, faults, history>>

TouchLock ==
  /\ Goto("lock", "mktemp")
  /\ lockfile' = TRUE
  /\ UNCHANGED <<deployed, verity, feature, boots, faults, history>>

TouchFails ==
  /\ Fault
  /\ Return("lock", 1)
  /\ UNCHANGED <<deployed, verity, feature, lockfile, boots, history>>

\* The file for the errors. Without it, the script goes on and the lines are appended to nothing.
MakeRecord ==
  /\ pc = "mktemp" /\ pc' = "find"
  /\ \/ tmpf' = TRUE /\ UNCHANGED faults
     \/ tmpf' = FALSE /\ Fault
  /\ UNCHANGED <<deployed, verity, feature, lockfile, booted, todo, errors, status, boots, history>>

\* find lists the objects; one that fails is a pipe that ends early.
FindObjects ==
  /\ pc = "find" /\ pc' = "objects"
  /\ todo' = ObjectsOnDisk
  /\ UNCHANGED <<deployed, verity, feature, lockfile, booted, record, status, boots, faults, history>>

FindFails ==
  /\ pc = "find" /\ pc' = "objects" /\ Fault
  /\ \E left \in SUBSET (ObjectsOnDisk \ verity) :
       /\ todo' = ObjectsOnDisk \ left
       /\ lost' = lost \union left /\ failures' = failures \union left
  /\ UNCHANGED <<deployed, verity, feature, lockfile, booted, record, status, boots, enabled>>

\* fsverity enable || fsverity measure, of one file
EnableFile(f) ==
  /\ pc \in {"objects", "cfs"} /\ f \in todo
  /\ todo' = todo \ {f}
  /\ verity' = verity \union {f}
  /\ UNCHANGED <<deployed, feature, lockfile, pc, booted, record, status, boots, faults, history>>

\* The error is recorded, unless there is no file for it or the line cannot be written.
FileFails(f) ==
  /\ pc \in {"objects", "cfs"} /\ f \in todo \ verity /\ Fault
  /\ todo' = todo \ {f} /\ failures' = failures \union {f}
  /\ \/ tmpf /\ errors' = errors \union {f} /\ lost' = lost \ {f}
     \/ lost' = lost \union {f} /\ UNCHANGED errors
  /\ UNCHANGED <<deployed, verity, feature, lockfile, pc, booted, tmpf, status, boots, enabled>>

\* All objects done; then the composefs files of all deployments.
ObjectsDone ==
  /\ pc = "objects" /\ todo = {}
  /\ pc' = "cfs" /\ todo' = CfsOf(deployed)
  /\ UNCHANGED <<deployed, verity, feature, lockfile, booted, record, status, boots, faults, history>>

\* grep -c counts the errors in the file.
CfsDone ==
  /\ todo = {} /\ Goto("cfs", "unlock")
  /\ enabled' = deployed
  /\ UNCHANGED <<deployed, verity, feature, lockfile, boots, faults, lost, failures>>

\* A count that fails is empty, which the comparison with 0 takes for no error.
CountFails ==
  /\ pc = "cfs" /\ todo = {} /\ pc' = "unlock" /\ Fault
  /\ errors' = {} /\ lost' = lost \union errors
  /\ enabled' = deployed
  /\ UNCHANGED <<deployed, verity, feature, lockfile, booted, todo, tmpf, status, boots, failures>>

UnlockSucceeds ==
  /\ lockfile' = FALSE
  /\ Return("unlock", 0)
  /\ UNCHANGED <<deployed, verity, feature, boots, faults, history>>

\* The lock file is removed whatever the outcome; errors make the status 1.
Unlock ==
  /\ lockfile' = FALSE
  /\ Return("unlock", IF errors = {} THEN 0 ELSE 1)
  /\ UNCHANGED <<deployed, verity, feature, boots, faults, history>>

\* ostree-prepare-root, which runs next, mounts a signed deployment only by a sealed composefs file.
Running == /\ pc = "up" /\ booted # NoDeployment
           /\ device.Mode[booted] = "signed" => CfsFile[booted] \in verity

\* An update of the running system pulls the objects it lacks, deploys, and prunes.
Update(d, gone) ==
  /\ Running /\ d \notin deployed
  /\ deployed' = (deployed \ gone) \union {d}
  /\ LET new == IF device.UpdateSeals /\ feature THEN (Objects[d] \ ObjectsOnDisk) \union CfsOf({d}) ELSE {}
     IN  verity' = (verity \union new) \intersect (ObjectsOnDisk' \union CfsOf(deployed'))
  /\ enabled' = enabled \ gone
  /\ UNCHANGED <<feature, lockfile, pc, boot, boots, faults, lost, failures>>

\* A reboot, or the power fails.
PowerOff ==
  /\ pc # "off" /\ pc' = "off"
  /\ UNCHANGED <<deployed, verity, feature, lockfile, boot, boots, faults, history>>

Next ==
  /\ \/ ReadConfig \/ EnableFeature \/ FeatureFails \/ Decide \/ TouchLock \/ TouchFails
     \/ MakeRecord \/ FindObjects \/ FindFails
     \/ ObjectsDone \/ CfsDone \/ CountFails \/ Unlock \/ PowerOff
     \/ \E d \in deployed \union {NoDeployment} : Boot(d)
     \/ \E d \in Deployments, gone \in SUBSET (deployed \ {booted}) : Update(d, gone)
     \/ \E f \in Files : EnableFile(f) \/ FileFails(f)
  /\ UNCHANGED device

Spec == Init /\ [][Next]_vars

-----------------------------------------------------------------------------
FilesOf(d) == Objects[d] \union CfsOf({d})
Succeeded == pc = "up" /\ status = 0 /\ booted # NoDeployment /\ device.Mode[booted] = "signed"

\* Devices on which the markers can be trusted: every boot enables verity on all; or every deployment
\* has a composefs file and either boots signed or was not sealed by the client; or upgrades are looked
\* for and the client seals nothing. A client that seals what it adds to a system that was not sealed
\* leaves the objects that were there before.
Sealable(v) ==
  \/ v.Always
  \/ v.WithCfs = Deployments /\ (v.UpdateSeals => \A d \in Deployments : v.Mode[d] = "signed")
  \/ v.Upgrade /\ ~v.UpdateSeals

\* No deployment has the os-release of another one, which names its build.
OwnOsRelease == \A d, e \in Deployments : OsRelease[d] \in Objects[e] => d = e

\* A boot in mode signed whose module returned 0 has verity on every file of its deployment, however
\* often earlier boots were interrupted (the comment on the lock file), if enabling never left a file out.
InterruptedIsResumed == Succeeded /\ failures = {} => FilesOf(booted) \subseteq verity

\* A boot that went through the enabling and returns 0 left no file of any deployment without verity
\* but those whose error it could not record or count and those that find did not list: the script
\* asks neither mktemp nor find nor grep whether they failed, and reports these as sealed.
EnabledOrReported ==
  Succeeded => \A d \in enabled : FilesOf(d) \subseteq verity \union lost

\* "Handle the case where fsverity is partially enabled on the repository": a boot with
\* CFS_UPGRADE_ENABLE that returns 0 leaves no file of its deployment without verity, other than
\* one whose error was lost.
PartialIsHandled == Succeeded /\ device.Upgrade => FilesOf(booted) \subseteq verity \union lost
=============================================================================
