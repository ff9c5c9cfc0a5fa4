----------------------- MODULE ComposefsVerityProofs ------------------------
(***************************************************************************)
(* What holds of ComposefsVerity for any deployments, objects and devices, *)
(* any number of boots and faults, wherever the power fails.               *)
(***************************************************************************)
EXTENDS ComposefsVerity, TLAPS

-----------------------------------------------------------------------------
(* The inductive invariant.                                                *)

\* Verity is on files of the disk only, and only on a file system with the feature.
DiskInv ==
  /\ booted \in deployed \union {NoDeployment}
  /\ verity \subseteq ObjectsOnDisk \union CfsOf(deployed)
  /\ verity # {} => feature
  /\ pc \in {"decide", "lock", "mktemp", "find", "objects", "cfs", "unlock"} => feature
  /\ pc = "objects" => todo \subseteq ObjectsOnDisk
  /\ pc = "cfs" => todo \subseteq CfsOf(deployed)
  /\ pc \in {"decide", "lock", "mktemp", "find", "objects", "cfs", "unlock"} => booted # NoDeployment
  /\ pc \in PCs \ {"off", "config", "up"} /\ booted # NoDeployment => device.Mode[booted] = "signed"

\* What is left to do in each phase, and what had to be reported, or could not be.
Failed == errors \union lost
ErrorsInv == Failed \subseteq failures
ObjectsInv == pc = "objects" => ObjectsOnDisk \subseteq verity \union todo \union Failed
CfsInv ==
  pc = "cfs" =>
    /\ ObjectsOnDisk \subseteq verity \union Failed
    /\ CfsOf(deployed) \subseteq verity \union todo \union Failed
UnlockInv == pc = "unlock" => ObjectsOnDisk \union CfsOf(deployed) \subseteq verity \union Failed

\* The history is of this boot, of deployments on disk, and of none left without verity or a report.
EnabledInv ==
  /\ enabled \subseteq deployed
  /\ pc \notin {"off", "unlock", "up"} => enabled = {}
  /\ pc = "up" /\ status = 0 => \A d \in enabled : FilesOf(d) \subseteq verity \union lost

\* The markers that Decide reads, while enabling never failed. A composefs file: its objects are
\* sealed, or the lock file tells the next boot to go on.
SealedByCfs(v) == v.WithCfs = Deployments /\ (v.UpdateSeals => \A d \in Deployments : v.Mode[d] = "signed")
CfsMarks ==
  SealedByCfs(device) /\ ~lockfile =>
    \A d \in deployed : CfsFile[d] \in verity => Objects[d] \subseteq verity

\* A client that seals adds to a repository that is sealed throughout: it runs on a sealed deployment.
RepoSealed ==
  SealedByCfs(device) /\ device.UpdateSeals /\ (\E d \in deployed : CfsFile[d] \in verity) =>
    ObjectsOnDisk \subseteq verity

\* An os-release: as above.
ReleaseMarks ==
  OwnOsRelease /\ device.Upgrade /\ ~device.UpdateSeals /\ ~lockfile =>
    \A d \in deployed : OsRelease[d] \in verity => Objects[d] \subseteq verity

MarksInv == failures = {} => CfsMarks /\ RepoSealed /\ ReleaseMarks
SealedInv ==
  Sealable(device) /\ OwnOsRelease /\ failures = {} /\ Succeeded => FilesOf(booted) \subseteq verity

IInv ==
  /\ TypeOK /\ DiskInv /\ ErrorsInv /\ ObjectsInv /\ CfsInv /\ UnlockInv /\ EnabledInv
  /\ MarksInv /\ SealedInv

-----------------------------------------------------------------------------
(* Files.                                                                  *)

\* What the files of a disk are: the objects of its deployments, and composefs files of some.
LEMMA DiskFiles ==
  ASSUME TypeOK
  PROVE  /\ ObjectsOnDisk \subseteq AllObjects /\ CfsOf(deployed) \subseteq CfsFiles
         /\ ObjectsOnDisk \intersect CfsFiles = {} /\ CfsOf(deployed) \intersect AllObjects = {}
         /\ \A d \in deployed : Objects[d] \subseteq ObjectsOnDisk
         /\ \A d \in deployed : FilesOf(d) \subseteq ObjectsOnDisk \union CfsOf(deployed)
         /\ \A d \in deployed : OsRelease[d] \in ObjectsOnDisk
         /\ \A d \in Deployments : Objects[d] \subseteq AllObjects
         /\ \A d \in Deployments : CfsFile[d] \in CfsFiles /\ OsRelease[d] \in Objects[d]
         /\ \A d \in Deployments : CfsFile[d] \in CfsOf(deployed) => d \in deployed
BY FilesAssumption
   DEF TypeOK, ObjectsOnDisk, AllObjects, CfsFiles, CfsOf, FilesOf

\* A device keeps its configuration.
LEMMA DeviceFields ==
  ASSUME TypeOK
  PROVE  /\ device.WithCfs \subseteq Deployments /\ device.Upgrade \in BOOLEAN
         /\ device.Always \in BOOLEAN /\ device.UpdateSeals \in BOOLEAN
BY ConfigAssumption DEF TypeOK, DeviceType

-----------------------------------------------------------------------------
(* The steps that change neither files nor deployments.                    *)

LEMMA InitIInv == Init => IInv
<1> SUFFICES ASSUME Init PROVE IInv
  OBVIOUS
<1>1. TypeOK
  BY ConfigAssumption DEF Init, TypeOK, PCs, DeviceType
<1>2. DiskInv /\ ErrorsInv /\ ObjectsInv /\ CfsInv /\ UnlockInv /\ EnabledInv
  BY DEF Init, DiskInv, ErrorsInv, Failed, ObjectsInv, CfsInv, UnlockInv, EnabledInv
<1>3. MarksInv /\ SealedInv
  <2>1. CfsMarks
    BY <1>1, FilesAssumption DEF Init, CfsMarks
  <2> QED BY <1>1, <2>1 DEF Init, MarksInv, RepoSealed, ReleaseMarks, SealedInv, Succeeded
<1> QED BY <1>1, <1>2, <1>3 DEF IInv

\* What the files and the markers are is not touched: the parts that only speak of them stay.
LEMMA FilesStay ==
  ASSUME IInv, UNCHANGED <<device, deployed, verity, feature, lockfile, failures>>
  PROVE  /\ MarksInv'
         /\ verity' \subseteq ObjectsOnDisk' \union CfsOf(deployed)' /\ (verity' # {} => feature')
         /\ ObjectsOnDisk' = ObjectsOnDisk /\ CfsOf(deployed)' = CfsOf(deployed)
         /\ \A d \in Deployments : FilesOf(d)' = FilesOf(d)
BY DEF IInv, DiskInv, MarksInv, CfsMarks, SealedByCfs, RepoSealed, ReleaseMarks, ObjectsOnDisk, CfsOf,
       FilesOf

LEMMA BootStep ==
  ASSUME IInv, NEW d \in deployed \union {NoDeployment}, Boot(d), device' = device
  PROVE  IInv'
<1>0. tmpf' \in BOOLEAN
  BY DEF Boot
<1>1. TypeOK'
  BY <1>0 DEF IInv, TypeOK, Boot, PCs
<1>2. DiskInv'
  BY FilesStay DEF PCs, IInv, DiskInv, Boot
<1>3. (ErrorsInv /\ ObjectsInv /\ CfsInv /\ UnlockInv /\ EnabledInv)'
  BY DEF Boot, IInv, ErrorsInv, Failed, ObjectsInv, CfsInv, UnlockInv, EnabledInv
<1>4. MarksInv'
  BY FilesStay DEF Boot
<1>5. SealedInv'
  BY DEF Boot, SealedInv, Succeeded
<1> QED BY <1>1, <1>2, <1>3, <1>4, <1>5 DEF IInv

LEMMA PowerOffStep ==
  ASSUME IInv, PowerOff, device' = device
  PROVE  IInv'
<1>1. TypeOK'
  BY DEF IInv, TypeOK, PowerOff, PCs, boot, record, history
<1>2. DiskInv'
  BY FilesStay DEF PCs, IInv, DiskInv, PowerOff, boot, record, history
<1>3. (ErrorsInv /\ ObjectsInv /\ CfsInv /\ UnlockInv /\ EnabledInv)'
  BY DEF IInv, PowerOff, ErrorsInv, Failed, ObjectsInv, CfsInv, UnlockInv, EnabledInv, boot, record, history
<1>4. MarksInv'
  BY FilesStay DEF PowerOff, history
<1>5. SealedInv'
  BY DEF PowerOff, SealedInv, Succeeded
<1> QED BY <1>1, <1>2, <1>3, <1>4, <1>5 DEF IInv

\* A boot that ends before the files: only Decide can return 0 in mode signed.
LEMMA ReadConfigStep ==
  ASSUME IInv, ReadConfig, device' = device
  PROVE  IInv'
<1>1. /\ pc = "config" /\ pc' \in {"up", "feature"}
      /\ pc' = "up" => booted # NoDeployment /\ device.Mode[booted] # "signed"
      /\ pc' = "feature" /\ booted # NoDeployment => device.Mode[booted] = "signed"
      /\ UNCHANGED <<booted, todo, errors, tmpf>> /\ status' \in {0, status}
  BY DEF ReadConfig, Return, Goto, boot, record
<1>2. TypeOK'
  BY <1>1 DEF IInv, TypeOK, ReadConfig, PCs, history
<1>3. DiskInv'
  BY <1>1, FilesStay DEF PCs, IInv, DiskInv, ReadConfig, history
<1>4. (ErrorsInv /\ ObjectsInv /\ CfsInv /\ UnlockInv /\ EnabledInv)'
  BY <1>1 DEF IInv, ReadConfig, ErrorsInv, Failed, ObjectsInv, CfsInv, UnlockInv, EnabledInv, history
<1>5. MarksInv'
  BY FilesStay DEF ReadConfig, history
<1>6. SealedInv'
  BY <1>1 DEF SealedInv, Succeeded
<1> QED BY <1>2, <1>3, <1>4, <1>5, <1>6 DEF IInv

\* With the feature the file system can have verity; without, it has none.
LEMMA EnableFeatureStep ==
  ASSUME IInv, EnableFeature, device' = device
  PROVE  IInv'
<1>1. /\ pc = "feature" /\ pc' \in {"up", "decide"} /\ feature'
      /\ pc' = "decide" => booted # NoDeployment
      /\ pc' = "up" => status' = 1
      /\ status' \in {status, 1}
      /\ UNCHANGED <<booted, todo, errors, tmpf, lost, deployed, verity, lockfile, boots, faults, enabled, failures>>
  BY DEF EnableFeature, Return, Goto, history, boot, record
<1>2. TypeOK'
  BY <1>1 DEF IInv, TypeOK, PCs
<1>3. DiskInv'
  BY <1>1 DEF IInv, DiskInv, ObjectsOnDisk, CfsOf, PCs
<1>4. (ErrorsInv /\ ObjectsInv /\ CfsInv /\ UnlockInv /\ EnabledInv)'
  BY <1>1 DEF IInv, ErrorsInv, Failed, ObjectsInv, CfsInv, UnlockInv, EnabledInv
<1>5. MarksInv'
  BY <1>1 DEF IInv, MarksInv, CfsMarks, SealedByCfs, RepoSealed, ReleaseMarks, ObjectsOnDisk
<1>6. SealedInv'
  BY <1>1 DEF SealedInv, Succeeded
<1> QED BY <1>2, <1>3, <1>4, <1>5, <1>6 DEF IInv

LEMMA FailureStep ==
  ASSUME IInv, FeatureFails \/ TouchFails, device' = device
  PROVE  IInv'
<1>1. /\ pc \in {"feature", "lock"} /\ pc' = "up" /\ status' = 1
      /\ UNCHANGED <<booted, todo, errors, tmpf, lost, deployed, verity, feature, lockfile, boots, enabled, failures>>
      /\ faults' = faults + 1
  BY DEF FeatureFails, TouchFails, Return, Fault, history, boot, record
<1>2. TypeOK'
  BY <1>1 DEF IInv, TypeOK, PCs
<1>3. DiskInv'
  BY <1>1, FilesStay DEF PCs, IInv, DiskInv
<1>4. (ErrorsInv /\ ObjectsInv /\ CfsInv /\ UnlockInv /\ EnabledInv)'
  BY <1>1 DEF IInv, ErrorsInv, Failed, ObjectsInv, CfsInv, UnlockInv, EnabledInv
<1>5. MarksInv'
  BY <1>1, FilesStay
<1>6. SealedInv'
  BY <1>1 DEF SealedInv, Succeeded
<1> QED BY <1>2, <1>3, <1>4, <1>5, <1>6 DEF IInv

-----------------------------------------------------------------------------
(* The enabling.                                                           *)

\* "Not needed": every marker of the booted deployment is there and can be trusted.
LEMMA DecideStep ==
  ASSUME IInv, Decide, device' = device
  PROVE  IInv'
<1>1. /\ pc = "decide" /\ pc' \in {"up", "lock"}
      /\ pc' = "up" => ~Needed
      /\ UNCHANGED <<booted, todo, errors, tmpf, lost, deployed, verity, feature, lockfile, boots, faults,
                     enabled, failures>>
      /\ status' \in {0, status}
  BY DEF Decide, Return, Goto, history, boot, record
<1>2. TypeOK'
  BY <1>1 DEF IInv, TypeOK, PCs
<1>3. DiskInv'
  BY <1>1, FilesStay DEF PCs, IInv, DiskInv
<1>4. (ErrorsInv /\ ObjectsInv /\ CfsInv /\ UnlockInv /\ EnabledInv)'
  BY <1>1 DEF IInv, ErrorsInv, Failed, ObjectsInv, CfsInv, UnlockInv, EnabledInv
<1>5. MarksInv'
  BY <1>1, FilesStay
<1>6. ASSUME Sealable(device), OwnOsRelease, failures = {}, ~Needed
      PROVE  FilesOf(booted) \subseteq verity
  <2>1. /\ booted \in deployed /\ booted \in Deployments
        /\ ~lockfile /\ ~device.Always
        /\ booted \in device.WithCfs => CfsFile[booted] \in verity
        /\ device.Upgrade => \A d \in deployed : OsRelease[d] \in verity
    BY <1>1, <1>6 DEF Needed, CfsUnsealed, PartlySealed, IInv, DiskInv, TypeOK
  <2>2. CfsOf({booted}) \subseteq verity
    BY <2>1 DEF CfsOf
  <2>3. Objects[booted] \subseteq verity
    BY <2>1, <1>6 DEF Sealable, IInv, MarksInv, CfsMarks, SealedByCfs, ReleaseMarks
  <2> QED BY <2>2, <2>3 DEF FilesOf
<1>7. SealedInv'
  BY <1>1, <1>6 DEF SealedInv, Succeeded, FilesOf, CfsOf
<1> QED BY <1>2, <1>3, <1>4, <1>5, <1>7 DEF IInv

LEMMA TouchLockStep ==
  ASSUME IInv, TouchLock, device' = device
  PROVE  IInv'
<1>0. /\ pc = "lock" /\ pc' = "mktemp" /\ lockfile'
      /\ UNCHANGED <<deployed, verity, feature, booted, todo, errors, tmpf, lost, status, boots, faults,
                     enabled, failures>>
  BY DEF TouchLock, Goto, boot, record, history
<1>1. TypeOK'
  BY <1>0 DEF IInv, TypeOK, TouchLock, PCs
<1>2. DiskInv'
  BY <1>0 DEF PCs, IInv, DiskInv, ObjectsOnDisk, CfsOf
<1>3. (ErrorsInv /\ ObjectsInv /\ CfsInv /\ UnlockInv /\ EnabledInv)'
  BY <1>0 DEF IInv, ErrorsInv, Failed, ObjectsInv, CfsInv, UnlockInv, EnabledInv
<1>4. MarksInv'
  BY <1>0 DEF IInv, MarksInv, CfsMarks, SealedByCfs, RepoSealed, ReleaseMarks, ObjectsOnDisk
<1>5. SealedInv'
  BY <1>0 DEF SealedInv, Succeeded
<1> QED BY <1>1, <1>2, <1>3, <1>4, <1>5 DEF IInv

\* The file for the errors, and the list of the objects, which may lack some.
LEMMA PrepareStep ==
  ASSUME IInv, MakeRecord \/ FindObjects, device' = device
  PROVE  IInv'
<1>1. /\ pc \in {"mktemp", "find"} /\ pc' \in {"find", "objects"}
      /\ todo' \in {todo, ObjectsOnDisk} /\ (pc' = "objects" => todo' = ObjectsOnDisk)
      /\ tmpf' \in BOOLEAN /\ faults' \in {faults, faults + 1}
      /\ UNCHANGED <<deployed, verity, feature, lockfile, booted, errors, lost, status, boots,
                     enabled, failures>>
  <2>1. CASE MakeRecord
    <3>1. tmpf' \in BOOLEAN  BY <2>1 DEF MakeRecord
    <3> QED  BY <2>1, <3>1 DEF MakeRecord, Fault, history
  <2>2. CASE FindObjects
    BY <2>2 DEF FindObjects, record, history, IInv, TypeOK
  <2> QED  BY <2>1, <2>2
<1>2. TypeOK'
  BY <1>1, DiskFiles DEF IInv, TypeOK, PCs, Files
<1>3. ObjectsOnDisk' = ObjectsOnDisk /\ CfsOf(deployed)' = CfsOf(deployed)
  BY <1>1 DEF ObjectsOnDisk, CfsOf
<1>4. DiskInv'
  BY <1>1, <1>3 DEF PCs, IInv, DiskInv
<1>5. (ErrorsInv /\ ObjectsInv /\ CfsInv /\ UnlockInv /\ EnabledInv)'
  BY <1>1, <1>3 DEF IInv, ErrorsInv, Failed, ObjectsInv, CfsInv, UnlockInv, EnabledInv
<1>6. MarksInv'
  BY <1>1, FilesStay
<1>7. SealedInv'
  BY <1>1 DEF SealedInv, Succeeded
<1> QED BY <1>2, <1>4, <1>5, <1>6, <1>7 DEF IInv

LEMMA FindFailsStep ==
  ASSUME IInv, FindFails, device' = device
  PROVE  IInv'
<1>1. PICK left \in SUBSET (ObjectsOnDisk \ verity) :
        /\ todo' = ObjectsOnDisk \ left
        /\ lost' = lost \union left /\ failures' = failures \union left
  BY DEF FindFails
<1>2. /\ pc = "find" /\ pc' = "objects" /\ faults' = faults + 1
      /\ UNCHANGED <<deployed, verity, feature, lockfile, booted, errors, tmpf, status, boots, enabled>>
  BY DEF FindFails, Fault, record
<1>3. TypeOK'
  BY <1>1, <1>2, DiskFiles DEF IInv, TypeOK, PCs, Files
<1>4. ObjectsOnDisk' = ObjectsOnDisk /\ CfsOf(deployed)' = CfsOf(deployed)
  BY <1>2 DEF ObjectsOnDisk, CfsOf
<1>5. DiskInv'
  BY <1>1, <1>2, <1>4 DEF PCs, IInv, DiskInv
<1>6. (ErrorsInv /\ ObjectsInv /\ CfsInv /\ UnlockInv /\ EnabledInv)'
  BY <1>1, <1>2, <1>4 DEF IInv, ErrorsInv, Failed, ObjectsInv, CfsInv, UnlockInv, EnabledInv
<1>7. MarksInv'
  <2>1. ASSUME failures' = {} PROVE failures = {}
    BY <1>1, <2>1
  <2> QED BY <1>2, <2>1 DEF IInv, MarksInv, CfsMarks, SealedByCfs, RepoSealed, ReleaseMarks, ObjectsOnDisk
<1>8. SealedInv'
  BY <1>2 DEF SealedInv, Succeeded
<1> QED BY <1>3, <1>5, <1>6, <1>7, <1>8 DEF IInv

LEMMA EnableFileStep ==
  ASSUME IInv, NEW f \in Files, EnableFile(f), device' = device
  PROVE  IInv'
<1>1. /\ pc \in {"objects", "cfs"} /\ f \in todo /\ todo' = todo \ {f} /\ verity' = verity \union {f}
      /\ UNCHANGED <<deployed, feature, lockfile, pc, booted, errors, tmpf, lost, status, boots, faults,
                     enabled, failures>>
      /\ lockfile /\ feature
  BY DEF EnableFile, history, record, IInv, TypeOK, DiskInv
<1>2. TypeOK'
  BY <1>1 DEF IInv, TypeOK
<1>3. ObjectsOnDisk' = ObjectsOnDisk /\ CfsOf(deployed)' = CfsOf(deployed)
  BY <1>1 DEF ObjectsOnDisk, CfsOf
<1>4. DiskInv'
  BY <1>1, <1>3 DEF PCs, IInv, DiskInv
<1>5. (ErrorsInv /\ ObjectsInv /\ CfsInv /\ UnlockInv /\ EnabledInv)'
  BY <1>1, <1>3 DEF IInv, ErrorsInv, Failed, ObjectsInv, CfsInv, UnlockInv, EnabledInv
<1>6. MarksInv'
  <2>1. CfsMarks' /\ ReleaseMarks'
    BY <1>1 DEF CfsMarks, ReleaseMarks
  <2>2. ASSUME failures = {} PROVE RepoSealed'
    <3>1. CASE pc = "cfs"
      BY <1>1, <1>3, <2>2, <3>1 DEF IInv, CfsInv, ErrorsInv, Failed, RepoSealed
    <3>2. CASE pc = "objects"
      <4>1. \A d \in deployed : CfsFile[d] # f
        BY <1>1, <3>2, DiskFiles DEF IInv, DiskInv, TypeOK
      <4> QED BY <4>1, <1>1, <1>3, <2>2 DEF IInv, MarksInv, RepoSealed, SealedByCfs
    <3> QED BY <1>1, <3>1, <3>2
  <2> QED BY <1>1, <2>1, <2>2 DEF MarksInv
<1>7. SealedInv'
  BY <1>1 DEF SealedInv, Succeeded
<1> QED BY <1>2, <1>4, <1>5, <1>6, <1>7 DEF IInv

LEMMA FileFailsStep ==
  ASSUME IInv, NEW f \in Files, FileFails(f), device' = device
  PROVE  IInv'
<1>1. /\ pc \in {"objects", "cfs"} /\ f \in todo /\ todo' = todo \ {f}
      /\ Failed' = Failed \union {f} /\ failures' = failures \union {f} /\ faults' = faults + 1
      /\ errors' \subseteq errors \union {f} /\ lost' \subseteq lost \union {f}
      /\ UNCHANGED <<deployed, verity, feature, lockfile, pc, booted, tmpf, status, boots, enabled>>
  BY DEF FileFails, Fault, Failed
<1>2. TypeOK'
  BY <1>1 DEF IInv, TypeOK
<1>3. ObjectsOnDisk' = ObjectsOnDisk /\ CfsOf(deployed)' = CfsOf(deployed)
  BY <1>1 DEF ObjectsOnDisk, CfsOf
<1>4. DiskInv'
  BY <1>1, <1>3 DEF PCs, IInv, DiskInv
<1>5. (ErrorsInv /\ ObjectsInv /\ CfsInv /\ UnlockInv /\ EnabledInv)'
  BY <1>1, <1>3 DEF IInv, ErrorsInv, ObjectsInv, CfsInv, UnlockInv, EnabledInv
<1>6. MarksInv' /\ SealedInv'
  BY <1>1 DEF MarksInv, SealedInv
<1> QED BY <1>2, <1>4, <1>5, <1>6 DEF IInv

LEMMA ObjectsDoneStep ==
  ASSUME IInv, ObjectsDone, device' = device
  PROVE  IInv'
<1>1. TypeOK'
  BY DiskFiles DEF IInv, TypeOK, ObjectsDone, PCs, history, record, Files
<1>2. ObjectsOnDisk' = ObjectsOnDisk /\ CfsOf(deployed)' = CfsOf(deployed)
  BY DEF ObjectsDone, ObjectsOnDisk, CfsOf
<1>3. DiskInv'
  BY <1>2 DEF PCs, IInv, DiskInv, ObjectsDone
<1>4. (ErrorsInv /\ ObjectsInv /\ CfsInv /\ UnlockInv /\ EnabledInv)'
  BY <1>2 DEF IInv, ObjectsDone, ErrorsInv, Failed, ObjectsInv, CfsInv, UnlockInv, EnabledInv, history, record
<1>5. MarksInv'
  BY FilesStay DEF ObjectsDone, history
<1>6. SealedInv'
  BY DEF ObjectsDone, SealedInv, Succeeded
<1> QED BY <1>1, <1>3, <1>4, <1>5, <1>6 DEF IInv

LEMMA CfsDoneStep ==
  ASSUME IInv, CfsDone \/ CountFails, device' = device
  PROVE  IInv'
<1>1. /\ pc = "cfs" /\ pc' = "unlock" /\ todo = {} /\ enabled' = deployed
      /\ Failed' = Failed /\ errors' \subseteq errors /\ lost' \subseteq lost \union errors
      /\ faults' \in {faults, faults + 1}
      /\ UNCHANGED <<booted, todo, tmpf, status, deployed, verity, feature, lockfile, boots, failures>>
  BY DEF CfsDone, CountFails, Fault, Goto, boot, record, Failed
<1>2. TypeOK'
  BY <1>1 DEF IInv, TypeOK, PCs
<1>3. ObjectsOnDisk' = ObjectsOnDisk /\ CfsOf(deployed)' = CfsOf(deployed)
  BY <1>1 DEF ObjectsOnDisk, CfsOf
<1>4. DiskInv'
  BY <1>1, <1>3 DEF PCs, IInv, DiskInv
<1>5. (ErrorsInv /\ ObjectsInv /\ CfsInv /\ UnlockInv /\ EnabledInv)'
  BY <1>1, <1>3 DEF IInv, ErrorsInv, ObjectsInv, CfsInv, UnlockInv, EnabledInv
<1>6. MarksInv'
  BY <1>1, FilesStay
<1>7. SealedInv'
  BY <1>1 DEF SealedInv, Succeeded
<1> QED BY <1>2, <1>4, <1>5, <1>6, <1>7 DEF IInv

\* The lock file goes; without errors everything is sealed, and stays so.
LEMMA UnlockStep ==
  ASSUME IInv, Unlock, device' = device
  PROVE  IInv'
<1>1. /\ pc = "unlock" /\ pc' = "up" /\ lockfile' = FALSE
      /\ status' = IF errors = {} THEN 0 ELSE 1
      /\ UNCHANGED <<booted, todo, errors, tmpf, lost, deployed, verity, feature, boots, faults, enabled, failures>>
  BY DEF Unlock, Return, history, record
<1>2. TypeOK'
  BY <1>1 DEF IInv, TypeOK, PCs
<1>3. ObjectsOnDisk' = ObjectsOnDisk /\ CfsOf(deployed)' = CfsOf(deployed)
  BY <1>1 DEF ObjectsOnDisk, CfsOf
<1>4. DiskInv'
  BY <1>1, <1>3 DEF PCs, IInv, DiskInv
<1>5. ASSUME errors = {}
      PROVE  \A d \in deployed :
               /\ FilesOf(d) \subseteq verity \union lost
               /\ failures = {} => FilesOf(d) \subseteq verity /\ Objects[d] \subseteq verity
  <2>1. ObjectsOnDisk \union CfsOf(deployed) \subseteq verity \union lost
    BY <1>1, <1>5 DEF IInv, UnlockInv, Failed
  <2>2. ASSUME NEW d \in deployed
        PROVE  FilesOf(d) \subseteq ObjectsOnDisk \union CfsOf(deployed) /\ Objects[d] \subseteq FilesOf(d)
    BY DiskFiles DEF IInv, FilesOf
  <2>3. failures = {} => lost = {}
    BY DEF IInv, ErrorsInv, Failed
  <2> QED BY <2>1, <2>2, <2>3
<1>11. failures = {} => errors = {} /\ lost = {}
  BY DEF IInv, ErrorsInv, Failed
<1>6. \A d \in Deployments : FilesOf(d)' = FilesOf(d)
  BY <1>1 DEF FilesOf, CfsOf
<1>7. (ErrorsInv /\ ObjectsInv /\ CfsInv /\ UnlockInv)'
  BY <1>1 DEF IInv, ErrorsInv, Failed, ObjectsInv, CfsInv, UnlockInv
<1>8. EnabledInv'
  <2>1. enabled \subseteq deployed /\ deployed \subseteq Deployments
    BY DEF IInv, TypeOK, EnabledInv
  <2>2. status' = 0 => \A d \in enabled : FilesOf(d)' \subseteq verity' \union lost'
    BY <1>1, <1>5, <1>6, <2>1
  <2> QED BY <1>1, <2>1, <2>2 DEF EnabledInv
<1>9. MarksInv'
  <2>1. ASSUME failures = {} PROVE errors = {}
    BY <1>11, <2>1
  <2>2. ASSUME failures = {} PROVE CfsMarks' /\ ReleaseMarks'
    <3>1. \A d \in deployed : Objects[d] \subseteq verity
      BY <2>1, <2>2, <1>5
    <3> QED BY <1>1, <3>1 DEF CfsMarks, ReleaseMarks
  <2>3. ASSUME failures = {} PROVE RepoSealed'
    BY <2>3, <1>1, <1>3 DEF IInv, MarksInv, RepoSealed, SealedByCfs
  <2> QED BY <2>2, <2>3, <1>1 DEF MarksInv
<1>10. SealedInv'
  <2>1. booted \in deployed /\ booted \in Deployments
    BY <1>1 DEF IInv, DiskInv, TypeOK
  <2>2. failures = {} => FilesOf(booted) \subseteq verity
    BY <1>5, <1>11, <2>1
  <2>3. FilesOf(booted)' = FilesOf(booted)
    BY <1>1 DEF FilesOf, CfsOf
  <2> QED BY <1>1, <2>2, <2>3 DEF SealedInv, Succeeded
<1> QED BY <1>2, <1>4, <1>7, <1>8, <1>9, <1>10 DEF IInv

-----------------------------------------------------------------------------
(* Updates.                                                                *)

\* What an update seals: nothing, or what it adds, on a file system with the feature.
Added(d) == IF device.UpdateSeals /\ feature THEN (Objects[d] \ ObjectsOnDisk) \union CfsOf({d}) ELSE {}

LEMMA UpdateEffect ==
  ASSUME IInv, NEW d \in Deployments, NEW gone \in SUBSET (deployed \ {booted}), Update(d, gone),
         device' = device
  PROVE  /\ pc = "up" /\ booted \in deployed /\ booted \in Deployments /\ d \notin deployed
         /\ device.Mode[booted] = "signed" => CfsFile[booted] \in verity
         /\ deployed' = (deployed \ gone) \union {d} /\ deployed' \subseteq Deployments
         /\ booted \in deployed' /\ enabled' = enabled \ gone
         /\ verity' = (verity \union Added(d)) \intersect (ObjectsOnDisk' \union CfsOf(deployed)')
         /\ UNCHANGED <<device, feature, lockfile, pc, booted, todo, errors, tmpf, lost, status, boots, faults,
                       failures>>
<1>1. CfsOf(deployed)' = CfsOf(deployed')
  BY DEF CfsOf
<1>2. pc = "up" /\ booted # NoDeployment /\ booted \in deployed
  BY DEF Update, Running, IInv, DiskInv
<1> QED BY <1>1, <1>2 DEF Update, Running, Added, boot, record, IInv, TypeOK

\* The deployments that stay keep their files and what is sealed of them.
LEMMA UpdateKeeps ==
  ASSUME IInv, NEW d \in Deployments, NEW gone \in SUBSET (deployed \ {booted}), Update(d, gone),
         device' = device
  PROVE  \A e \in deployed \ gone :
           /\ FilesOf(e)' = FilesOf(e)
           /\ \A f \in FilesOf(e) : f \in verity => f \in verity'
           /\ CfsFile[e] \in verity' => CfsFile[e] \in verity
           /\ OsRelease[e] \in verity' /\ ~device.UpdateSeals => OsRelease[e] \in verity
<1> SUFFICES ASSUME NEW e \in deployed \ gone
             PROVE  /\ FilesOf(e)' = FilesOf(e)
                    /\ \A f \in FilesOf(e) : f \in verity => f \in verity'
                    /\ CfsFile[e] \in verity' => CfsFile[e] \in verity
                    /\ OsRelease[e] \in verity' /\ ~device.UpdateSeals => OsRelease[e] \in verity
  OBVIOUS
<1>1. e \in Deployments /\ e \in deployed' /\ e # d
  BY UpdateEffect DEF IInv, TypeOK
<1>2. FilesOf(e)' = FilesOf(e)
  BY DEF FilesOf, CfsOf
<1>3. FilesOf(e) \subseteq ObjectsOnDisk' \union CfsOf(deployed)'
  BY <1>1 DEF FilesOf, CfsOf, ObjectsOnDisk
<1>4. \A f \in FilesOf(e) : f \in verity => f \in verity'
  BY <1>3, UpdateEffect
<1>5. CfsFile[e] \notin Added(d)
  <2>1. CfsFile[e] \notin Objects[d]
    BY <1>1, FilesAssumption DEF AllObjects, CfsFiles
  <2>2. CfsFile[e] \notin CfsOf({d})
    BY <1>1, FilesAssumption DEF CfsOf
  <2> QED BY <2>1, <2>2 DEF Added
<1>6. ~device.UpdateSeals => Added(d) = {}
  BY DEF Added
<1> QED BY <1>2, <1>4, <1>5, <1>6, UpdateEffect

LEMMA UpdateStep ==
  ASSUME IInv, NEW d \in Deployments, NEW gone \in SUBSET (deployed \ {booted}), Update(d, gone),
         device' = device
  PROVE  IInv'
<1>1. TypeOK /\ DiskInv /\ d \notin deployed /\ failures' = failures /\ lockfile' = lockfile
  BY UpdateEffect DEF IInv
<1>2. Added(d) \subseteq Files /\ (Added(d) # {} => feature)
  BY DEF Added, Files, AllObjects, CfsFiles, CfsOf
<1>3. TypeOK'
  BY <1>1, <1>2, UpdateEffect DEF TypeOK
<1>4. DiskInv'
  BY <1>1, <1>2, UpdateEffect DEF DiskInv, PCs
<1>5. (ErrorsInv /\ ObjectsInv /\ CfsInv /\ UnlockInv)'
  BY UpdateEffect DEF IInv, ErrorsInv, Failed, ObjectsInv, CfsInv, UnlockInv
<1>6. EnabledInv'
  BY UpdateEffect, UpdateKeeps DEF IInv, EnabledInv
<1>7. SealedInv'
  BY UpdateEffect, UpdateKeeps DEF IInv, SealedInv, Succeeded
<1>8. CfsFile[d] \notin verity /\ (OwnOsRelease => OsRelease[d] \notin verity)
  <2>1. CfsFile[d] \notin verity
    BY <1>1, DiskFiles DEF DiskInv
  <2>2. OwnOsRelease => OsRelease[d] \notin ObjectsOnDisk
    BY <1>1 DEF OwnOsRelease, ObjectsOnDisk, TypeOK
  <2>3. OsRelease[d] \notin CfsOf(deployed)
    BY <1>1, DiskFiles
  <2> QED BY <2>1, <2>2, <2>3, <1>1 DEF DiskInv
<1>9. ASSUME failures = {} PROVE ReleaseMarks'
  <2> SUFFICES ASSUME OwnOsRelease, device.Upgrade, ~device.UpdateSeals, ~lockfile,
                      NEW e \in deployed', OsRelease[e] \in verity'
               PROVE  Objects[e]' \subseteq verity'
    BY <1>1 DEF ReleaseMarks
  <2>1. OsRelease[d] \notin verity'
    BY <1>8, UpdateEffect DEF Added
  <2>2. e \in deployed \ gone
    BY <2>1, UpdateEffect
  <2>3. Objects[e] \subseteq verity
    BY <2>2, <1>9, UpdateKeeps DEF ReleaseMarks, IInv, MarksInv
  <2> QED BY <2>2, <2>3, UpdateKeeps DEF FilesOf
<1>10. ASSUME failures = {}, SealedByCfs(device), device.UpdateSeals
       PROVE  ObjectsOnDisk' \subseteq verity'
  <2>1. CfsFile[booted] \in verity /\ feature
    BY <1>1, <1>10, UpdateEffect DEF SealedByCfs, DiskInv
  <2>2. ObjectsOnDisk \subseteq verity
    BY <2>1, <1>10, UpdateEffect DEF IInv, MarksInv, RepoSealed
  <2>3. ObjectsOnDisk' \subseteq ObjectsOnDisk \union Objects[d]
    BY UpdateEffect DEF ObjectsOnDisk
  <2>4. Objects[d] \ ObjectsOnDisk \subseteq Added(d)
    BY <2>1, <1>10 DEF Added
  <2> QED BY <2>2, <2>3, <2>4, UpdateEffect
<1>11. ASSUME failures = {} PROVE RepoSealed'
  BY <1>10, <1>11, UpdateEffect DEF RepoSealed, SealedByCfs
<1>12. ASSUME failures = {} PROVE CfsMarks'
  <2> SUFFICES ASSUME SealedByCfs(device), ~lockfile, NEW e \in deployed', CfsFile[e] \in verity'
               PROVE  Objects[e]' \subseteq verity'
    BY <1>1 DEF CfsMarks, SealedByCfs
  <2>1. CASE device.UpdateSeals
    BY <2>1, <1>10, <1>12 DEF ObjectsOnDisk
  <2>2. CASE ~device.UpdateSeals
    <3>1. CfsFile[d] \notin verity'
      BY <2>2, <1>8, UpdateEffect DEF Added
    <3>2. e \in deployed \ gone
      BY <3>1, UpdateEffect
    <3>3. Objects[e] \subseteq verity
      BY <3>2, <1>12, UpdateKeeps DEF CfsMarks, IInv, MarksInv
    <3> QED BY <3>2, <3>3, UpdateKeeps DEF FilesOf
  <2> QED BY <2>1, <2>2
<1>13. MarksInv'
  BY <1>1, <1>9, <1>11, <1>12 DEF MarksInv
<1> QED BY <1>3, <1>4, <1>5, <1>6, <1>7, <1>13 DEF IInv

-----------------------------------------------------------------------------
(* Theorems of the specification.                                          *)

LEMMA NextIInv == IInv /\ [Next]_vars => IInv'
<1> SUFFICES ASSUME IInv, [Next]_vars PROVE IInv'
  OBVIOUS
<1>1. CASE UNCHANGED vars
  <2>1. (TypeOK /\ ErrorsInv)' /\ SealedInv' /\ MarksInv'
    BY <1>1, FilesStay DEF vars, IInv, TypeOK, ErrorsInv, Failed, SealedInv, Succeeded, FilesOf, CfsOf
  <2>2. DiskInv' /\ ObjectsInv' /\ CfsInv' /\ UnlockInv' /\ EnabledInv'
    BY <1>1 DEF vars, IInv, DiskInv, ObjectsInv, CfsInv, UnlockInv, EnabledInv, Failed, FilesOf, CfsOf,
                ObjectsOnDisk
  <2> QED BY <2>1, <2>2 DEF IInv
<1>2. CASE Next
  <2>0. device' = device
    BY <1>2 DEF Next
  <2>1. CASE ReadConfig
    BY <2>0, <2>1, ReadConfigStep
  <2>2. CASE EnableFeature
    BY <2>0, <2>2, EnableFeatureStep
  <2>3. CASE FeatureFails \/ TouchFails
    BY <2>0, <2>3, FailureStep
  <2>4. CASE Decide
    BY <2>0, <2>4, DecideStep
  <2>5. CASE TouchLock
    BY <2>0, <2>5, TouchLockStep
  <2>6. CASE ObjectsDone
    BY <2>0, <2>6, ObjectsDoneStep
  <2>7. CASE CfsDone \/ CountFails
    BY <2>0, <2>7, CfsDoneStep
  <2>13. CASE MakeRecord \/ FindObjects
    BY <2>0, <2>13, PrepareStep
  <2>14. CASE FindFails
    BY <2>0, <2>14, FindFailsStep
  <2>8. CASE Unlock
    BY <2>0, <2>8, UnlockStep
  <2>9. CASE PowerOff
    BY <2>0, <2>9, PowerOffStep
  <2>10. CASE \E d \in deployed \union {NoDeployment} : Boot(d)
    BY <2>0, <2>10, BootStep
  <2>11. CASE \E d \in Deployments, gone \in SUBSET (deployed \ {booted}) : Update(d, gone)
    BY <2>0, <2>11, UpdateStep
  <2>12. CASE \E f \in Files : EnableFile(f) \/ FileFails(f)
    BY <2>0, <2>12, EnableFileStep, FileFailsStep
  <2> QED
    BY <1>2, <2>1, <2>2, <2>3, <2>4, <2>5, <2>6, <2>7, <2>8, <2>9, <2>10, <2>11, <2>12, <2>13, <2>14
    DEF Next
<1> QED BY <1>1, <1>2

THEOREM Invariant == Spec => []IInv
BY InitIInv, NextIInv, PTL DEF Spec

\* The types of the variables, and that files are enabled under the lock file only.
THEOREM TypeCorrect == Spec => []TypeOK
<1>1. IInv => TypeOK
  BY DEF IInv
<1> QED BY <1>1, Invariant, PTL

\* For any kind of device: a boot in mode signed that went through the enabling and returned 0 left
\* no file of a deployment on disk without verity, not even after updates of the running system, but
\* those whose error was not recorded or counted, and those that find did not list.
THEOREM Reported == Spec => []EnabledOrReported
<1>1. IInv => EnabledOrReported
  BY DEF IInv, EnabledInv, EnabledOrReported, Succeeded
<1> QED BY <1>1, Invariant, PTL

\* For any number of boots, wherever power fails and whatever updates come between: while enabling
\* never left a file out, a boot in mode signed that returned 0 has verity on every file of its deployment,
\* on devices whose markers Decide can trust.
THEOREM Resumed ==
  ASSUME \A v \in Devices : Sealable(v), OwnOsRelease
  PROVE  Spec => []InterruptedIsResumed
<1>1. IInv => InterruptedIsResumed
  BY DEF IInv, TypeOK, SealedInv, InterruptedIsResumed
<1> QED BY <1>1, Invariant, PTL
=============================================================================
