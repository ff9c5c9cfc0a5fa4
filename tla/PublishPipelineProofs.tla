----------------------- MODULE PublishPipelineProofs ------------------------
(***************************************************************************)
(* Theorems about PublishPipeline for every number of jobs and every       *)
(* assignment of repositories, branches and locks to them.                 *)
(***************************************************************************)
EXTENDS PublishPipeline, TLAPS

USE JobsAssumption, BoundsAssumption, AbsentAssumption

-----------------------------------------------------------------------------
(* Part 1.  The type invariant, with what the ostree tasks know.            *)

\* Which task a job is in at each command.
TaskInv ==
  \A j \in Jobs :
    /\ pc[j] \in {"idle", "commit_wait"} \union CommitPCs => task[j] = "ostreecommit"
    /\ pc[j] \in {"push_wait", "push"} => task[j] = "ostreepush"
    /\ pc[j] \in {"sign_wait"} \union SignPCs => task[j] = "garagesign"
    /\ pc[j] = "check" => task[j] = "garagecheck"
    /\ pc[j] = "done" => task[j] = "garagecheck" \/ Creds[j] = "unset"

\* The archive repository is used under its lock; a job that has committed names, in its
\* manifest, a commit of its own tree, and its branch has a head.
RepoInv ==
  \A j \in Jobs :
    /\ pc[j] \in CommitPCs \union {"push"} => ostreeLock[Repo[j]] = j
    /\ pc[j] = "manifest" => HeadOf(j) \in Hashes /\ treeOf[HeadOf(j)] = tree[j]
    /\ AfterCommit(j) => /\ manifest[j] \in Hashes /\ treeOf[manifest[j]] = tree[j]
                         /\ HeadOf(j) \in Hashes
    /\ ota[j] # NoTree => AfterCommit(j) /\ ota[j] = tree[j]

OstreeInv == TypeOK /\ TaskInv /\ RepoInv

\* The description garagesign publishes is a target description.
LEMMA EntryType == ASSUME NEW j \in Jobs, TypeOK PROVE Entry(j) \in Entries
BY DEF TypeOK, Entry, Entries, Versions

\* Putting a target into a set of targets gives a set of targets.
LEMMA PutType == ASSUME NEW T \in SUBSET Entries, NEW e \in Entries
                 PROVE  Registry!Put(T, e) \in SUBSET Entries
BY DEF Registry!Put

\* A put target is in, and so is every target of another name or version.
LEMMA PutHas == ASSUME NEW T, NEW e PROVE e \in Registry!Put(T, e)
BY DEF Registry!Put

LEMMA PutKeeps == ASSUME NEW T, NEW e, NEW f \in T, ~Registry!SameKey(e, f) \/ f = e
                  PROVE  f \in Registry!Put(T, e)
BY DEF Registry!Put

\* Writing one field of a signing directory leaves a signing directory.
LEMMA DirType ==
  ASSUME NEW d \in Dirs
  PROVE  /\ [d EXCEPT !.exists = TRUE] \in Dirs
         /\ \A b \in Nat, T \in SUBSET Entries :
              [d EXCEPT !.base = b, !.unsigned = T] \in Dirs
         /\ \A T \in SUBSET Entries : [d EXCEPT !.unsigned = T] \in Dirs
         /\ [d EXCEPT !.signed = d.unsigned] \in Dirs
         /\ d.base \in Nat /\ d.unsigned \in SUBSET Entries /\ d.signed \in SUBSET Entries
BY DEF Dirs

LEMMA NoDirType == NoDir \in Dirs
BY DEF NoDir, Dirs

\* What a lost push leaves behind is a request.
LEMMA RequestType ==
  ASSUME NEW b \in Nat, NEW T \in SUBSET Entries, NEW e \in Entries
  PROVE  [base |-> b, entry |-> e, targets |-> T] \in Requests
BY DEF Requests

\* The head of a job's branch is a commit or absent.
LEMMA HeadType == ASSUME TypeOK, NEW j \in Jobs
                  PROVE  <<Repo[j], Branch[j]>> \in Repos \X Branches
                         /\ HeadOf(j) \in Hashes \union {NoHash}
BY DEF TypeOK, HeadOf, Repos, Branches

LEMMA TypeStep == OstreeInv /\ [Next]_vars => TypeOK'
<1> SUFFICES ASSUME OstreeInv, [Next]_vars PROVE TypeOK'
  OBVIOUS
<1> USE DEF TypeOK, Goto, Enter, ostreeVars, signVars, bounds, PCs, Resting, Tasks, CommitPCs,
            SignPCs, LoopPCs, OstreeInv
<1>1. CASE UNCHANGED vars
  BY <1>1 DEF vars
<1>2. CASE Deliver
  <2>1. PICK r \in inflight : /\ inflight' = inflight \ {r}
                              /\ IF Accepts(r.base) THEN Store(r.targets) ELSE UNCHANGED registry
    BY <1>2 DEF Deliver
  <2>2. r.targets \in SUBSET Entries
    BY DEF Requests
  <2>3. registry' \in [version : Nat, targets : SUBSET Entries]
    BY <2>1, <2>2 DEF Store, Accepts
  <2> QED
    BY <1>2, <2>1, <2>3 DEF Deliver
<1>3. ASSUME NEW j \in Jobs, StartBuild(j) PROVE TypeOK'
  BY <1>3 DEF StartBuild
<1>4. ASSUME NEW j \in Jobs, Resume(j) PROVE TypeOK'
  BY <1>4 DEF Resume, FirstOf
<1>5. ASSUME NEW j \in Jobs, BuildOta(j) PROVE TypeOK'
  BY <1>5 DEF BuildOta, OtaHash, RepoInv
<1>6. ASSUME NEW j \in Jobs, PushLost(j) PROVE TypeOK'
  <2>1. signDir[SignRepo[j]].base \in Nat /\ signDir[SignRepo[j]].signed \in SUBSET Entries
    BY DirType DEF SignRepos
  <2>2. [base |-> signDir[SignRepo[j]].base, entry |-> Entry(j),
         targets |-> signDir[SignRepo[j]].signed] \in Requests
    BY <2>1, EntryType, RequestType
  <2>3. inflight' \subseteq Requests
    BY <1>6, <2>2 DEF PushLost
  <2> QED
    BY <1>6, <2>3 DEF PushLost, PushFails, AfterFailure
<1>7. ASSUME NEW j \in Jobs, Stop(j) PROVE TypeOK'
  BY <1>7 DEF Stop, Abandon
<1>8. ASSUME NEW j \in Jobs, Step(j) PROVE TypeOK'
  <2> DEFINE dir == signDir[SignRepo[j]]
  <2>0. SignRepo[j] \in SignRepos /\ dir \in Dirs
    BY DEF SignRepos
  <2>1. CASE LockRepo(j)
    BY <2>1 DEF LockRepo
  <2>2. CASE Commit(j)
    <3>1. CASE Unchanged(j) /\ UNCHANGED <<treeOf, head>>
      BY <2>2, <3>1 DEF Commit
    <3>2. ASSUME NEW h \in Hashes,
                 treeOf' = [treeOf EXCEPT ![h] = tree[j]],
                 head' = [head EXCEPT ![<<Repo[j], Branch[j]>>] = h]
          PROVE  treeOf' \in [Hashes -> Trees \union {NoTree}]
                 /\ head' \in [Repos \X Branches -> Hashes \union {NoHash}]
      BY <3>2, HeadType
    <3> QED
      BY <2>2, <3>1, <3>2 DEF Commit
  <2>3. CASE WriteManifest(j)
    BY <2>3, HeadType DEF WriteManifest
  <2>4. CASE GaragePush(j)
    <3>1. HeadOf(j) \in Hashes
      BY <2>4 DEF GaragePush, TaskInv, RepoInv, AfterCommit
    <3> QED
      BY <2>4, <3>1 DEF GaragePush
  <2>5. CASE LockSign(j)
    BY <2>5 DEF LockSign
  <2>6. CASE SkipSign(j)
    BY <2>6 DEF SkipSign
  <2>7. CASE RemoveDir(j)
    BY <2>7, NoDirType DEF RemoveDir
  <2>8. CASE InitDir(j)
    <3>1. signDir' = [signDir EXCEPT ![SignRepo[j]] = [dir EXCEPT !.exists = TRUE]]
      BY <2>8 DEF InitDir
    <3>2. signDir' \in [SignRepos -> Dirs]
      BY <2>0, <3>1, DirType
    <3> QED
      BY <2>8, <3>2 DEF InitDir
  <2>9. CASE RejectExpiry(j)
    <3>1. signDir' = [signDir EXCEPT ![SignRepo[j]] = [dir EXCEPT !.exists = TRUE]]
      BY <2>9 DEF RejectExpiry
    <3>2. signDir' \in [SignRepos -> Dirs]
      BY <2>0, <3>1, DirType
    <3> QED
      BY <2>9, <3>2 DEF RejectExpiry, Abandon
  <2>10. CASE Pull(j)
    <3>1. signDir' = [signDir EXCEPT ![SignRepo[j]] =
                        [dir EXCEPT !.base = registry.version, !.unsigned = registry.targets]]
      BY <2>10 DEF Pull
    <3>2. signDir' \in [SignRepos -> Dirs]
      BY <2>0, <3>1, DirType
    <3> QED
      BY <2>10, <3>2 DEF Pull
  <2>11. CASE Add(j)
    <3>1. signDir' = [signDir EXCEPT ![SignRepo[j]] =
                        [dir EXCEPT !.unsigned = Registry!Put(dir.unsigned, Entry(j))]]
      BY <2>11 DEF Add
    <3>2. Registry!Put(dir.unsigned, Entry(j)) \in SUBSET Entries
      BY <2>0, DirType, EntryType, PutType
    <3>3. signDir' \in [SignRepos -> Dirs]
      BY <2>0, <3>1, <3>2, DirType
    <3> QED
      BY <2>11, <3>3 DEF Add
  <2>12. CASE Sign(j)
    <3>1. signDir' = [signDir EXCEPT ![SignRepo[j]] = [dir EXCEPT !.signed = dir.unsigned]]
      BY <2>12 DEF Sign
    <3>2. signDir' \in [SignRepos -> Dirs]
      BY <2>0, <3>1, DirType
    <3> QED
      BY <2>12, <3>2 DEF Sign
  <2>13. CASE PushAccepted(j)
    <3>1. dir.signed \in SUBSET Entries
      BY <2>0, DirType
    <3> QED
      BY <2>13, <3>1 DEF PushAccepted, Store
  <2>14. CASE PushRefused(j)
    BY <2>14 DEF PushRefused, PushFails, AfterFailure
  <2>15. CASE Cleanup(j)
    BY <2>15, NoDirType DEF Cleanup
  <2>16. CASE Check(j)
    BY <2>16 DEF Check
  <2> QED
    BY <1>8, <2>1, <2>2, <2>3, <2>4, <2>5, <2>6, <2>7, <2>8, <2>9, <2>10, <2>11, <2>12,
       <2>13, <2>14, <2>15, <2>16 DEF Step
<1> QED
  BY <1>1, <1>2, <1>3, <1>4, <1>5, <1>6, <1>7, <1>8 DEF Next

LEMMA TaskStep == OstreeInv /\ [Next]_vars => TaskInv'
<1> SUFFICES ASSUME OstreeInv, [Next]_vars PROVE TaskInv'
  OBVIOUS
<1> USE DEF OstreeInv, TypeOK, TaskInv, Goto, Enter, PCs, CommitPCs, SignPCs, LoopPCs, Resting, Tasks
<1>1. CASE UNCHANGED vars
  BY <1>1 DEF vars
<1>2. CASE Deliver
  BY <1>2 DEF Deliver
<1>3. ASSUME NEW j \in Jobs, StartBuild(j) PROVE TaskInv'
  BY <1>3 DEF StartBuild
<1>4. ASSUME NEW j \in Jobs, Resume(j) PROVE TaskInv'
  BY <1>4 DEF Resume, FirstOf
<1>5. ASSUME NEW j \in Jobs, BuildOta(j) PROVE TaskInv'
  BY <1>5 DEF BuildOta
<1>6. ASSUME NEW j \in Jobs, PushLost(j) PROVE TaskInv'
  BY <1>6 DEF PushLost, PushFails, AfterFailure
<1>7. ASSUME NEW j \in Jobs, Stop(j) PROVE TaskInv'
  BY <1>7 DEF Stop, Abandon
<1>8. ASSUME NEW j \in Jobs, Step(j) PROVE TaskInv'
  <2>1. CASE LockRepo(j)
    BY <2>1 DEF LockRepo
  <2>2. CASE Commit(j)
    BY <2>2 DEF Commit
  <2>3. CASE WriteManifest(j)
    BY <2>3 DEF WriteManifest
  <2>4. CASE GaragePush(j)
    BY <2>4 DEF GaragePush
  <2>5. CASE LockSign(j)
    BY <2>5 DEF LockSign
  <2>6. CASE SkipSign(j)
    BY <2>6 DEF SkipSign
  <2>7. CASE RemoveDir(j)
    BY <2>7 DEF RemoveDir
  <2>8. CASE InitDir(j)
    BY <2>8 DEF InitDir
  <2>9. CASE RejectExpiry(j)
    BY <2>9 DEF RejectExpiry, Abandon
  <2>10. CASE Pull(j)
    BY <2>10 DEF Pull
  <2>11. CASE Add(j)
    BY <2>11 DEF Add
  <2>12. CASE Sign(j)
    BY <2>12 DEF Sign
  <2>13. CASE PushAccepted(j)
    BY <2>13 DEF PushAccepted
  <2>14. CASE PushRefused(j)
    BY <2>14 DEF PushRefused, PushFails, AfterFailure
  <2>15. CASE Cleanup(j)
    BY <2>15 DEF Cleanup
  <2>16. CASE Check(j)
    BY <2>16 DEF Check
  <2> QED
    BY <1>8, <2>1, <2>2, <2>3, <2>4, <2>5, <2>6, <2>7, <2>8, <2>9, <2>10, <2>11, <2>12,
       <2>13, <2>14, <2>15, <2>16 DEF Step
<1> QED
  BY <1>1, <1>2, <1>3, <1>4, <1>5, <1>6, <1>7, <1>8 DEF Next

LEMMA RepoStep == OstreeInv /\ [Next]_vars => RepoInv'
<1> SUFFICES ASSUME OstreeInv, [Next]_vars PROVE RepoInv'
  OBVIOUS
<1> USE DEF OstreeInv, TypeOK, TaskInv, RepoInv, Goto, Enter, PCs, CommitPCs, SignPCs, LoopPCs,
            Resting, Tasks, ostreeVars, AfterCommit, HeadOf
<1>1. CASE UNCHANGED vars
  BY <1>1 DEF vars
<1>2. CASE Deliver
  BY <1>2 DEF Deliver
<1>3. ASSUME NEW j \in Jobs, StartBuild(j) PROVE RepoInv'
  BY <1>3 DEF StartBuild
<1>4. ASSUME NEW j \in Jobs, Resume(j) PROVE RepoInv'
  BY <1>4 DEF Resume, FirstOf
<1>5. ASSUME NEW j \in Jobs, BuildOta(j) PROVE RepoInv'
  BY <1>5 DEF BuildOta, OtaHash
<1>6. ASSUME NEW j \in Jobs, PushLost(j) PROVE RepoInv'
  BY <1>6 DEF PushLost, PushFails, AfterFailure
<1>7. ASSUME NEW j \in Jobs, Stop(j) PROVE RepoInv'
  BY <1>7 DEF Stop, Abandon
<1>8. ASSUME NEW j \in Jobs, Step(j) PROVE RepoInv'
  <2>1. CASE LockRepo(j)
    BY <2>1 DEF LockRepo
  <2>2. CASE Commit(j)
    <3>1. ASSUME NEW i \in Jobs, i # j, Repo[i] = Repo[j]
          PROVE  pc[i] \notin CommitPCs \union {"push"}
      BY <2>2, <3>1 DEF Commit
    <3>2. CASE Unchanged(j) /\ UNCHANGED <<treeOf, head>>
      <4>1. HeadOf(j) \in Hashes \union {NoHash}
        BY HeadType
      <4>2. HeadOf(j) # NoHash /\ treeOf[HeadOf(j)] = tree[j]
        BY <3>2 DEF Unchanged
      <4> QED
        BY <2>2, <3>2, <4>1, <4>2 DEF Commit
    <3>3. ASSUME NEW h \in Hashes, treeOf[h] = NoTree,
                 treeOf' = [treeOf EXCEPT ![h] = tree[j]],
                 head' = [head EXCEPT ![<<Repo[j], Branch[j]>>] = h]
          PROVE  RepoInv'
      <4> SUFFICES ASSUME NEW i \in Jobs PROVE RepoInv!(i)'
        OBVIOUS
      <4> QED
        BY <2>2, <3>1, <3>3, HeadType DEF Commit
    <3> QED
      BY <2>2, <3>2, <3>3 DEF Commit
  <2>3. CASE WriteManifest(j)
    BY <2>3 DEF WriteManifest
  <2>4. CASE GaragePush(j)
    BY <2>4 DEF GaragePush
  <2>5. CASE LockSign(j)
    BY <2>5 DEF LockSign
  <2>6. CASE SkipSign(j)
    BY <2>6 DEF SkipSign
  <2>7. CASE RemoveDir(j)
    BY <2>7 DEF RemoveDir
  <2>8. CASE InitDir(j)
    BY <2>8 DEF InitDir
  <2>9. CASE RejectExpiry(j)
    BY <2>9 DEF RejectExpiry, Abandon
  <2>10. CASE Pull(j)
    BY <2>10 DEF Pull
  <2>11. CASE Add(j)
    BY <2>11 DEF Add
  <2>12. CASE Sign(j)
    BY <2>12 DEF Sign
  <2>13. CASE PushAccepted(j)
    BY <2>13 DEF PushAccepted
  <2>14. CASE PushRefused(j)
    BY <2>14 DEF PushRefused, PushFails, AfterFailure
  <2>15. CASE Cleanup(j)
    BY <2>15 DEF Cleanup
  <2>16. CASE Check(j)
    BY <2>16 DEF Check
  <2> QED
    BY <1>8, <2>1, <2>2, <2>3, <2>4, <2>5, <2>6, <2>7, <2>8, <2>9, <2>10, <2>11, <2>12,
       <2>13, <2>14, <2>15, <2>16 DEF Step
<1> QED
  BY <1>1, <1>2, <1>3, <1>4, <1>5, <1>6, <1>7, <1>8 DEF Next

LEMMA OstreeInit == Init => OstreeInv
BY DEF Init, OstreeInv, TypeOK, TaskInv, RepoInv, NoDir, Dirs, PCs, Resting, Tasks, CommitPCs,
       SignPCs, LoopPCs, AfterCommit

LEMMA OstreeStep == OstreeInv /\ [Next]_vars => OstreeInv'
BY TypeStep, TaskStep, RepoStep DEF OstreeInv

\* The tasks on the archive repository keep its invariant.
THEOREM OstreeInvariant == Spec => []OstreeInv
BY OstreeInit, OstreeStep, PTL DEF Spec

\* The type invariant: every variable keeps its type through every task.
THEOREM TypeCorrect == Spec => []TypeOK
BY OstreeInvariant, PTL DEF OstreeInv

\* The ota image deploys the tree of its own job, whoever else commits to the repository.
THEOREM OtaDeploysOwnTree == Spec => []OtaIsOwnTree
<1>1. OstreeInv => OtaIsOwnTree
  BY DEF OstreeInv, RepoInv, OtaIsOwnTree
<1> QED
  BY <1>1, OstreeInvariant, PTL

LEMMA HolderStep == OstreeInv /\ HoldersWork /\ [Next]_vars => HoldersWork'
<1> SUFFICES ASSUME OstreeInv, HoldersWork, [Next]_vars PROVE HoldersWork'
  OBVIOUS
<1> USE DEF OstreeInv, TypeOK, HoldersWork, Goto, SignPCs, LoopPCs, CommitPCs, Resting, PCs, signVars,
            ostreeVars, Tasks
<1>1. CASE UNCHANGED vars
  BY <1>1 DEF vars
<1>2. CASE Deliver
  BY <1>2 DEF Deliver
<1>3. ASSUME NEW j \in Jobs, StartBuild(j) PROVE HoldersWork'
  BY <1>3 DEF StartBuild
<1>4. ASSUME NEW j \in Jobs, Resume(j) PROVE HoldersWork'
  BY <1>4 DEF Resume, FirstOf
<1>5. ASSUME NEW j \in Jobs, BuildOta(j) PROVE HoldersWork'
  BY <1>5 DEF BuildOta
<1>6. ASSUME NEW j \in Jobs, PushLost(j) PROVE HoldersWork'
  BY <1>6 DEF PushLost, PushFails, AfterFailure
<1>7. ASSUME NEW j \in Jobs, Stop(j) PROVE HoldersWork'
  BY <1>7 DEF Stop, Abandon
<1>8. ASSUME NEW j \in Jobs, Step(j) PROVE HoldersWork'
  <2>1. CASE LockRepo(j)
    BY <2>1 DEF LockRepo
  <2>2. CASE Commit(j)
    BY <2>2 DEF Commit
  <2>3. CASE WriteManifest(j)
    BY <2>3 DEF WriteManifest
  <2>4. CASE GaragePush(j)
    BY <2>4 DEF GaragePush
  <2>5. CASE LockSign(j)
    BY <2>5 DEF LockSign
  <2>6. CASE SkipSign(j)
    BY <2>6 DEF SkipSign
  <2>7. CASE RemoveDir(j)
    BY <2>7 DEF RemoveDir
  <2>8. CASE InitDir(j)
    BY <2>8 DEF InitDir
  <2>9. CASE RejectExpiry(j)
    BY <2>9 DEF RejectExpiry, Abandon
  <2>10. CASE Pull(j)
    BY <2>10 DEF Pull
  <2>11. CASE Add(j)
    BY <2>11 DEF Add
  <2>12. CASE Sign(j)
    BY <2>12 DEF Sign
  <2>13. CASE PushAccepted(j)
    BY <2>13 DEF PushAccepted
  <2>14. CASE PushRefused(j)
    BY <2>14 DEF PushRefused, PushFails, AfterFailure
  <2>15. CASE Cleanup(j)
    BY <2>15 DEF Cleanup
  <2>16. CASE Check(j)
    BY <2>16 DEF Check
  <2> QED
    BY <1>8, <2>1, <2>2, <2>3, <2>4, <2>5, <2>6, <2>7, <2>8, <2>9, <2>10, <2>11, <2>12,
       <2>13, <2>14, <2>15, <2>16 DEF Step
<1> QED
  BY <1>1, <1>2, <1>3, <1>4, <1>5, <1>6, <1>7, <1>8 DEF Next

\* A task that waits for a lock, or is dead, holds none, for any number of images and build
\* directories: the locks of ostree_commit and garagesign are never nested.
THEOREM LocksAreNotNested == Spec => []HoldersWork
<1>1. Init => HoldersWork
  BY AbsentAssumption DEF Init, HoldersWork
<1> QED
  BY <1>1, OstreeInvariant, HolderStep, PTL DEF Spec

-----------------------------------------------------------------------------
(* Part 2.  The signing directory and the backend.                         *)

\* A job in the signing section holds its lock.
SignLockInv == \A j \in Jobs : pc[j] \in SignPCs => signLock[SignLock[j]] = j

\* What the job that holds the directory knows of it.  If no role was stored since the pull,
\* the copy is the backend's role, then the backend's role with the job's target put in.
SignDirOf(j) ==
  LET d == signDir[SignRepo[j]]
      role == registry.targets
      fresh == d.base = registry.version
  IN  /\ pc[j] \in LoopPCs => d.exists
      /\ pc[j] \in {"add", "sign", "push_targets"} => d.base <= registry.version
      /\ pc[j] = "add" /\ fresh => d.unsigned = role
      /\ pc[j] = "sign" => Entry(j) \in d.unsigned
      /\ pc[j] = "sign" /\ fresh => d.unsigned = Registry!Put(role, Entry(j))
      /\ pc[j] = "push_targets" => Entry(j) \in d.signed
      /\ pc[j] = "push_targets" /\ fresh => d.signed = Registry!Put(role, Entry(j))

SignDirInv == \A j \in Jobs : SignDirOf(j)

\* A late push that the backend would still take is a put of one target.
RequestInv ==
  \A r \in inflight :
    /\ r.base <= registry.version
    /\ r.base = registry.version => r.targets = Registry!Put(registry.targets, r.entry)

SignInv == SignLockInv /\ SignDirInv /\ RequestInv

\* Two jobs in the signing section work in different directories.
LEMMA Exclusive ==
  ASSUME SignLockInv, NEW i \in Jobs, NEW j \in Jobs, i # j, pc[i] \in SignPCs, pc[j] \in SignPCs
  PROVE  SignRepo[i] # SignRepo[j]
BY SignLockAssumption DEF SignLockInv

LEMMA SignLockStep == OstreeInv /\ SignLockInv /\ [Next]_vars => SignLockInv'
<1> SUFFICES ASSUME OstreeInv, SignLockInv, [Next]_vars PROVE SignLockInv'
  OBVIOUS
<1> USE DEF OstreeInv, TypeOK, SignLockInv, Goto, SignPCs, LoopPCs, CommitPCs, Resting, PCs, signVars,
            Tasks
<1>1. CASE UNCHANGED vars
  BY <1>1 DEF vars
<1>2. CASE Deliver
  BY <1>2 DEF Deliver
<1>3. ASSUME NEW j \in Jobs, StartBuild(j) PROVE SignLockInv'
  BY <1>3 DEF StartBuild
<1>4. ASSUME NEW j \in Jobs, Resume(j) PROVE SignLockInv'
  BY <1>4 DEF Resume, FirstOf
<1>5. ASSUME NEW j \in Jobs, BuildOta(j) PROVE SignLockInv'
  BY <1>5 DEF BuildOta
<1>6. ASSUME NEW j \in Jobs, PushLost(j) PROVE SignLockInv'
  BY <1>6 DEF PushLost, PushFails, AfterFailure
<1>7. ASSUME NEW j \in Jobs, Stop(j) PROVE SignLockInv'
  BY <1>7 DEF Stop, Abandon
<1>8. ASSUME NEW j \in Jobs, Step(j) PROVE SignLockInv'
  <2>1. CASE LockRepo(j)
    BY <2>1 DEF LockRepo
  <2>2. CASE Commit(j)
    BY <2>2 DEF Commit
  <2>3. CASE WriteManifest(j)
    BY <2>3 DEF WriteManifest
  <2>4. CASE GaragePush(j)
    BY <2>4 DEF GaragePush
  <2>5. CASE LockSign(j)
    BY <2>5 DEF LockSign
  <2>6. CASE SkipSign(j)
    BY <2>6 DEF SkipSign
  <2>7. CASE RemoveDir(j)
    BY <2>7 DEF RemoveDir
  <2>8. CASE InitDir(j)
    BY <2>8 DEF InitDir
  <2>9. CASE RejectExpiry(j)
    BY <2>9 DEF RejectExpiry, Abandon
  <2>10. CASE Pull(j)
    BY <2>10 DEF Pull
  <2>11. CASE Add(j)
    BY <2>11 DEF Add
  <2>12. CASE Sign(j)
    BY <2>12 DEF Sign
  <2>13. CASE PushAccepted(j)
    BY <2>13 DEF PushAccepted
  <2>14. CASE PushRefused(j)
    BY <2>14 DEF PushRefused, PushFails, AfterFailure
  <2>15. CASE Cleanup(j)
    BY <2>15 DEF Cleanup
  <2>16. CASE Check(j)
    BY <2>16 DEF Check
  <2> QED
    BY <1>8, <2>1, <2>2, <2>3, <2>4, <2>5, <2>6, <2>7, <2>8, <2>9, <2>10, <2>11, <2>12,
       <2>13, <2>14, <2>15, <2>16 DEF Step
<1> QED
  BY <1>1, <1>2, <1>3, <1>4, <1>5, <1>6, <1>7, <1>8 DEF Next

\* A step that moves neither the job nor its manifest nor its directory keeps what the job
\* knows; a role stored by somebody else only makes its copy old.
LEMMA SignDirFrame ==
  ASSUME TypeOK, NEW i \in Jobs, SignDirOf(i),
         pc'[i] = pc[i], manifest'[i] = manifest[i],
         pc[i] \in SignPCs => signDir'[SignRepo[i]] = signDir[SignRepo[i]],
         registry' = registry \/ registry'.version = registry.version + 1
  PROVE  SignDirOf(i)'
<1>1. Entry(i)' = Entry(i)
  BY DEF Entry
<1>2. signDir[SignRepo[i]].base \in Nat /\ registry.version \in Nat
  BY DirType DEF TypeOK, SignRepos
<1> QED
  BY <1>1, <1>2 DEF SignDirOf, SignPCs, LoopPCs

\* Outside the loop there is nothing to know.
LEMMA SignDirOutside == ASSUME NEW j \in Jobs, pc[j] \notin LoopPCs PROVE SignDirOf(j)
BY DEF SignDirOf, LoopPCs

\* What every step leaves alone for the jobs that do not take it.
LEMMA Others ==
  ASSUME OstreeInv, SignInv, NEW j \in Jobs,
         StartBuild(j) \/ Resume(j) \/ BuildOta(j) \/ PushLost(j) \/ Stop(j) \/ Step(j),
         NEW i \in Jobs, i # j
  PROVE  /\ pc'[i] = pc[i] /\ manifest'[i] = manifest[i]
         /\ pc[i] \in SignPCs => signDir'[SignRepo[i]] = signDir[SignRepo[i]]
         /\ registry' = registry \/ registry'.version = registry.version + 1
<1> USE DEF OstreeInv, TypeOK, SignInv, Goto, ostreeVars, signVars, SignPCs, LoopPCs
<1>0. pc[i] \in SignPCs /\ pc[j] \in SignPCs => SignRepo[i] # SignRepo[j]
  BY Exclusive
<1>1. CASE StartBuild(j)
  BY <1>1 DEF StartBuild
<1>2. CASE Resume(j)
  BY <1>2 DEF Resume
<1>3. CASE BuildOta(j)
  BY <1>3 DEF BuildOta
<1>4. CASE PushLost(j)
  BY <1>4 DEF PushLost, PushFails
<1>5. CASE Stop(j)
  BY <1>5 DEF Stop, Abandon
<1>8. CASE Step(j)
  <2>1. CASE LockRepo(j)
    BY <2>1 DEF LockRepo
  <2>2. CASE Commit(j)
    BY <2>2 DEF Commit
  <2>3. CASE WriteManifest(j)
    BY <2>3 DEF WriteManifest
  <2>4. CASE GaragePush(j)
    BY <2>4 DEF GaragePush
  <2>5. CASE LockSign(j)
    BY <2>5 DEF LockSign
  <2>6. CASE SkipSign(j)
    BY <2>6 DEF SkipSign
  <2>7. CASE RemoveDir(j)
    BY <2>7, <1>0 DEF RemoveDir
  <2>8. CASE InitDir(j)
    BY <2>8, <1>0 DEF InitDir
  <2>9. CASE RejectExpiry(j)
    BY <2>9, <1>0 DEF RejectExpiry, Abandon
  <2>10. CASE Pull(j)
    BY <2>10, <1>0 DEF Pull
  <2>11. CASE Add(j)
    BY <2>11, <1>0 DEF Add
  <2>12. CASE Sign(j)
    BY <2>12, <1>0 DEF Sign
  <2>13. CASE PushAccepted(j)
    BY <2>13 DEF PushAccepted, Store
  <2>14. CASE PushRefused(j)
    BY <2>14 DEF PushRefused, PushFails
  <2>15. CASE Cleanup(j)
    BY <2>15, <1>0 DEF Cleanup
  <2>16. CASE Check(j)
    BY <2>16 DEF Check
  <2> QED
    BY <1>8, <2>1, <2>2, <2>3, <2>4, <2>5, <2>6, <2>7, <2>8, <2>9, <2>10, <2>11, <2>12,
       <2>13, <2>14, <2>15, <2>16 DEF Step
<1> QED
  BY <1>1, <1>2, <1>3, <1>4, <1>5, <1>8

LEMMA SignDirStep == OstreeInv /\ SignInv /\ [Next]_vars => SignDirInv'
<1> SUFFICES ASSUME OstreeInv, SignInv, [Next]_vars, NEW i \in Jobs PROVE SignDirOf(i)'
  BY DEF SignDirInv
<1>0. TypeOK /\ SignDirOf(i)
  BY DEF OstreeInv, SignInv, SignDirInv
<1>1. CASE UNCHANGED vars
  BY <1>0, <1>1, SignDirFrame DEF vars, ostreeVars, signVars
<1>2. CASE Deliver
  BY <1>0, <1>2, SignDirFrame DEF Deliver, Store, ostreeVars
<1>3. ASSUME NEW j \in Jobs, i # j,
             StartBuild(j) \/ Resume(j) \/ BuildOta(j) \/ PushLost(j) \/ Stop(j) \/ Step(j)
      PROVE  SignDirOf(i)'
  BY <1>0, <1>3, Others, SignDirFrame
<1>4. ASSUME StartBuild(i) \/ Resume(i) \/ BuildOta(i) \/ PushLost(i) \/ Stop(i) \/ Step(i)
      PROVE  SignDirOf(i)'
  <2> USE DEF TypeOK, Goto, Resting, Tasks
  <2> DEFINE d == signDir[SignRepo[i]]
  <2>0. d \in Dirs /\ registry.version \in Nat
    BY <1>0 DEF SignRepos
  <2>1. CASE pc'[i] \notin LoopPCs
    BY <2>1, SignDirOutside DEF SignDirOf, LoopPCs
  <2>2. CASE BuildOta(i)
    BY <1>0, <2>2, SignDirFrame DEF BuildOta, signVars
  <2>3. CASE InitDir(i)
    BY <1>0, <2>0, <2>3 DEF InitDir, SignDirOf, LoopPCs, Dirs
  <2>4. CASE Pull(i)
    <3>1. d' = [d EXCEPT !.base = registry.version, !.unsigned = registry.targets]
      BY <1>0, <2>4 DEF Pull, SignRepos
    <3> QED
      BY <1>0, <2>0, <2>4, <3>1 DEF Pull, SignDirOf, LoopPCs, Dirs
  <2>5. CASE Add(i)
    <3>1. d' = [d EXCEPT !.unsigned = Registry!Put(d.unsigned, Entry(i))]
      BY <1>0, <2>5 DEF Add, SignRepos
    <3>2. Entry(i)' = Entry(i)
      BY <2>5 DEF Add, ostreeVars, Entry
    <3> QED
      BY <1>0, <2>0, <2>5, <3>1, <3>2, PutHas DEF Add, SignDirOf, LoopPCs, Dirs
  <2>6. CASE Sign(i)
    <3>1. d' = [d EXCEPT !.signed = d.unsigned]
      BY <1>0, <2>6 DEF Sign, SignRepos
    <3>2. Entry(i)' = Entry(i)
      BY <2>6 DEF Sign, ostreeVars, Entry
    <3> QED
      BY <1>0, <2>0, <2>6, <3>1, <3>2 DEF Sign, SignDirOf, LoopPCs, Dirs
  <2>7. CASE PushRefused(i) \/ PushLost(i)
    BY <1>0, <2>7 DEF PushRefused, PushLost, PushFails, AfterFailure, SignDirOf, LoopPCs
  <2>8. CASE pc[i] \notin LoopPCs /\ ~InitDir(i) /\ ~BuildOta(i)
    BY <1>0, <1>4, <2>8, <2>1 DEF LoopPCs, StartBuild, Resume, FirstOf, PushLost, PushFails, Stop,
       Abandon, Step, LockRepo, Commit, WriteManifest, GaragePush, LockSign, SkipSign, RemoveDir,
       RejectExpiry, Pull, Add, Sign, PushAccepted, PushRefused, Cleanup, Check
  <2>9. CASE pc[i] \in LoopPCs /\ ~BuildOta(i)
    BY <1>0, <1>4, <2>9, <2>1, <2>4, <2>5, <2>6, <2>7
       DEF LoopPCs, StartBuild, Resume, Stop, Abandon, Step, LockRepo, Commit, WriteManifest,
           GaragePush, LockSign, SkipSign, RemoveDir, InitDir, RejectExpiry, PushAccepted, Cleanup,
           Check
  <2> QED
    BY <2>2, <2>3, <2>8, <2>9
<1> QED
  BY <1>1, <1>2, <1>3, <1>4 DEF Next

\* Only PushAccepted and Deliver change the backend's role.
LEMMA RegistryFrame ==
  ASSUME NEW j \in Jobs,
         StartBuild(j) \/ Resume(j) \/ BuildOta(j) \/ PushLost(j) \/ Stop(j) \/ Step(j),
         ~PushAccepted(j)
  PROVE  registry' = registry /\ (PushLost(j) \/ inflight' = inflight)
BY DEF StartBuild, Resume, BuildOta, PushLost, PushFails, Stop, Step, LockRepo, Commit, WriteManifest,
       GaragePush, LockSign, SkipSign, RemoveDir, InitDir, RejectExpiry, Pull, Add, Sign, PushRefused,
       Cleanup, Check, signVars, ostreeVars

LEMMA RequestStep == OstreeInv /\ SignInv /\ [Next]_vars => RequestInv'
<1> SUFFICES ASSUME OstreeInv, SignInv, [Next]_vars PROVE RequestInv'
  OBVIOUS
<1>0. registry.version \in Nat /\ \A r \in inflight : r.base \in Nat
  BY DEF OstreeInv, TypeOK, Requests
<1> USE <1>0 DEF SignInv, RequestInv
<1>1. CASE UNCHANGED vars
  BY <1>1 DEF vars, signVars
<1>2. CASE Deliver
  BY <1>2 DEF Deliver, Store, Accepts
<1>3. ASSUME NEW j \in Jobs,
             StartBuild(j) \/ Resume(j) \/ BuildOta(j) \/ PushLost(j) \/ Stop(j) \/ Step(j)
      PROVE  RequestInv'
  <2>1. CASE PushAccepted(j)
    BY <2>1 DEF PushAccepted, Store
  <2>2. CASE PushLost(j)
    BY <2>2 DEF PushLost, PushFails, Goto, SignDirInv, SignDirOf
  <2> QED
    BY <1>3, <2>1, <2>2, RegistryFrame
<1> QED
  BY <1>1, <1>2, <1>3 DEF Next

\* The inductive invariant of the pipeline.
IInv == OstreeInv /\ SignInv

THEOREM Inductive == Spec => []IInv
<1>1. Init => IInv
  BY OstreeInit DEF Init, IInv, SignInv, SignLockInv, SignDirInv, SignDirOf, RequestInv, SignPCs, LoopPCs
<1>2. IInv /\ [Next]_vars => IInv'
  BY OstreeStep, SignLockStep, SignDirStep, RequestStep DEF IInv, SignInv
<1> QED
  BY <1>1, <1>2, PTL DEF Spec

\* OTA-1866: the signing directory of a running garagesign is its own, for any assignment of
\* directories to jobs in which those of one directory have one lock.
THEOREM SigningIsPrivate == Spec => []SignDirPrivate
<1>1. IInv => SignDirPrivate
  BY Exclusive DEF IInv, SignInv, SignDirInv, SignDirOf, SignDirPrivate, InDir
<1> QED
  BY <1>1, Inductive, PTL

\* Every step of the pipeline is, for the backend's targets role, one put or nothing.
LEMMA StepIsPut == IInv /\ [Next]_vars => [Registry!Next]_(registry.targets)
<1> SUFFICES ASSUME IInv, [Next]_vars, registry'.targets # registry.targets
             PROVE  \E e \in Entries : registry'.targets = Registry!Put(registry.targets, e)
  BY DEF Registry!Next, Registry!Publish
<1> USE DEF IInv, SignInv
<1>1. CASE Deliver
  <2>1. PICK r \in inflight : Accepts(r.base) /\ Store(r.targets)
    BY <1>1 DEF Deliver
  <2>2. r.entry \in Entries
    BY DEF OstreeInv, TypeOK, Requests
  <2> QED
    BY <2>1, <2>2 DEF RequestInv, Accepts, Store
<1>2. ASSUME NEW j \in Jobs, PushAccepted(j)
      PROVE  \E e \in Entries : registry'.targets = Registry!Put(registry.targets, e)
  <2>1. registry'.targets = Registry!Put(registry.targets, Entry(j))
    BY <1>2 DEF PushAccepted, Goto, Accepts, Store, SignDirInv, SignDirOf
  <2>2. Entry(j) \in Entries
    BY EntryType DEF OstreeInv
  <2> QED
    BY <2>1, <2>2
<1>3. CASE UNCHANGED vars
  BY <1>3 DEF vars, signVars
<1> QED
  BY <1>1, <1>2, <1>3, RegistryFrame DEF Next

\* Pull, add, sign and push, with all their retries and late requests, implement one atomic
\* put into the targets role.
THEOREM PublishingIsAtomic == Spec => PublishesAtomically
<1>1. Init => Registry!Init
  BY DEF Init, Registry!Init
<1> QED
  BY <1>1, StepIsPut, Inductive, PTL DEF Spec, PublishesAtomically, Registry!Spec

-----------------------------------------------------------------------------
(* Part 3.  The push loop and what a finished garagesign can rely on.       *)

\* What is true of the retry loop of a job at each command of it.
RetryOf(j) ==
  LET base == signDir[SignRepo[j]].base
  IN  /\ pc[j] \in LoopPCs \union {"cleanup"} =>
           /\ startVer[j] <= registry.version
           /\ fails[j] <= (registry.version - startVer[j]) + lost[j]
      /\ pc[j] \in {"add", "sign", "push_targets"} =>
           startVer[j] <= base /\ fails[j] <= (base - startVer[j]) + lost[j]
      /\ pc[j] \in LoopPCs => ~pushed[j] /\ fails[j] < PushRetries
      /\ pc[j] = "cleanup" /\ ~pushed[j] => fails[j] = PushRetries

RetryInv == \A j \in Jobs : RetryOf(j)

\* The variables of the loop that only their own job changes.
LEMMA LoopFrame ==
  ASSUME TypeOK, NEW j \in Jobs, StartBuild(j) \/ Resume(j) \/ BuildOta(j) \/ PushLost(j) \/ Stop(j) \/ Step(j),
         NEW i \in Jobs, i # j
  PROVE  fails'[i] = fails[i] /\ pushed'[i] = pushed[i] /\ lost'[i] = lost[i]
         /\ startVer'[i] = startVer[i] /\ task'[i] = task[i]
BY DEF TypeOK, StartBuild, Resume, BuildOta, PushLost, PushFails, Stop, Step, LockRepo, Commit,
       WriteManifest, GaragePush, LockSign, SkipSign, RemoveDir, InitDir, RejectExpiry, Pull, Add, Sign,
       PushAccepted, PushRefused, Cleanup, Check, signVars, ostreeVars, Goto, Enter

LEMMA RetryStep == IInv /\ RetryInv /\ [Next]_vars => RetryInv'
<1> SUFFICES ASSUME IInv, RetryInv, [Next]_vars, NEW i \in Jobs PROVE RetryOf(i)'
  BY DEF RetryInv
<1> DEFINE d == signDir[SignRepo[i]]
<1>0. /\ TypeOK /\ RetryOf(i) /\ SignDirOf(i)
      /\ d \in Dirs /\ registry.version \in Nat /\ startVer[i] \in Nat /\ lost[i] \in Nat
      /\ fails[i] \in Nat /\ d.base \in Nat
  BY DirType DEF IInv, OstreeInv, SignInv, SignDirInv, RetryInv, TypeOK, SignRepos
<1>n. /\ registry.version \in Nat /\ startVer[i] \in Nat /\ lost[i] \in Nat
      /\ fails[i] \in Nat /\ d.base \in Nat
  BY <1>0
<1>1. CASE UNCHANGED vars
  BY <1>0, <1>1 DEF vars, signVars, RetryOf
<1>2. CASE Deliver
  BY <1>0, <1>2 DEF Deliver, Store, RetryOf
<1>3. ASSUME NEW j \in Jobs, i # j, StartBuild(j) \/ Resume(j) \/ BuildOta(j) \/ PushLost(j) \/ Stop(j) \/ Step(j)
      PROVE  RetryOf(i)'
  <2>1. pc'[i] = pc[i] /\ (pc[i] \in SignPCs => d' = d)
        /\ (registry' = registry \/ registry'.version = registry.version + 1)
    BY <1>3, Others DEF IInv
  <2>2. fails'[i] = fails[i] /\ pushed'[i] = pushed[i] /\ lost'[i] = lost[i]
        /\ startVer'[i] = startVer[i]
    BY <1>0, <1>3, LoopFrame
  <2> QED
    BY <1>0, <2>1, <2>2 DEF RetryOf, SignPCs, LoopPCs
<1>4. ASSUME StartBuild(i) \/ Resume(i) \/ BuildOta(i) \/ PushLost(i) \/ Stop(i) \/ Step(i)
      PROVE  RetryOf(i)'
  <2> USE DEF TypeOK, Goto, LoopPCs
  <2>1. CASE InitDir(i)
    BY <1>0, <2>1 DEF InitDir, RetryOf
  <2>2. CASE Pull(i)
    <3>1. d' = [d EXCEPT !.base = registry.version, !.unsigned = registry.targets]
      BY <1>0, <2>2 DEF Pull, SignRepos
    <3> QED
      BY <1>0, <2>2, <3>1 DEF Pull, RetryOf, Dirs
  <2>3. CASE Add(i) \/ Sign(i)
    <3>1. \/ d' = [d EXCEPT !.unsigned = Registry!Put(d.unsigned, Entry(i))]
          \/ d' = [d EXCEPT !.signed = d.unsigned]
      BY <1>0, <2>3 DEF Add, Sign, SignRepos
    <3>2. d'.base = d.base
      BY <1>0, <3>1 DEF Dirs
    <3> QED
      BY <1>0, <2>3, <3>2 DEF Add, Sign, RetryOf
  <2>4. CASE PushAccepted(i)
    BY <1>0, <2>4 DEF PushAccepted, Store, RetryOf
  <2>5. CASE PushRefused(i)
    <3>1. /\ pc[i] = "push_targets" /\ pc'[i] = AfterFailure(i) /\ fails'[i] = fails[i] + 1
          /\ pushed' = pushed /\ registry' = registry /\ startVer' = startVer /\ lost' = lost
      BY <1>0, <2>5 DEF PushRefused, PushFails
    <3>2. d.base < registry.version
      <4>1. d.base # registry.version
        BY <2>5 DEF PushRefused, Accepts
      <4>2. d.base <= registry.version
        BY <1>0, <3>1 DEF SignDirOf
      <4> QED
        BY <1>n, <4>1, <4>2
    <3>3. RetryOf(i)
      BY <1>0
    <3> QED
      BY <1>n, <3>1, <3>2, <3>3 DEF AfterFailure, RetryOf
  <2>6. CASE PushLost(i)
    <3>1. /\ pc[i] = "push_targets" /\ pc'[i] = AfterFailure(i) /\ fails'[i] = fails[i] + 1
          /\ pushed' = pushed /\ registry' = registry /\ startVer' = startVer
          /\ lost'[i] = lost[i] + 1
      BY <1>0, <2>6 DEF PushLost, PushFails
    <3>2. d.base <= registry.version
      BY <1>0, <3>1 DEF SignDirOf
    <3> QED
      BY <1>0, <3>1, <3>2 DEF AfterFailure, RetryOf
  <2>7. CASE BuildOta(i)
    BY <1>0, <2>7 DEF BuildOta, signVars, RetryOf
  <2>8. CASE StartBuild(i) \/ Resume(i) \/ Stop(i)
    BY <1>0, <2>8 DEF StartBuild, Resume, FirstOf, Tasks, Stop, Abandon, RetryOf
  <2>9. CASE LockRepo(i) \/ Commit(i) \/ WriteManifest(i) \/ GaragePush(i) \/ LockSign(i)
             \/ SkipSign(i) \/ RemoveDir(i) \/ RejectExpiry(i) \/ Cleanup(i) \/ Check(i)
    BY <1>0, <2>9 DEF LockRepo, Commit, WriteManifest, GaragePush, LockSign, SkipSign, RemoveDir,
       RejectExpiry, Abandon, Cleanup, Check, RetryOf
  <2> QED
    BY <1>4, <2>1, <2>2, <2>3, <2>4, <2>5, <2>6, <2>7, <2>8, <2>9 DEF Step
<1> QED
  BY <1>1, <1>2, <1>3, <1>4 DEF Next

LEMMA RetryInvariant == Spec => []RetryInv
<1>1. Init => RetryInv
  BY DEF Init, RetryInv, RetryOf, LoopPCs
<1> QED
  BY <1>1, RetryStep, Inductive, PTL DEF Spec

\* "Couldn't push to garage repository" takes GARAGE_PUSH_RETRIES roles stored by others since
\* the loop began, or as many lost replies.
THEOREM FailuresAreExplained == Spec => []RetryExplained
<1>1. RetryInv => RetryExplained
  BY DEF RetryInv, RetryOf, RetryExplained
<1> QED
  BY <1>1, RetryInvariant, PTL

\* Overridden versions are not commit hashes.
VersionsApart == \A j \in Jobs : Override[j] \notin Hashes

\* A target whose version is a hash names that hash.
Genuine(e) == e.version \in Hashes => e.hash = e.version

RegisteredOf(j) ==
  /\ task[j] = "garagecheck" \/ (pc[j] = "cleanup" /\ pushed[j])
  /\ Creds[j] = "offline" /\ Override[j] = NoHash
  => Entry(j) \in registry.targets

RegisteredInv == /\ \A j \in Jobs : RegisteredOf(j)
                 /\ \A r \in inflight : Genuine(r.entry)

LEMMA EntryGenuine == ASSUME VersionsApart, NEW j \in Jobs PROVE Genuine(Entry(j))
BY DEF VersionsApart, Genuine, Entry

\* A published target without an override survives the put of any genuine target.
LEMMA EntrySurvives ==
  ASSUME NEW j \in Jobs, TypeOK, Override[j] = NoHash, manifest[j] \in Hashes,
         NEW e \in Entries, Genuine(e), NEW T, Entry(j) \in T
  PROVE  Entry(j) \in Registry!Put(T, e)
<1>1. CASE Registry!SameKey(e, Entry(j))
  <2>1. Entry(j) \in Entries /\ e.name = Entry(j).name /\ e.version = Entry(j).version
    BY <1>1, EntryType DEF Registry!SameKey
  <2>2. e.hash = Entry(j).hash
    BY <2>1 DEF Genuine, Entry
  <2>3. e = Entry(j)
    BY <2>1, <2>2 DEF Entries
  <2> QED
    BY <2>3, PutHas
<1>2. CASE ~Registry!SameKey(e, Entry(j))
  BY <1>2, PutKeeps
<1> QED
  BY <1>1, <1>2

\* Each step puts a genuine target or leaves the role.
LEMMA StepIsGenuinePut ==
  ASSUME VersionsApart, IInv, RegisteredInv, [Next]_vars
  PROVE  \/ registry'.targets = registry.targets
         \/ \E e \in Entries : Genuine(e) /\ registry'.targets = Registry!Put(registry.targets, e)
<1> USE DEF IInv, SignInv
<1>1. CASE Deliver
  <2>1. PICK r \in inflight : IF Accepts(r.base) THEN Store(r.targets) ELSE UNCHANGED registry
    BY <1>1 DEF Deliver
  <2>2. r.entry \in Entries /\ Genuine(r.entry)
    BY DEF OstreeInv, TypeOK, Requests, RegisteredInv
  <2> QED
    BY <2>1, <2>2 DEF RequestInv, Accepts, Store
<1>2. ASSUME NEW j \in Jobs, PushAccepted(j)
      PROVE  registry'.targets = Registry!Put(registry.targets, Entry(j))
             /\ Entry(j) \in Entries /\ Genuine(Entry(j))
  BY <1>2, EntryType, EntryGenuine DEF PushAccepted, Goto, Accepts, Store, SignDirInv, SignDirOf, OstreeInv
<1>3. CASE UNCHANGED vars
  BY <1>3 DEF vars, signVars
<1> QED
  BY <1>1, <1>2, <1>3, RegistryFrame DEF Next

LEMMA RegisteredStep ==
  ASSUME VersionsApart, IInv, RetryInv, RegisteredInv, [Next]_vars
  PROVE  RegisteredInv'
<1>1. ASSUME NEW i \in Jobs, AfterCommit(i), Override[i] = NoHash, manifest'[i] = manifest[i],
             Entry(i) \in registry.targets
      PROVE  Entry(i)' \in registry'.targets
  <2>1. Entry(i)' = Entry(i) /\ manifest[i] \in Hashes /\ TypeOK
    BY <1>1 DEF Entry, IInv, OstreeInv, RepoInv
  <2> QED
    BY <1>1, <2>1, StepIsGenuinePut, EntrySurvives
<1>2. ASSUME NEW i \in Jobs PROVE RegisteredOf(i)'
  <2>0. TypeOK /\ RegisteredOf(i) /\ RetryOf(i) /\ SignDirOf(i)
    BY DEF RegisteredInv, RetryInv, IInv, OstreeInv, SignInv, SignDirInv
  <2>a. task[i] = "garagecheck" \/ pc[i] = "cleanup" => AfterCommit(i)
    BY DEF AfterCommit, IInv, OstreeInv, TaskInv, SignPCs
  <2>1. CASE UNCHANGED vars
    BY <2>0, <2>1 DEF vars, signVars, ostreeVars, RegisteredOf, Entry
  <2>2. CASE Deliver
    <3>1. pc' = pc /\ task' = task /\ pushed' = pushed /\ manifest' = manifest
      BY <2>2 DEF Deliver, ostreeVars
    <3> QED
      BY <1>1, <2>0, <2>a, <3>1 DEF RegisteredOf
  <2>3. ASSUME NEW j \in Jobs, i # j, StartBuild(j) \/ Resume(j) \/ BuildOta(j) \/ PushLost(j) \/ Stop(j) \/ Step(j)
        PROVE  RegisteredOf(i)'
    <3>1. pc'[i] = pc[i] /\ manifest'[i] = manifest[i]
      BY <2>3, Others DEF IInv
    <3>2. pushed'[i] = pushed[i] /\ task'[i] = task[i]
      BY <2>0, <2>3, LoopFrame
    <3> QED
      BY <1>1, <2>0, <2>a, <3>1, <3>2 DEF RegisteredOf
  <2>4. ASSUME StartBuild(i) \/ Resume(i) \/ BuildOta(i) \/ PushLost(i) \/ Stop(i) \/ Step(i)
        PROVE  RegisteredOf(i)'
    <3> USE DEF TypeOK, Goto, Enter, RegisteredOf
    <3>1. CASE PushAccepted(i)
      BY <2>0, <3>1 DEF PushAccepted, Store, SignDirOf, Entry, ostreeVars
    <3>2. CASE InitDir(i) \/ PushRefused(i) \/ PushLost(i)
      <4>1. ~pushed'[i] /\ task'[i] = "garagesign"
        BY <2>0, <3>2 DEF InitDir, PushRefused, PushLost, PushFails, RetryOf, LoopPCs, IInv, OstreeInv,
           TaskInv, SignPCs
      <4> QED
        BY <4>1
    <3>3. CASE StartBuild(i) \/ WriteManifest(i) \/ GaragePush(i) \/ SkipSign(i)
      BY <2>0, <3>3 DEF StartBuild, WriteManifest, GaragePush, SkipSign
    <3>4. CASE Cleanup(i)
      BY <2>0, <3>4 DEF Cleanup, ostreeVars, Entry
    <3>5. CASE Resume(i) \/ BuildOta(i) \/ Stop(i) \/ LockRepo(i) \/ Commit(i) \/ LockSign(i)
               \/ RemoveDir(i) \/ RejectExpiry(i) \/ Pull(i) \/ Add(i) \/ Sign(i) \/ Check(i)
      <4>1. manifest' = manifest /\ task' = task /\ registry' = registry
        BY <3>5 DEF Resume, BuildOta, Stop, LockRepo, Commit, LockSign, RemoveDir, RejectExpiry, Pull,
           Add, Sign, Check, ostreeVars, signVars
      <4>2. pc'[i] # "cleanup" \/ (pc'[i] = pc[i] /\ pushed'[i] = pushed[i])
        BY <2>0, <3>5 DEF Resume, FirstOf, Tasks, BuildOta, Stop, Abandon, LockRepo, Commit, LockSign,
           RemoveDir, RejectExpiry, Pull, Add, Sign, Check, signVars
      <4> QED
        BY <2>0, <4>1, <4>2 DEF Entry
    <3> QED
      BY <2>4, <3>1, <3>2, <3>3, <3>4, <3>5 DEF Step
  <2> QED
    BY <2>1, <2>2, <2>3, <2>4 DEF Next
<1>3. \A r \in inflight' : Genuine(r.entry)
  <2>1. CASE UNCHANGED vars
    BY <2>1 DEF vars, signVars, RegisteredInv
  <2>2. CASE Deliver
    BY <2>2 DEF Deliver, RegisteredInv
  <2>3. ASSUME NEW j \in Jobs, StartBuild(j) \/ Resume(j) \/ BuildOta(j) \/ PushLost(j) \/ Stop(j) \/ Step(j)
        PROVE  \A r \in inflight' : Genuine(r.entry)
    <3>1. CASE PushLost(j)
      BY <3>1, EntryGenuine DEF PushLost, RegisteredInv
    <3>2. CASE PushAccepted(j)
      BY <3>2 DEF PushAccepted, RegisteredInv
    <3> QED
      BY <2>3, <3>1, <3>2, RegistryFrame DEF RegisteredInv
  <2> QED
    BY <2>1, <2>2, <2>3 DEF Next
<1> QED
  BY <1>2, <1>3 DEF RegisteredInv

\* No published target is lost: with versions that are hashes, or overrides that are not, what a
\* successful garagesign put into targets.json stays there through every later push.
THEOREM PublishedStays == ASSUME VersionsApart PROVE Spec => []SignedIsRegistered
<1>1. Init => RegisteredInv
  BY DEF Init, RegisteredInv, RegisteredOf
<1>2. IInv /\ RetryInv /\ RegisteredInv /\ [Next]_vars => RegisteredInv'
  BY RegisteredStep
<1>3. RegisteredInv => SignedIsRegistered
  BY DEF RegisteredInv, RegisteredOf, SignedIsRegistered
<1> QED
  BY <1>1, <1>2, <1>3, Inductive, RetryInvariant, PTL DEF Spec

-----------------------------------------------------------------------------
(* Part 4.  The object store.                                              *)

\* garagecheck found the commit of a job that is done.
CheckedInv ==
  \A j \in Jobs : pc[j] = "done" /\ Creds[j] = "offline" => task[j] = "garagecheck" /\ manifest[j] \in uploaded

LEMMA CheckedStep == ASSUME IInv, CheckedInv, [Next]_vars PROVE CheckedInv'
<1> USE DEF IInv, OstreeInv, TypeOK, TaskInv
<1>1. CASE UNCHANGED vars
  BY <1>1 DEF vars, ostreeVars, CheckedInv
<1>2. CASE Deliver
  BY <1>2 DEF Deliver, ostreeVars, CheckedInv
<1>3. ASSUME NEW j \in Jobs, StartBuild(j) \/ Resume(j) \/ BuildOta(j) \/ PushLost(j) \/ Stop(j) \/ Step(j),
             NEW i \in Jobs, pc'[i] = "done", Creds[i] = "offline"
      PROVE  task'[i] = "garagecheck" /\ manifest'[i] \in uploaded'
  <2>1. uploaded \subseteq uploaded'
    BY <1>3 DEF StartBuild, Resume, BuildOta, PushLost, PushFails, Stop, Step, LockRepo, Commit, WriteManifest,
       GaragePush, LockSign, SkipSign, RemoveDir, InitDir, RejectExpiry, Pull, Add, Sign, PushAccepted,
       PushRefused, Cleanup, Check, ostreeVars
  <2>2. CASE i # j
    BY <1>3, <2>1, <2>2, Others, LoopFrame DEF CheckedInv
  <2>3. CASE i = j
    <3> USE DEF Goto, Enter
    <3>1. CASE Check(i)
      BY <1>3, <2>3, <3>1 DEF Check, ostreeVars
    <3>2. CASE BuildOta(i)
      BY <1>3, <3>2 DEF BuildOta, CheckedInv
    <3>3. CASE SkipSign(i) \/ WriteManifest(i)
      BY <1>3, <3>3 DEF SkipSign, WriteManifest
    <3>4. CASE Resume(i)
      BY <1>3, <3>4 DEF Resume, FirstOf, Tasks
    <3>5. CASE StartBuild(i) \/ Stop(i) \/ PushLost(i)
      BY <1>3, <3>5 DEF StartBuild, Stop, Abandon, PushLost, PushFails, AfterFailure
    <3>6. CASE LockRepo(i) \/ Commit(i) \/ GaragePush(i) \/ LockSign(i) \/ RemoveDir(i) \/ InitDir(i)
               \/ RejectExpiry(i) \/ Pull(i) \/ Add(i) \/ Sign(i) \/ PushAccepted(i) \/ PushRefused(i)
               \/ Cleanup(i)
      BY <1>3, <3>6 DEF LockRepo, Commit, GaragePush, LockSign, RemoveDir, InitDir, RejectExpiry, Abandon,
         Pull, Add, Sign, PushAccepted, PushRefused, PushFails, AfterFailure, Cleanup
    <3> QED
      BY <1>3, <2>3, <3>1, <3>2, <3>3, <3>4, <3>5, <3>6 DEF Step
  <2> QED
    BY <2>2, <2>3
<1> QED
  BY <1>1, <1>2, <1>3 DEF Next, CheckedInv

\* A build that ends well has published: its commit, of its own tree, is in the object store and a
\* target that names it in the role, whatever other jobs commit, push, retry or drop.
THEOREM DonePublishes == ASSUME VersionsApart PROVE Spec => []DoneIsPublished
<1>1. Init => CheckedInv
  BY DEF Init, CheckedInv
<1>2. IInv /\ CheckedInv /\ [Next]_vars => CheckedInv'
  BY CheckedStep
<1>3. IInv /\ CheckedInv /\ SignedIsRegistered => DoneIsPublished
  <2> SUFFICES ASSUME IInv, CheckedInv, SignedIsRegistered, NEW j \in Jobs,
                      pc[j] = "done", Creds[j] = "offline", Override[j] = NoHash
               PROVE  /\ treeOf[manifest[j]] = tree[j] /\ manifest[j] \in uploaded
                      /\ Entry(j) \in registry.targets
    BY DEF DoneIsPublished
  <2>1. task[j] = "garagecheck" /\ manifest[j] \in uploaded
    BY DEF CheckedInv
  <2>2. treeOf[manifest[j]] = tree[j]
    BY <2>1 DEF IInv, OstreeInv, RepoInv, AfterCommit
  <2> QED
    BY <2>1, <2>2 DEF SignedIsRegistered
<1> QED
  BY <1>1, <1>2, <1>3, Inductive, PublishedStays, PTL DEF Spec

\* No two jobs commit to one branch of one repository.
BranchesApart == \A i, j \in Jobs : Repo[i] = Repo[j] /\ Branch[i] = Branch[j] => i = j

\* The head of a branch of its own is the job's commit, and garage-push sent it.
UploadedOf(j) ==
  /\ AfterCommit(j) => HeadOf(j) = manifest[j]
  /\ task[j] \in {"garagesign", "garagecheck"} /\ Creds[j] = "offline" => manifest[j] \in uploaded
UploadedInv == \A j \in Jobs : UploadedOf(j)

LEMMA UploadedStep == ASSUME BranchesApart, IInv, UploadedInv, [Next]_vars PROVE UploadedInv'
<1> USE DEF IInv, OstreeInv, TypeOK, TaskInv, AfterCommit, HeadOf, UploadedOf
<1>1. CASE UNCHANGED vars
  BY <1>1 DEF vars, ostreeVars, UploadedInv
<1>2. CASE Deliver
  BY <1>2 DEF Deliver, ostreeVars, UploadedInv
<1>3. ASSUME NEW j \in Jobs, StartBuild(j) \/ Resume(j) \/ BuildOta(j) \/ PushLost(j) \/ Stop(j) \/ Step(j),
             NEW i \in Jobs
      PROVE  UploadedOf(i)'
  <2>0. UploadedOf(i)
    BY DEF UploadedInv
  <2>1. uploaded \subseteq uploaded'
    BY <1>3 DEF StartBuild, Resume, BuildOta, PushLost, PushFails, Stop, Step, LockRepo, Commit, WriteManifest,
       GaragePush, LockSign, SkipSign, RemoveDir, InitDir, RejectExpiry, Pull, Add, Sign, PushAccepted,
       PushRefused, Cleanup, Check, ostreeVars
  <2>2. CASE i # j
    <3>1. head'[<<Repo[i], Branch[i]>>] = head[<<Repo[i], Branch[i]>>]
      <4>1. CASE Commit(j)
        <5>1. <<Repo[i], Branch[i]>> # <<Repo[j], Branch[j]>>
          BY <2>2 DEF BranchesApart
        <5> QED
          BY <4>1, <5>1, HeadType DEF Commit
      <4>2. CASE ~Commit(j)
        BY <1>3, <4>2 DEF StartBuild, Resume, BuildOta, PushLost, PushFails, Stop, Step, LockRepo,
           WriteManifest, GaragePush, LockSign, SkipSign, RemoveDir, InitDir, RejectExpiry, Pull, Add, Sign,
           PushAccepted, PushRefused, Cleanup, Check, ostreeVars
      <4> QED
        BY <4>1, <4>2
    <3>2. manifest'[i] = manifest[i] /\ task'[i] = task[i]
      BY <1>3, <2>2, Others, LoopFrame
    <3> QED
      BY <2>0, <2>1, <3>1, <3>2
  <2>3. CASE i = j
    <3> USE DEF Goto, Enter
    <3>1. CASE StartBuild(i)
      BY <3>1 DEF StartBuild
    <3>2. CASE Commit(i)
      BY <3>2 DEF Commit, CommitPCs
    <3>3. CASE WriteManifest(i)
      BY <3>3 DEF WriteManifest
    <3>4. CASE GaragePush(i)
      <4>1. task[i] = "ostreepush"
        BY <3>4 DEF GaragePush
      <4> QED
        BY <2>0, <3>4, <4>1 DEF GaragePush
    <3>5. CASE SkipSign(i)
      BY <2>0, <3>5 DEF SkipSign, ostreeVars, SignPCs
    <3>6. CASE Cleanup(i)
      BY <2>0, <3>6 DEF Cleanup, ostreeVars, SignPCs
    <3>7. CASE Resume(i) \/ BuildOta(i) \/ PushLost(i) \/ Stop(i) \/ LockRepo(i) \/ LockSign(i)
               \/ RemoveDir(i) \/ InitDir(i) \/ RejectExpiry(i) \/ Pull(i) \/ Add(i) \/ Sign(i)
               \/ PushAccepted(i) \/ PushRefused(i) \/ Check(i)
      <4>1. UNCHANGED <<task, head, manifest, uploaded>>
        BY <3>7 DEF Resume, BuildOta, PushLost, PushFails, Stop, LockRepo, LockSign, RemoveDir, InitDir,
           RejectExpiry, Pull, Add, Sign, PushAccepted, PushRefused, Check, ostreeVars
      <4> QED
        BY <2>0, <4>1
    <3> QED
      BY <1>3, <2>3, <3>1, <3>2, <3>3, <3>4, <3>5, <3>6, <3>7 DEF Step
  <2> QED
    BY <2>2, <2>3
<1> QED
  BY <1>1, <1>2, <1>3 DEF Next, UploadedInv

\* When no two jobs share a branch of a repository, the commit a job is about to publish is in the
\* object store: the head that garage-push sent is the job's own commit.
THEOREM HeadIsUploaded == ASSUME BranchesApart PROVE Spec => []SignedIsUploaded
<1>1. Init => UploadedInv
  BY DEF Init, UploadedInv, UploadedOf, AfterCommit
<1>2. IInv /\ UploadedInv /\ [Next]_vars => UploadedInv'
  BY UploadedStep
<1>3. IInv /\ UploadedInv => SignedIsUploaded
  BY DEF IInv, OstreeInv, TaskInv, UploadedInv, UploadedOf, SignedIsUploaded
<1> QED
  BY <1>1, <1>2, <1>3, Inductive, PTL DEF Spec
=============================================================================
