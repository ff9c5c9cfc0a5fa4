--------------------------- MODULE PublishPipeline --------------------------
(***************************************************************************)
(* The publishing tasks of classes/image_types_ostree.bbclass, chained by  *)
(* IMAGE_TYPEDEP: ostreecommit, ostreepush, garagesign and garagecheck,    *)
(* and beside them the ota image task, which reads what ostreecommit left. *)
(*                                                                         *)
(* A job is one image in one build directory; bitbake runs the tasks of    *)
(* different jobs concurrently.  Jobs meet in four places: the archive     *)
(* repository OSTREE_REPO, the signing directory GARAGE_SIGN_REPO, the     *)
(* object store behind garage-push and the targets role behind garage-sign.*)
(* A commit hash is a member of Hashes, a root filesystem a member of      *)
(* Trees.  Any task may be killed, or stop at a failing command (tasks run *)
(* under set -e); its file locks go with the process, its files stay.      *)
(***************************************************************************)
EXTENDS Naturals, FiniteSets

CONSTANTS
  Jobs, Trees, Hashes, Names,
  NoHash, NoTree, Free,   \* absent values
  Repo, Branch,           \* OSTREE_REPO, OSTREE_BRANCHNAME of a job
  SignRepo, SignLock,     \* GARAGE_SIGN_REPO, DEPLOY_DIR_IMAGE/garagesign.lock
  Name,                   \* GARAGE_TARGET_NAME
  Override,               \* GARAGE_TARGET_VERSION or the target_version file; NoHash if unset
  Creds,                  \* kind of SOTA_PACKED_CREDENTIALS, see CredKinds
  Misconfigured,          \* jobs with both GARAGE_TARGET_EXPIRES and ..._EXPIRE_AFTER set
  PushRetries,            \* GARAGE_PUSH_RETRIES
  MaxStarts, MaxFaults    \* bounds on task (re)starts and on kills, failures, lost replies

Repos == {Repo[j] : j \in Jobs}
Branches == {Branch[j] : j \in Jobs}
SignRepos == {SignRepo[j] : j \in Jobs}
SignLocks == {SignLock[j] : j \in Jobs}
Versions == Hashes \union {NoHash} \union {Override[j] : j \in Jobs}
Entries == [name : Names, version : Versions, hash : Hashes \union {NoHash}]

\* unset: no push task exists; missing: the file is gone; online: no offline signing keys in it
CredKinds == {"unset", "missing", "online", "offline"}
Tasks == {"ostreecommit", "ostreepush", "garagesign", "garagecheck"}

ASSUME JobsAssumption ==
  /\ Repo \in [Jobs -> Repos] /\ Branch \in [Jobs -> Branches]
  /\ SignRepo \in [Jobs -> SignRepos] /\ SignLock \in [Jobs -> SignLocks]
  /\ Name \in [Jobs -> Names] /\ Override \in [Jobs -> Versions]
  /\ Creds \in [Jobs -> CredKinds] /\ Misconfigured \subseteq Jobs
ASSUME BoundsAssumption == PushRetries \in Nat /\ MaxStarts \in Nat /\ MaxFaults \in Nat
ASSUME AbsentAssumption == NoHash \notin Hashes /\ NoTree \notin Trees /\ Free \notin Jobs

\* Both GARAGE_SIGN_REPO and garagesign.lock live in DEPLOY_DIR_IMAGE by default, so jobs
\* that share the directory share the lock.
ASSUME SignLockAssumption ==
  \A i, j \in Jobs : SignRepo[i] = SignRepo[j] => SignLock[i] = SignLock[j]

VARIABLES
  pc,          \* the next command of a job
  task,        \* the task it is in, or the first that is not done
  tree,        \* OSTREE_ROOTFS
  manifest,    \* WORKDIR/ostree_manifest
  ota,         \* the tree deployed in the ota sysroot
  treeOf,      \* the tree of each commit, NoTree for an unused hash
  head,        \* branch heads of each archive repository
  ostreeLock,  \* holder of OSTREE_REPO/ostree.lock
  uploaded,    \* commits in the object store
  signLock,    \* holder of garagesign.lock
  signDir,     \* GARAGE_SIGN_REPO
  fails,       \* failed pushes of the current garagesign
  pushed,      \* push_success
  registry,    \* the backend's targets role and its version
  inflight,    \* pushes whose sender has stopped waiting
  starts, faults,
  startVer, lost   \* history: registry version when the push loop began, replies lost in it

ostreeVars == <<tree, manifest, ota, treeOf, head, ostreeLock, uploaded>>
signVars == <<signLock, signDir, fails, pushed, registry, inflight, startVer, lost>>
bounds == <<starts, faults>>
vars == <<pc, task, ostreeVars, signVars, bounds>>

-----------------------------------------------------------------------------
CommitPCs == {"commit", "manifest"}
LoopPCs == {"pull", "add", "sign", "push_targets"}
SignPCs == {"clean", "init"} \union LoopPCs \union {"cleanup"}
Resting == {"idle", "done", "failed"}
PCs == Resting \union CommitPCs \union SignPCs
       \union {"commit_wait", "push_wait", "push", "sign_wait", "check"}

Dirs == [exists : BOOLEAN, base : Nat, unsigned : SUBSET Entries, signed : SUBSET Entries]
NoDir == [exists |-> FALSE, base |-> 0, unsigned |-> {}, signed |-> {}]
Requests == [base : Nat, targets : SUBSET Entries, entry : Entries]

TypeOK ==
  /\ pc \in [Jobs -> PCs] /\ task \in [Jobs -> Tasks]
  /\ tree \in [Jobs -> Trees]
  /\ manifest \in [Jobs -> Hashes \union {NoHash}]
  /\ ota \in [Jobs -> Trees \union {NoTree}]
  /\ treeOf \in [Hashes -> Trees \union {NoTree}]
  /\ head \in [Repos \X Branches -> Hashes \union {NoHash}]
  /\ ostreeLock \in [Repos -> Jobs \union {Free}]
  /\ uploaded \subseteq Hashes
  /\ signLock \in [SignLocks -> Jobs \union {Free}]
  /\ signDir \in [SignRepos -> Dirs]
  /\ fails \in [Jobs -> Nat] /\ pushed \in [Jobs -> BOOLEAN]
  /\ registry \in [version : Nat, targets : SUBSET Entries]
  /\ inflight \subseteq Requests
  /\ starts \in Nat /\ faults \in Nat
  /\ startVer \in [Jobs -> Nat] /\ lost \in [Jobs -> Nat]

Init ==
  /\ pc = [j \in Jobs |-> "idle"] /\ task = [j \in Jobs |-> "ostreecommit"]
  /\ \E t \in Trees : tree = [j \in Jobs |-> t]
  /\ manifest = [j \in Jobs |-> NoHash]
  /\ ota = [j \in Jobs |-> NoTree]
  /\ treeOf = [h \in Hashes |-> NoTree]
  /\ head = [b \in Repos \X Branches |-> NoHash]
  /\ ostreeLock = [r \in Repos |-> Free]
  /\ uploaded = {}
  /\ signLock = [l \in SignLocks |-> Free]
  /\ signDir = [s \in SignRepos |-> NoDir]
  /\ fails = [j \in Jobs |-> 0] /\ pushed = [j \in Jobs |-> FALSE]
  /\ registry = [version |-> 0, targets |-> {}]
  /\ inflight = {}
  /\ starts = 0 /\ faults = 0
  /\ startVer = [j \in Jobs |-> 0] /\ lost = [j \in Jobs |-> 0]

Goto(j, from, to) == pc[j] = from /\ pc' = [pc EXCEPT ![j] = to]
Enter(j, t) == task' = [task EXCEPT ![j] = t]
AfterCommit(j) == task[j] # "ostreecommit"
HeadOf(j) == head[<<Repo[j], Branch[j]>>]

\* The first command of a task that has to wait for its lock, or the task itself.
FirstOf(t) == CASE t = "ostreecommit" -> "commit_wait" [] t = "ostreepush" -> "push_wait"
                [] t = "garagesign" -> "sign_wait" [] t = "garagecheck" -> "check"

-----------------------------------------------------------------------------
\* bitbake starts the image: the root filesystem may have changed since the last time.
StartBuild(j) ==
  /\ pc[j] \in Resting /\ starts < MaxStarts
  /\ starts' = starts + 1
  /\ pc' = [pc EXCEPT ![j] = "commit_wait"] /\ Enter(j, "ostreecommit")
  /\ \E t \in Trees : tree' = [tree EXCEPT ![j] = t]
  /\ ota' = [ota EXCEPT ![j] = NoTree]
  /\ UNCHANGED <<manifest, treeOf, head, ostreeLock, uploaded, signVars, faults>>

\* bitbake runs the failed task again; the tasks before it have their stamps.
Resume(j) ==
  /\ pc[j] = "failed" /\ starts < MaxStarts
  /\ starts' = starts + 1
  /\ pc' = [pc EXCEPT ![j] = FirstOf(task[j])]
  /\ UNCHANGED <<task, ostreeVars, signVars, faults>>

\* bitbake takes do_image_ostreecommit's or do_image_ostreepush's lock file.
LockRepo(j) ==
  /\ ostreeLock[Repo[j]] = Free
  /\ ostreeLock' = [ostreeLock EXCEPT ![Repo[j]] = j]
  /\ Goto(j, "commit_wait", "commit") \/ Goto(j, "push_wait", "push")
  /\ UNCHANGED <<task, tree, manifest, ota, treeOf, head, uploaded, signVars, bounds>>

\* --skip-if-unchanged: a tree equal to the head's yields the head.
Unchanged(j) == HeadOf(j) # NoHash /\ treeOf[HeadOf(j)] = tree[j]

Commit(j) ==
  /\ Goto(j, "commit", "manifest")
  /\ \/ Unchanged(j) /\ UNCHANGED <<treeOf, head>>
     \/ /\ ~Unchanged(j)
        /\ \E h \in Hashes :
             /\ treeOf[h] = NoTree
             /\ treeOf' = [treeOf EXCEPT ![h] = tree[j]]
             /\ head' = [head EXCEPT ![<<Repo[j], Branch[j]>>] = h]
  /\ UNCHANGED <<task, tree, manifest, ota, ostreeLock, uploaded, signVars, bounds>>

\* $ostree_target_hash is what commit printed: the head, as the lock is still held.
WriteManifest(j) ==
  /\ Goto(j, "manifest", IF Creds[j] = "unset" THEN "done" ELSE "push_wait")
  /\ Enter(j, "ostreepush")
  /\ manifest' = [manifest EXCEPT ![j] = HeadOf(j)]
  /\ ostreeLock' = [ostreeLock EXCEPT ![Repo[j]] = Free]
  /\ UNCHANGED <<tree, ota, treeOf, head, uploaded, signVars, bounds>>

\* The hash the ota task pulls from OSTREE_REPO and deploys; it takes no lock.
OtaHashByBranch(j) == HeadOf(j)
OtaHash(j) == manifest[j]

BuildOta(j) ==
  /\ AfterCommit(j) /\ ota[j] = NoTree
  /\ ota' = [ota EXCEPT ![j] = treeOf[OtaHash(j)]]
  /\ UNCHANGED <<pc, task, tree, manifest, treeOf, head, ostreeLock, uploaded, signVars, bounds>>

GaragePushBestEffort(j) ==
  /\ Goto(j, "push", "sign_wait") /\ Enter(j, "garagesign")
  /\ uploaded' \in {uploaded, uploaded \union {HeadOf(j)}}
  /\ ostreeLock' = [ostreeLock EXCEPT ![Repo[j]] = Free]
  /\ UNCHANGED <<tree, manifest, ota, treeOf, head, signVars, bounds>>

\* garage-push --ref=OSTREE_BRANCHNAME sends the branch's head.
GaragePush(j) ==
  /\ Goto(j, "push", "sign_wait") /\ Enter(j, "garagesign")
  /\ uploaded' = IF Creds[j] = "missing" THEN uploaded ELSE uploaded \union {HeadOf(j)}
  /\ ostreeLock' = [ostreeLock EXCEPT ![Repo[j]] = Free]
  /\ UNCHANGED <<tree, manifest, ota, treeOf, head, signVars, bounds>>

-----------------------------------------------------------------------------
LockSignUnlocked(j) ==
  /\ signLock' = [signLock EXCEPT ![SignLock[j]] = j]
  /\ Goto(j, "sign_wait", "clean")
  /\ UNCHANGED <<task, ostreeVars, signDir, fails, pushed, registry, inflight, startVer, lost, bounds>>

LockSign(j) ==
  /\ signLock[SignLock[j]] = Free
  /\ signLock' = [signLock EXCEPT ![SignLock[j]] = j]
  /\ Goto(j, "sign_wait", "clean")
  /\ UNCHANGED <<task, ostreeVars, signDir, fails, pushed, registry, inflight, startVer, lost, bounds>>

\* Credentials without offline signing: garagesign, and after it garagecheck, exit 0.
SkipSign(j) ==
  /\ Creds[j] # "offline"
  /\ Goto(j, "clean", "done") /\ Enter(j, "garagecheck")
  /\ signLock' = [signLock EXCEPT ![SignLock[j]] = Free]
  /\ UNCHANGED <<ostreeVars, signDir, fails, pushed, registry, inflight, startVer, lost, bounds>>

RemoveDir(j) ==
  /\ Creds[j] = "offline"
  /\ Goto(j, "clean", "init")
  /\ signDir' = [signDir EXCEPT ![SignRepo[j]] = NoDir]
  /\ UNCHANGED <<task, ostreeVars, signLock, fails, pushed, registry, inflight, startVer, lost, bounds>>

\* garage-sign init, then the checks and settings up to the push loop.
InitDir(j) ==
  /\ j \notin Misconfigured
  /\ Goto(j, "init", IF PushRetries = 0 THEN "cleanup" ELSE "pull")
  /\ signDir' = [signDir EXCEPT ![SignRepo[j]].exists = TRUE]
  /\ fails' = [fails EXCEPT ![j] = 0] /\ pushed' = [pushed EXCEPT ![j] = FALSE]
  /\ startVer' = [startVer EXCEPT ![j] = registry.version] /\ lost' = [lost EXCEPT ![j] = 0]
  /\ UNCHANGED <<task, ostreeVars, signLock, registry, inflight, bounds>>

AbandonKeepsLocks(j) ==
  pc' = [pc EXCEPT ![j] = "failed"] /\ UNCHANGED <<ostreeLock, signLock>>

\* A task that ends with an error: bbfatal, a failing command under set -e, or a kill.
Abandon(j) ==
  /\ pc' = [pc EXCEPT ![j] = "failed"]
  /\ ostreeLock' = [ostreeLock EXCEPT ![Repo[j]] = IF @ = j THEN Free ELSE @]
  /\ signLock' = [signLock EXCEPT ![SignLock[j]] = IF @ = j THEN Free ELSE @]

\* bbfatal of two expiry settings: the initialised directory stays.
RejectExpiry(j) ==
  /\ pc[j] = "init" /\ j \in Misconfigured
  /\ signDir' = [signDir EXCEPT ![SignRepo[j]].exists = TRUE]
  /\ Abandon(j)
  /\ UNCHANGED <<task, tree, manifest, ota, treeOf, head, uploaded, fails, pushed, registry,
                 inflight, startVer, lost, bounds>>

Entry(j) == [name |-> Name[j], hash |-> manifest[j],
             version |-> IF Override[j] = NoHash THEN manifest[j] ELSE Override[j]]

Registry == INSTANCE TargetRegistry WITH targets <- registry.targets

InDir(j) == signDir[SignRepo[j]].exists

PullOnce(j) ==
  /\ Goto(j, "pull", "add") /\ InDir(j)
  /\ signDir' = [signDir EXCEPT ![SignRepo[j]].base = registry.version,
                                ![SignRepo[j]].unsigned =
                                   IF fails[j] = 0 THEN registry.targets ELSE @]
  /\ UNCHANGED <<task, ostreeVars, signLock, fails, pushed, registry, inflight, startVer, lost, bounds>>

\* targets pull: the unsigned role becomes the backend's, remembering its version.
Pull(j) ==
  /\ Goto(j, "pull", "add") /\ InDir(j)
  /\ signDir' = [signDir EXCEPT ![SignRepo[j]].base = registry.version,
                                ![SignRepo[j]].unsigned = registry.targets]
  /\ UNCHANGED <<task, ostreeVars, signLock, fails, pushed, registry, inflight, startVer, lost, bounds>>

Add(j) ==
  /\ Goto(j, "add", "sign") /\ InDir(j)
  /\ signDir' = [signDir EXCEPT ![SignRepo[j]].unsigned = Registry!Put(@, Entry(j))]
  /\ UNCHANGED <<task, ostreeVars, signLock, fails, pushed, registry, inflight, startVer, lost, bounds>>

Sign(j) ==
  /\ Goto(j, "sign", "push_targets") /\ InDir(j)
  /\ signDir' = [signDir EXCEPT ![SignRepo[j]].signed = signDir[SignRepo[j]].unsigned]
  /\ UNCHANGED <<task, ostreeVars, signLock, fails, pushed, registry, inflight, startVer, lost, bounds>>

\* The backend takes a role only from a client that has seen its present version.
Accepts(base) == base = registry.version

Store(targets) == registry' = [version |-> registry.version + 1, targets |-> targets]

PushAccepted(j) ==
  /\ Goto(j, "push_targets", "cleanup") /\ InDir(j)
  /\ Accepts(signDir[SignRepo[j]].base) /\ Store(signDir[SignRepo[j]].signed)
  /\ pushed' = [pushed EXCEPT ![j] = TRUE]
  /\ UNCHANGED <<task, ostreeVars, signLock, signDir, fails, inflight, startVer, lost, bounds>>

AfterFailureNoPull(j) == IF fails[j] + 1 >= PushRetries THEN "cleanup" ELSE "add"

\* A failed push: pull again, unless the loop over seq GARAGE_PUSH_RETRIES is over.
AfterFailure(j) == IF fails[j] + 1 >= PushRetries THEN "cleanup" ELSE "pull"

PushFails(j) ==
  /\ Goto(j, "push_targets", AfterFailure(j)) /\ InDir(j)
  /\ fails' = [fails EXCEPT ![j] = @ + 1]
  /\ UNCHANGED <<task, ostreeVars, signLock, signDir, pushed, registry, startVer, starts>>

PushRefused(j) ==
  /\ ~Accepts(signDir[SignRepo[j]].base)
  /\ PushFails(j)
  /\ UNCHANGED <<inflight, lost, faults>>

\* The reply does not come; the request may still arrive at any later time, or never.
PushLost(j) ==
  /\ faults < MaxFaults /\ faults' = faults + 1
  /\ PushFails(j)
  /\ lost' = [lost EXCEPT ![j] = @ + 1]
  /\ inflight' = inflight \union {[base |-> signDir[SignRepo[j]].base, entry |-> Entry(j),
                                   targets |-> signDir[SignRepo[j]].signed]}

Deliver ==
  /\ \E r \in inflight : /\ inflight' = inflight \ {r}
                         /\ IF Accepts(r.base) THEN Store(r.targets) ELSE UNCHANGED registry
  /\ UNCHANGED <<pc, task, ostreeVars, signLock, signDir, fails, pushed, startVer, lost, bounds>>

CleanupIgnoresFailure(j) ==
  /\ signDir' = [signDir EXCEPT ![SignRepo[j]] = NoDir]
  /\ signLock' = [signLock EXCEPT ![SignLock[j]] = Free]
  /\ Goto(j, "cleanup", "check") /\ Enter(j, "garagecheck")
  /\ UNCHANGED <<ostreeVars, fails, pushed, registry, inflight, startVer, lost, bounds>>

\* rm -rf GARAGE_SIGN_REPO, then bbfatal unless the push succeeded.
Cleanup(j) ==
  /\ pc[j] = "cleanup"
  /\ signDir' = [signDir EXCEPT ![SignRepo[j]] = NoDir]
  /\ signLock' = [signLock EXCEPT ![SignLock[j]] = Free]
  /\ IF pushed[j] THEN Goto(j, "cleanup", "check") /\ Enter(j, "garagecheck")
                  ELSE Goto(j, "cleanup", "failed") /\ UNCHANGED task
  /\ UNCHANGED <<ostreeVars, fails, pushed, registry, inflight, startVer, lost, bounds>>

CheckOfHead(j) ==
  /\ Goto(j, "check", IF HeadOf(j) \in uploaded THEN "done" ELSE "failed")
  /\ UNCHANGED <<task, ostreeVars, signVars, bounds>>

\* garage-check --ref=<own hash>
Check(j) ==
  /\ Goto(j, "check", IF manifest[j] \in uploaded THEN "done" ELSE "failed")
  /\ UNCHANGED <<task, ostreeVars, signVars, bounds>>

\* A kill, or a failing command: no Java before the directory is removed, a failing ostree,
\* garage-push, garage-sign or GARAGE_CUSTOMIZE_TARGET.
Stop(j) ==
  /\ pc[j] \notin Resting /\ faults < MaxFaults
  /\ faults' = faults + 1
  /\ Abandon(j)
  /\ UNCHANGED <<task, tree, manifest, ota, treeOf, head, uploaded, signDir, fails, pushed,
                 registry, inflight, startVer, lost, starts>>

Step(j) ==
  \/ LockRepo(j) \/ Commit(j) \/ WriteManifest(j) \/ GaragePush(j)
  \/ LockSign(j) \/ SkipSign(j) \/ RemoveDir(j) \/ InitDir(j) \/ RejectExpiry(j)
  \/ Pull(j) \/ Add(j) \/ Sign(j) \/ PushAccepted(j) \/ PushRefused(j)
  \/ Cleanup(j) \/ Check(j)

Next == \/ Deliver
        \/ \E j \in Jobs : \/ StartBuild(j) \/ Resume(j) \/ BuildOta(j)
                           \/ Step(j) \/ PushLost(j) \/ Stop(j)

Spec == Init /\ [][Next]_vars

\* bitbake runs every task it has started to its end and hands a free lock to a waiter; a
\* waiter competes with finitely many others, so weak fairness of each job's steps is enough.
FairSpec == Spec /\ \A j \in Jobs : WF_vars(Step(j))

-----------------------------------------------------------------------------
\* OTA-1866 (the comment on do_image_garagesign[lockfiles]): while a job works in its signing
\* directory no other job removes it or works in it, so garage-sign always finds the
\* directory, and the role a job pushes is one that holds its own target.
SignDirPrivate ==
  /\ \A i, j \in Jobs :
       i # j /\ pc[i] \in SignPCs /\ pc[j] \in SignPCs => SignRepo[i] # SignRepo[j]
  /\ \A j \in Jobs :
       /\ pc[j] \in LoopPCs => InDir(j)
       /\ pc[j] = "push_targets" => Entry(j) \in signDir[SignRepo[j]].signed

\* The ota image deploys the job's own root filesystem, whatever other builds commit to the
\* same OSTREE_REPO and branch between the two tasks (image_types_ota.bbclass, "Use OSTree
\* hash to avoid any potential race conditions").
OtaIsOwnTree == \A j \in Jobs : ota[j] # NoTree => ota[j] = tree[j]

\* Once garagesign succeeded, the target it published stays in the backend's targets role:
\* no push of another build machine, retried, late or built on an older role, drops it.
SignedIsRegistered ==
  \A j \in Jobs : task[j] = "garagecheck" /\ Creds[j] = "offline" /\ Override[j] = NoHash
                  => Entry(j) \in registry.targets

\* A build that ends well with signing credentials has published the commit of its own
\* root filesystem: commit in the object store, target naming it in the targets role.
DoneIsPublished ==
  \A j \in Jobs : pc[j] = "done" /\ Creds[j] = "offline" /\ Override[j] = NoHash
                  => /\ treeOf[manifest[j]] = tree[j]
                     /\ manifest[j] \in uploaded
                     /\ Entry(j) \in registry.targets

\* garage-push sends the head of the branch, not the job's commit.  When no two jobs share a
\* branch of a repository this is the same: what garagesign is about to publish is uploaded.
SignedIsUploaded ==
  \A j \in Jobs : pc[j] \in SignPCs /\ Creds[j] = "offline" => manifest[j] \in uploaded

\* The retry loop pulls again after each failed push, so every failure is explained by a
\* role another machine stored since, or by a reply that was lost: a job reports "Couldn't
\* push to garage repository" only after GARAGE_PUSH_RETRIES such events.
RetryExplained ==
  \A j \in Jobs : pc[j] \in LoopPCs \union {"cleanup"} =>
    /\ fails[j] <= (registry.version - startVer[j]) + lost[j]
    /\ pc[j] = "cleanup" /\ ~pushed[j] => fails[j] = PushRetries

\* Seen from the backend, pull, add, sign and push with all their retries are one atomic put.
PublishesAtomically == Registry!Spec

\* A lock is held by a task at work in its section, never by one that waits for the other
\* lock and never by one that was killed: however many images wait for ostree.lock and
\* garagesign.lock, they cannot wait for each other.
HoldersWork ==
  \A j \in Jobs :
    /\ \A r \in Repos : ostreeLock[r] = j => r = Repo[j] /\ pc[j] \in CommitPCs \union {"push"}
    /\ \A l \in SignLocks : signLock[l] = j => l = SignLock[j] /\ pc[j] \in SignPCs

\* Every task that was started ends: no job waits for a lock for ever or retries for ever.
TasksEnd == \A j \in Jobs : pc[j] \notin Resting ~> pc[j] \in Resting
=============================================================================
