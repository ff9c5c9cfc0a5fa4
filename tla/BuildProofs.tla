----------------------------- MODULE BuildProofs -----------------------------
(***************************************************************************)
(* Theorems about the four parts of the build of an image: the listing of  *)
(* its recipes, for any graph; the keys, for any images and builds of one  *)
(* machine; the root file system and the disk, for any directories and any *)
(* layouts.                                                                *)
(***************************************************************************)
EXTENDS Build, SequenceTheorems, FiniteSetTheorems, WellFoundedInduction, TLAPS

\* A behaviour of the parts is one of each.
LEMMA Parts ==
  BuildSpec => /\ Spec
               /\ Find!Init /\ [][Find!Next]_(Find!vars)
               /\ Rootfs!Spec /\ Wic!Spec
<1>1. BuildInit => Init /\ Find!Init /\ Rootfs!Init /\ Wic!Init
  BY DEF BuildInit
<1>2. [BuildNext]_<<part_of, vars, findVars, rootfsVars, wicVars>> =>
        /\ [Next]_vars /\ [Find!Next]_(Find!vars)
        /\ [Rootfs!Next]_(Rootfs!vars) /\ [Wic!Next]_(Wic!vars)
  BY DEF BuildNext, vars, findVars, rootfsVars, wicVars, Find!vars, Rootfs!vars, Wic!vars,
         Wic!wicVars, Wic!buildVars
<1> QED
  BY <1>1, <1>2, PTL DEF BuildSpec, Spec, Rootfs!Spec, Wic!Spec

-----------------------------------------------------------------------------
(* Part 1.  The keys.  Machines that share them lock each other out only if *)
(* they share the lock.                                                     *)

\* The lock is in the deploy directory of a machine: the proof is for one.
OneMachine == \A m, n \in Machines : m = n

Locked == {"look", "generate", "secret", "public", "unlock"}

\* The secret key is written first; where both files are, nobody writes; what was used is there.
Files ==
  /\ pubkey # NoFile => seckey # NoFile
  /\ pubkey \in Keys /\ seckey \in Keys => pubkey = seckey
  /\ Used => pubkey # NoFile
  /\ \A t \in Tasks :
       /\ pc[t] \in {"generate", "secret", "public"} => pubkey = NoFile
       /\ pc[t] \in {"secret", "public"} => pem[t] \in Keys
       /\ pc[t] = "public" => seckey \in {pem[t], Empty}
       /\ pc[t] \in {"unlock", "use", "done", "failed"} => pubkey # NoFile

\* What the tasks of this build took is what is there.
Taken ==
  \A t \in Tasks :
    pc[t] = "done" => IF Installs(t) THEN installed[Machine(t)] = pubkey ELSE signed[t] = seckey /\ seckey \in Keys

\* The inductive invariant.
KeysInv == TypeOK /\ (\A t \in Tasks : pc[t] \in Locked <=> t \in lock) /\ Files /\ Taken

LEMMA TaskTypes ==
  ASSUME NEW t \in Tasks
  PROVE  Machine(t) \in Machines /\ (Installs(t) => t = <<Machine(t), "do_install">>)
BY DEF Tasks, Machine, Installs

LEMMA OneHolder == ASSUME OneMachine, TypeOK, NEW t \in lock, NEW u \in lock PROVE t = u
BY TaskTypes DEF OneMachine, TypeOK

LEMMA KeysInit == ASSUME CfsAssumption PROVE Init => KeysInv
<1> SUFFICES ASSUME Init PROVE KeysInv
    OBVIOUS
<1>1. TypeOK
  BY DEF Init, TypeOK, CfsAssumption, Keys, NoFile, Empty
<1> QED
  BY <1>1 DEF Init, KeysInv, Files, Used, Taken, Locked, Keys

\* One step per action.
LEMMA KeysStep == ASSUME CfsAssumption, OneMachine PROVE KeysInv /\ [Next]_vars => KeysInv'
<1> SUFFICES ASSUME KeysInv, [Next]_vars PROVE KeysInv'
    OBVIOUS
<1>1. CASE UNCHANGED vars
  BY <1>1 DEF vars, KeysInv, TypeOK, Files, Used, Taken
<1>2. ASSUME NEW t \in Tasks, Acquire(t) PROVE KeysInv'
  <2>1. /\ pc' = [pc EXCEPT ![t] = "look"] /\ lock' = lock \union {t} /\ lock = {}
        /\ UNCHANGED <<seckey, pubkey, pem, installed, signed, next, builds>>
    BY <1>2, TaskTypes DEF Acquire, Goto, OneMachine, KeysInv, TypeOK
  <2> QED
    BY <2>1 DEF KeysInv, TypeOK, Files, Used, Taken, Locked
<1>3. ASSUME NEW t \in Tasks, gen_cfs_keys(t) PROVE KeysInv'
  <2>1. /\ pc' = [pc EXCEPT ![t] = IF pubkey # NoFile THEN "unlock" ELSE "generate"] /\ pc[t] = "look"
        /\ UNCHANGED <<seckey, pubkey, lock, pem, installed, signed, next, builds>>
    BY <1>3 DEF gen_cfs_keys, Goto, KeysInv, Files
  <2> QED
    BY <2>1 DEF KeysInv, TypeOK, Files, Used, Taken, Locked
<1>4. ASSUME NEW t \in Tasks, Generate(t) PROVE KeysInv'
  <2>0. /\ UNCHANGED <<lock, installed, signed, builds>>
        /\ pc[t] \in {"generate", "secret", "public"} /\ pubkey = NoFile
    BY <1>4 DEF Generate, gen_cfs_keys0, KeysInv, Files
  <2>1. \A u \in Tasks : pc[u] \in Locked => u = t
    BY <2>0, OneHolder DEF KeysInv, Locked
  <2>2. CASE pc[t] = "generate"
    <3>1. /\ pc' = [pc EXCEPT ![t] = "secret"] /\ pem' = [pem EXCEPT ![t] = next]
          /\ next' = next + 1 /\ UNCHANGED <<seckey, pubkey>>
      BY <1>4, <2>2 DEF Generate, gen_cfs_keys0, Goto
    <3>2. next' \in Keys /\ next \in Keys
      BY <3>1 DEF KeysInv, TypeOK, Keys, NoFile, Empty
    <3> QED
      BY <2>0, <2>1, <2>2, <3>1, <3>2 DEF KeysInv, TypeOK, Files, Used, Taken, Locked
  <2>3. CASE pc[t] = "secret"
    <3>1. /\ pc' = [pc EXCEPT ![t] = "public"] /\ seckey' \in {pem[t], Empty}
          /\ UNCHANGED <<pubkey, pem, next>>
      BY <1>4, <2>3 DEF Generate, gen_cfs_keys0, Goto
    <3>2. \A u \in Tasks : pc[u] # "done"
      BY <2>0 DEF KeysInv, Files
    <3>3. TypeOK'
      BY <2>0, <2>3, <3>1 DEF KeysInv, TypeOK, Files
    <3>4. Files'
      <4>1. \A u \in Tasks : u # t => pc'[u] = pc[u] /\ pc[u] \notin Locked
        BY <2>1, <3>1 DEF KeysInv, TypeOK
      <4>2. pem[t] \in Keys /\ ~Used'
        BY <2>0, <2>3, <3>1 DEF KeysInv, Files, Used
      <4> QED
        BY <2>0, <3>1, <4>1, <4>2 DEF KeysInv, TypeOK, Files, Locked, Keys, NoFile, Empty
    <3> QED
      BY <2>0, <2>3, <3>1, <3>2, <3>3, <3>4 DEF KeysInv, TypeOK, Taken, Locked
  <2>4. CASE pc[t] = "public"
    <3>1. /\ pc' = [pc EXCEPT ![t] = "unlock"] /\ pubkey' \in {pem[t], seckey}
          /\ UNCHANGED <<seckey, pem, next>>
      BY <1>4, <2>4 DEF Generate, gen_cfs_keys0, Goto
    <3>2. \A u \in Tasks : pc[u] # "done"
      BY <2>0 DEF KeysInv, Files
    <3>3. pem[t] \in Keys /\ seckey \in {pem[t], Empty} /\ pem[t] # NoFile /\ Empty # NoFile
      BY <2>4 DEF KeysInv, Files, Keys, NoFile, Empty
    <3>4. TypeOK'
      BY <2>0, <2>4, <3>1, <3>3 DEF KeysInv, TypeOK
    <3>5. Files'
      <4>1. \A u \in Tasks : u # t => pc'[u] = pc[u] /\ pc[u] \notin Locked
        BY <2>1, <3>1 DEF KeysInv, TypeOK
      <4>2. pubkey' # NoFile /\ seckey' # NoFile /\ (pubkey' \in Keys /\ seckey' \in Keys => pubkey' = seckey')
        BY <3>1, <3>3 DEF Keys
      <4> QED
        BY <2>0, <3>1, <4>1, <4>2 DEF KeysInv, TypeOK, Files, Locked
    <3> QED
      BY <2>0, <2>4, <3>1, <3>2, <3>4, <3>5 DEF KeysInv, TypeOK, Taken, Locked
  <2> QED
    BY <2>0, <2>2, <2>3, <2>4
<1>5. ASSUME NEW t \in Tasks, Release(t) PROVE KeysInv'
  <2>1. /\ pc' = [pc EXCEPT ![t] = "use"] /\ lock' = lock \ {t} /\ pc[t] = "unlock"
        /\ UNCHANGED <<seckey, pubkey, pem, installed, signed, next, builds>>
    BY <1>5 DEF Release, Goto
  <2> QED
    BY <2>1 DEF KeysInv, TypeOK, Files, Used, Taken, Locked
<1>6. ASSUME NEW t \in Tasks, Use(t) PROVE KeysInv'
  <2>0. /\ pc[t] = "use" /\ UNCHANGED <<seckey, pubkey, lock, pem, next, builds>>
    BY <1>6 DEF Use
  <2>1. CASE Installs(t)
    <3>1. /\ installed' = [installed EXCEPT ![Machine(t)] = pubkey] /\ UNCHANGED signed
          /\ pc' = [pc EXCEPT ![t] = "done"]
      BY <1>6, <2>1 DEF Use, Goto
    <3>2. \A u \in Tasks : Installs(u) => installed'[Machine(u)] = pubkey
      BY <3>1, TaskTypes DEF KeysInv, TypeOK, OneMachine
    <3>3. Taken'
      BY <2>0, <2>1, <3>1, <3>2 DEF KeysInv, TypeOK, Taken
    <3> QED
      BY <2>0, <3>1, <3>3, TaskTypes DEF KeysInv, TypeOK, Files, Used, Locked
  <2>2. CASE ~Installs(t)
    <3>1. /\ signed' = [signed EXCEPT ![t] = IF seckey = Empty THEN @ ELSE seckey] /\ UNCHANGED installed
          /\ pc' = [pc EXCEPT ![t] = IF seckey = Empty THEN "failed" ELSE "done"]
      BY <1>6, <2>2 DEF Use, Goto
    <3>2. seckey # NoFile /\ seckey \in Keys \union {Empty} /\ pubkey # NoFile
      BY <2>0 DEF KeysInv, Files, TypeOK
    <3>3. Taken'
      BY <2>0, <2>2, <3>1, <3>2 DEF KeysInv, TypeOK, Taken
    <3> QED
      BY <2>0, <3>1, <3>2, <3>3 DEF KeysInv, TypeOK, Files, Used, Locked
  <2> QED
    BY <2>1, <2>2
<1>7. CASE BuildAgain \/ Interrupted
  <2>1. /\ pc' = [t \in Tasks |-> "wait"] /\ lock' = {} /\ builds' \in 1 .. MaxBuilds
        /\ UNCHANGED <<pem, installed, signed, next>>
    BY <1>7 DEF BuildAgain, Interrupted, NewBuild, KeysInv, TypeOK, CfsAssumption
  <2>2. {seckey', pubkey'} \subseteq Keys \union {NoFile, Empty}
    BY <1>7 DEF BuildAgain, Interrupted, KeysInv, TypeOK
  <2>3. /\ pubkey' # NoFile => seckey' # NoFile
        /\ pubkey' \in Keys /\ seckey' \in Keys => pubkey' = seckey'
        /\ Used' => pubkey' # NoFile
    <3>1. CASE UNCHANGED <<seckey, pubkey>>
      BY <2>1, <3>1 DEF KeysInv, Files, Used
    <3>2. CASE (\E t \in Tasks : pc[t] = "secret") /\ seckey' = Empty /\ UNCHANGED pubkey
      BY <2>1, <3>2 DEF KeysInv, Files, Used, Keys, NoFile, Empty
    <3>3. CASE (\E t \in Tasks : pc[t] = "public") /\ pubkey' = Empty /\ UNCHANGED seckey
      BY <2>1, <3>3 DEF KeysInv, Files, Used, Keys, NoFile, Empty
    <3> QED
      BY <1>7, <3>1, <3>2, <3>3 DEF BuildAgain, Interrupted
  <2> QED
    BY <2>1, <2>2, <2>3 DEF KeysInv, TypeOK, Files, Used, Taken, Locked
<1>8. CASE Finished
  BY <1>1, <1>8 DEF Finished
<1> QED
  BY <1>1, <1>2, <1>3, <1>4, <1>5, <1>6, <1>7, <1>8 DEF Next

\* The invariant holds of every behaviour of one machine.
THEOREM KeysInvariant == ASSUME CfsAssumption, OneMachine PROVE Spec => []KeysInv
BY KeysInit, KeysStep, PTL DEF Spec

\* The images of a finished build verify under the key in the initial RAM disk, unless the public
\* key was cut short when it was written (gen_cfs_keys, do_install, do_image_ostreecommit).
THEOREM ImagesVerify == ASSUME OneMachine PROVE BuildSpec => []Verifies
<1>1. KeysInv => Verifies
  <2> SUFFICES ASSUME KeysInv, Built, pubkey # Empty, NEW t \in Tasks, ~Installs(t)
               PROVE  signed[t] = installed[Machine(t)] /\ signed[t] \in Keys
    BY DEF Verifies
  <2> DEFINE i == <<Machine(t), "do_install">>
  <2>1. i \in Tasks /\ Installs(i) /\ Machine(i) = Machine(t)
    BY DEF Tasks, Machine, Installs
  <2>2. installed[Machine(t)] = pubkey
    BY <2>1 DEF KeysInv, Taken, Built
  <2>3. signed[t] = seckey
    BY DEF KeysInv, Taken, Built
  <2>4. pubkey = seckey /\ seckey \in Keys
    BY <2>1 DEF KeysInv, TypeOK, Files, Taken, Built
  <2> QED
    BY <2>2, <2>3, <2>4
<1> QED
  BY <1>1, KeysAssumption, KeysInvariant, Parts, PTL

\* Keys that went into an image of this or an earlier build are never replaced ("already exists;
\* skipping generation" of gen_cfs_keys).
THEOREM KeysAreKept == ASSUME OneMachine PROVE BuildSpec => KeysStay
<1>1. KeysInv /\ [Next]_vars => [Used => UNCHANGED <<seckey, pubkey>>]_vars
  <2> SUFFICES ASSUME KeysInv, Next, Used PROVE UNCHANGED <<seckey, pubkey>>
    OBVIOUS
  <2>1. \A u \in Tasks : pc[u] \notin {"generate", "secret", "public"}
    BY DEF KeysInv, Files
  <2> QED
    BY <2>1 DEF Next, Acquire, gen_cfs_keys, Generate, gen_cfs_keys0, Release, Use, BuildAgain,
                Interrupted, Finished, vars
<1> QED
  BY <1>1, KeysAssumption, KeysInvariant, Parts, PTL DEF Spec, KeysStay

-----------------------------------------------------------------------------
(* Part 2.  The root file system.                                          *)

\* How far do_image_ostree is: the directories before the present step have been replaced.
Linked(p) == tree[p] = "link" /\ p \in tmpfiles \union {"home"}
Replaced ==
  /\ at \in Nat /\ (status \in {"ota", "done"} => at > Len(Rootfs!Steps))
  /\ \A i \in 1 .. Len(Moved) : Len(<<"var/lib", "var/cache", "var">>) + i < at => Linked(Moved[i])

\* Data that is no longer in the tree has been reported, also by a task that failed.
DataInv ==
  /\ status \in {"ostree", "failed", "ota", "done"}
  /\ \A p \in Rootfs!Paths : rootfs[p] = "data" => p \in reported \/ tree[p] = "data"
  /\ status = "failed" => reported # {}

RootfsInv ==
  /\ rootfs \in [Rootfs!Paths -> {"absent", "empty", "data", "link"}]
  /\ tree \in [Rootfs!Paths -> {"absent", "empty", "data", "link"}]
  /\ reported \subseteq Rootfs!Paths
  /\ rootfs["home"] \in {"empty", "data"}
  /\ status = "done" => var = {p \in {"var/sota", "var/local", "home"} : rootfs[p] \in {"empty", "data"}}
  /\ Replaced /\ DataInv

LEMMA StepsOf ==
  /\ Len(Rootfs!Steps) = 3 + Len(Moved) /\ Len(Moved) \in Nat
  /\ Len(<<"var/lib", "var/cache", "var">>) = 3
  /\ \A i \in 1 .. Len(Moved) : Rootfs!Steps[3 + i] = Moved[i] /\ Moved[i] \in ToSet(Moved)
  /\ \A i \in 1 .. 3 : Rootfs!Steps[i] \in {"var/lib", "var/cache", "var"}
  /\ ToSet(Moved) = {Moved[i] : i \in 1 .. Len(Moved)}
<1>1. Moved \in Seq(ToSet(Moved))
  BY TreeAssumption DEF Rootfs!RootfsAssumption, Rootfs!ToSet, ToSet
<1> DEFINE first == <<"var/lib", "var/cache", "var">>
           S == ToSet(Moved) \union {"var/lib", "var/cache", "var"}
<1>2. first \in Seq(S) /\ Len(first) = 3
  OBVIOUS
<1>3. \A i \in 1 .. 3 : first[i] \in {"var/lib", "var/cache", "var"}
  OBVIOUS
<1>4. Moved \in Seq(S) /\ Len(Moved) \in Nat /\ DOMAIN Moved = 1 .. Len(Moved)
  BY <1>1, LenProperties
<1> HIDE DEF first, S
<1>5. /\ Len(first \o Moved) = 3 + Len(Moved)
      /\ \A i \in 1 .. 3 + Len(Moved) : (first \o Moved)[i] = IF i <= 3 THEN first[i] ELSE Moved[i - 3]
  <2>1. /\ Len(first \o Moved) = Len(first) + Len(Moved)
        /\ \A i \in 1 .. Len(first) + Len(Moved) :
             (first \o Moved)[i] = IF i <= Len(first) THEN first[i] ELSE Moved[i - Len(first)]
    BY <1>2, <1>4, ConcatProperties, Zenon
  <2> QED
    BY <1>2, <2>1, Zenon
<1>6. Rootfs!Steps = first \o Moved
  BY DEF Rootfs!Steps, first
<1>7. \A i \in 1 .. Len(Moved) : Rootfs!Steps[3 + i] = Moved[i]
  BY <1>4, <1>5, <1>6
<1>8. \A i \in 1 .. 3 : Rootfs!Steps[i] \in {"var/lib", "var/cache", "var"}
  BY <1>3, <1>4, <1>5, <1>6
<1> QED
  BY <1>2, <1>4, <1>5, <1>6, <1>7, <1>8 DEF ToSet, first

LEMMA PathsOf ==
  /\ {"var/lib", "var/cache", "var/local", "var/sota"} \subseteq Rootfs!Paths
  /\ ToSet(Moved) \subseteq Rootfs!Paths /\ "home" \in ToSet(Moved)
  /\ \A p \in {"var/lib", "var/cache", "var"} : p \notin ToSet(Moved)
BY TreeAssumption DEF Rootfs!RootfsAssumption, Rootfs!Paths, Rootfs!Vars, Rootfs!ToSet, ToSet

LEMMA RootfsInit == Rootfs!Init => RootfsInv
<1> SUFFICES ASSUME Rootfs!Init PROVE RootfsInv
    OBVIOUS
<1>1. at = 1 /\ status = "ostree" /\ tree = rootfs /\ reported = {}
  BY DEF Rootfs!Init
<1>2. Replaced
  BY <1>1, StepsOf DEF Replaced
<1> QED
  BY <1>1, <1>2 DEF Rootfs!Init, RootfsInv, DataInv

\* One step per action.
LEMMA RootfsStep == RootfsInv /\ [Rootfs!Next]_(Rootfs!vars) => RootfsInv'
<1> SUFFICES ASSUME RootfsInv, [Rootfs!Next]_(Rootfs!vars) PROVE RootfsInv'
    OBVIOUS
<1>1. CASE UNCHANGED Rootfs!vars
  BY <1>1 DEF Rootfs!vars, RootfsInv, Replaced, Linked, DataInv
<1>2. ASSUME NEW p \in Rootfs!Paths, Rootfs!HelperFails(p) PROVE RootfsInv'
  <2>1. /\ status' = "failed" /\ status = "ostree" /\ reported' = reported \union {p}
        /\ UNCHANGED <<rootfs, tree, tmpfiles, at, var>>
    BY <1>2 DEF Rootfs!HelperFails, Rootfs!Reports, Rootfs!Step
  <2> QED
    BY <2>1 DEF RootfsInv, Replaced, Linked, DataInv
<1>3. ASSUME NEW p \in {"var/lib", "var/cache"}, Rootfs!Clear(p) PROVE RootfsInv'
  <2>1. /\ status = "ostree" /\ status' = status /\ at' = at + 1 /\ Rootfs!Steps[at] = p
        /\ reported' = IF tree[p] = "data" THEN reported \union {p} ELSE reported
        /\ tree' \in {tree, [tree EXCEPT ![p] = "absent"]}
        /\ UNCHANGED <<rootfs, tmpfiles, var>>
    BY <1>3 DEF Rootfs!Clear, Rootfs!Helper, Rootfs!Reports, Rootfs!Data, Rootfs!Step
  <2>2. p \in Rootfs!Paths /\ p \notin ToSet(Moved)
    BY PathsOf
  <2>3. \A i \in 1 .. Len(Moved) : 3 + i # at
    BY <2>1, <2>2, StepsOf
  <2>4. \A q \in ToSet(Moved) : tree'[q] = tree[q]
    BY <2>1, <2>2, PathsOf DEF RootfsInv
  <2>5. \A q \in ToSet(Moved) : Linked(q) => Linked(q)'
    BY <2>1, <2>4 DEF Linked
  <2>6. Replaced'
    BY <2>1, <2>3, <2>5, StepsOf DEF RootfsInv, Replaced
  <2> QED
    BY <2>1, <2>2, <2>6 DEF RootfsInv, DataInv
<1>4. CASE Rootfs!ClearVar
  <2>1. /\ status = "ostree" /\ at' = at + 1 /\ Rootfs!Steps[at] = "var"
        /\ UNCHANGED <<rootfs, tree, tmpfiles, reported, status, var>>
    BY <1>4 DEF Rootfs!ClearVar, Rootfs!Step
  <2>2. \A i \in 1 .. Len(Moved) : 3 + i # at
    BY <2>1, StepsOf, PathsOf
  <2> QED
    BY <2>1, <2>2, StepsOf DEF RootfsInv, Replaced, Linked, DataInv
<1>5. ASSUME NEW p \in ToSet(Moved), Rootfs!Move(p) PROVE RootfsInv'
  <2>1. /\ status = "ostree" /\ status' = status /\ at' = at + 1 /\ Rootfs!Steps[at] = p
        /\ reported' = IF tree[p] = "data" THEN reported \union {p} ELSE reported
        /\ tree' = [tree EXCEPT ![p] = "link"] /\ tmpfiles' = tmpfiles \union ({p} \ {"home"})
        /\ UNCHANGED <<rootfs, var>>
    BY <1>5 DEF Rootfs!Move, Rootfs!Helper, Rootfs!Reports, Rootfs!Data, Rootfs!Step
  <2>2. p \in Rootfs!Paths
    BY PathsOf
  <2>3. Linked(p)'
    BY <2>1, <2>2 DEF Linked, RootfsInv
  <2>4. \A q \in ToSet(Moved) : Linked(q) => Linked(q)'
    BY <2>1, <2>2, PathsOf DEF Linked, RootfsInv
  <2>5. ASSUME NEW i \in 1 .. Len(Moved), 3 + i < at' PROVE Linked(Moved[i])'
    <3>1. CASE 3 + i < at
      BY <2>4, <3>1, StepsOf DEF RootfsInv, Replaced
    <3>2. CASE 3 + i = at
      BY <2>1, <2>3, <3>2, StepsOf
    <3> QED
      BY <2>1, <2>5, <3>1, <3>2, StepsOf DEF RootfsInv, Replaced
  <2>6. Replaced'
    BY <2>1, <2>5, StepsOf DEF RootfsInv, Replaced
  <2> QED
    BY <2>1, <2>2, <2>6 DEF RootfsInv, DataInv
<1>6. CASE Rootfs!OstreeEnds
  BY <1>6 DEF Rootfs!OstreeEnds, RootfsInv, Replaced, Linked, DataInv
<1>7. CASE Rootfs!IMAGE_CMD_ota
  BY <1>7 DEF Rootfs!IMAGE_CMD_ota, RootfsInv, Replaced, Linked, DataInv
<1>8. CASE Rootfs!Retry
  <2>1. PICK p \in reported : rootfs' = [rootfs EXCEPT ![p] = "empty"]
    BY <1>8 DEF Rootfs!Retry
  <2>2. status' = "ostree" /\ at' = 1 /\ tree' = rootfs' /\ reported' = {} /\ tmpfiles' = {}
    BY <1>8 DEF Rootfs!Retry
  <2>3. rootfs' \in [Rootfs!Paths -> {"absent", "empty", "data", "link"}] /\ rootfs'["home"] \in {"empty", "data"}
    BY <2>1, PathsOf DEF RootfsInv
  <2>4. Replaced'
    BY <2>2, StepsOf DEF Replaced
  <2> QED
    BY <2>2, <2>3, <2>4 DEF RootfsInv, DataInv
<1>9. CASE Rootfs!Finished
  BY <1>1, <1>9 DEF Rootfs!Finished
<1> QED
  BY <1>1, <1>2, <1>3, <1>4, <1>5, <1>6, <1>7, <1>8, <1>9 DEF Rootfs!Next, Rootfs!ToSet, ToSet

THEOREM RootfsInvariant == BuildSpec => []RootfsInv
BY RootfsInit, RootfsStep, Parts, PTL DEF Rootfs!Spec

\* Data that OSTree does not keep is named in the log, by any number of attempts, and a failed task has
\* named what it failed for, whatever directories are moved (ostree_rmdir_helper).
THEOREM LossIsReported == BuildSpec => []LostReported
<1>1. RootfsInv => LostReported
  BY DEF RootfsInv, DataInv, LostReported, Rootfs!LostReported
<1> QED
  BY <1>1, RootfsInvariant, PTL

\* Each link into /var finds its directory at the first boot, whatever directories are moved
\* (do_image_ostree, do_image_ota).
THEOREM LinksAreWhole == BuildSpec => []LinksResolve
<1>1. RootfsInv => LinksResolve
  <2> SUFFICES ASSUME RootfsInv, status = "done", NEW p \in ToSet(Moved)
               PROVE  tree[p] = "link" /\ p \in tmpfiles \union var
    BY DEF LinksResolve, Rootfs!LinksResolve, Rootfs!ToSet, ToSet
  <2>1. PICK i \in 1 .. Len(Moved) : p = Moved[i]
    BY StepsOf
  <2>2. 3 + i < at
    BY StepsOf DEF RootfsInv, Replaced
  <2>3. Linked(p) /\ "home" \in var
    BY <2>1, <2>2, StepsOf DEF RootfsInv, Replaced
  <2> QED
    BY <2>3 DEF Linked
<1> QED
  BY <1>1, RootfsInvariant, PTL

-----------------------------------------------------------------------------
(* Part 3.  The disk.                                                      *)

Staging == {"boot_files", "prepare", "make"}
Wicking == {"configure"} \union Staging
Given == {"wic", "complete"} \union Wicking

\* When wic runs, the boot directory and the file system it is given are of the present generation.
GenInv ==
  /\ gen \in Nat /\ deployed \in Nat /\ IMGDEPLOYDIR \in Nat
  /\ wicPc \in {"ota", "ext4"} \union Given => gen # 0
  /\ wicPc \in {"ext4"} \union Given => deployed = gen
  /\ wicPc \in Given => IMGDEPLOYDIR = gen

\* What wic writes through its links into the boot directory is what every run writes there.
OtaBootInv ==
  /\ ~Wic!SystemdBoot(setup) => DOMAIN OTA_BOOT = {}
  /\ Wic!SystemdBoot(setup) /\ deployed # 0 =>
       /\ DOMAIN OTA_BOOT = {"entries", "loader.conf", "boot.efi"}
       /\ OTA_BOOT["entries"] = <<"ota", deployed>>
       /\ Wic!Binary(setup) \notin setup.kernel_dir => OTA_BOOT["boot.efi"] = <<"rootfs", deployed>>
  /\ wicPc \in Wicking => linked \subseteq DOMAIN OTA_BOOT

\* What a partition is asked to hold: its files, those of the loader besides its binary, the whole.
Asked(i) == IF Wic!HasFiles(setup.IMAGE_EFI_BOOT_FILES) THEN Wic!TasksFor(setup, setup.parts[i]) ELSE {}
Loads == IF Wic!SystemdBoot(setup) THEN {"entries", "loader.conf"} ELSE {"grub.cfg"}
Target(i) ==
  LET p == setup.parts[i]
  IN Wic!Content(setup, IF Wic!Ignored(setup, p) THEN {} ELSE Wic!Wanted(setup, p), deployed)

Dsts(tasks) == {t.dst : t \in tasks}
Waiting == IF Wic!HasFiles(setup.IMAGE_EFI_BOOT_FILES) THEN install_task ELSE {}

\* A file of the staging directory is what the present partition wants; its loader may still come.
Right(f) ==
  IF f = "boot.efi"
  THEN Wic!Binary(setup) \notin setup.kernel_dir => hdd[f] = <<"rootfs", deployed>>
  ELSE hdd[f] = Target(num)[f]

\* Until an ESP is made the staging directory holds files of the present partition only, and those that
\* are missing wait to be installed.
OwnFilesOnly ==
  /\ wicPc = "configure" => DOMAIN hdd = {} /\ linked = {}
  /\ wicPc \in Staging => \A f \in DOMAIN hdd : Right(f)
  /\ wicPc = "boot_files" => DOMAIN hdd \ {"boot.efi"} = Loads
  /\ wicPc = "prepare" =>
       Waiting \subseteq Asked(num) /\ (DOMAIN hdd \ {"boot.efi"}) \union Dsts(Waiting) = Loads \union Dsts(Asked(num))
  /\ wicPc = "make" /\ "boot.efi" \in DOMAIN hdd => hdd = Target(num)

StagedInv ==
  /\ wicPc \in Staging =>
       num <= Len(setup.parts) /\ setup.loader \in {"grub-efi", "systemd-boot"} /\ Wic!ESP(Wic!part)
  /\ wicPc \in Wicking => IsFiniteSet(DOMAIN hdd)
  /\ boot_img = Wic!Empty => OwnFilesOnly

\* A partition that is prepared from boot.img has the size it asks for.
Sized(i) ==
  /\ size[i] \in Nat
  /\ size[i] >= setup.parts[i].fixed /\ size[i] >= setup.parts[i].size
  /\ size[i] >= FileBlocks * Cardinality(DOMAIN boot_img) + BOOTDD_EXTRA_SPACE

Prepared(i) ==
  IF Wic!ESP(setup.parts[i])
  THEN source[i] = 0 /\ boot_img # Wic!Empty /\ boot_img = Target(i) /\ Sized(i)
  ELSE source[i] = deployed

PreparedInv ==
  wicPc \in Wicking =>
    /\ disk = <<>> /\ num \in Nat \ {0} /\ num <= Len(setup.parts) + 1
    /\ source \in Seq(Nat) /\ size \in Seq(Nat) /\ Len(source) = num - 1 /\ Len(size) = num - 1
    /\ \A i \in 1 .. num - 1 : Prepared(i)

DiskInv == BootMatchesRoot /\ EspContent /\ BlocksFit

WicInv == setup \in Setups /\ GenInv /\ OtaBootInv /\ StagedInv /\ PreparedInv /\ DiskInv

LEMMA WithOf ==
  ASSUME NEW f, NEW d
  PROVE  /\ DOMAIN Wic!With(f, d) = DOMAIN f \union DOMAIN d
         /\ \A p \in DOMAIN f : Wic!With(f, d)[p] = f[p]
         /\ \A p \in DOMAIN d \ DOMAIN f : Wic!With(f, d)[p] = d[p]
BY DEF Wic!With

LEMMA SameFiles ==
  ASSUME NEW f, NEW d, NEW e, NEW b, DOMAIN Wic!With(f, d) = DOMAIN Wic!With(e, b),
         \A p \in DOMAIN Wic!With(f, d) : Wic!With(f, d)[p] = Wic!With(e, b)[p]
  PROVE  Wic!With(f, d) = Wic!With(e, b)
BY DEF Wic!With

LEMMA FileOf ==
  ASSUME NEW p, NEW c
  PROVE  DOMAIN Wic!File(p, c) = {p} /\ Wic!File(p, c)[p] = c
BY DEF Wic!File

LEMMA EmptyOf == DOMAIN Wic!Empty = {}
BY DEF Wic!Empty

LEMMA LayoutOf ==
  ASSUME setup \in Setups
  PROVE  /\ Len(setup.parts) \in Nat /\ DOMAIN setup.parts = 1 .. Len(setup.parts)
         /\ FileBlocks \in Nat /\ BOOTDD_EXTRA_SPACE \in Nat
         /\ \A i \in 1 .. Len(setup.parts) :
              /\ setup.parts[i].fixed \in Nat /\ setup.parts[i].size \in Nat
              /\ \A t \in Asked(i) :
                   /\ t.dst \notin {"entries", "loader.conf", "boot.efi", "grub.cfg"}
                   /\ \A u \in Asked(i) : u.dst = t.dst => u = t
<1>1. setup.parts \in Seq(ToSet(setup.parts)) /\ FileBlocks \in Nat /\ BOOTDD_EXTRA_SPACE \in Nat
  BY DiskAssumption DEF Wic!SetupAssumption, Wic!ToSet, ToSet
<1>2. Len(setup.parts) \in Nat /\ DOMAIN setup.parts = 1 .. Len(setup.parts)
  BY <1>1, LenProperties
<1>3. ASSUME NEW i \in 1 .. Len(setup.parts)
      PROVE  /\ setup.parts[i].fixed \in Nat /\ setup.parts[i].size \in Nat
             /\ \A t \in Asked(i) :
                  /\ t.dst \notin {"entries", "loader.conf", "boot.efi", "grub.cfg"}
                  /\ \A u \in Asked(i) : u.dst = t.dst => u = t
  <2> DEFINE p == setup.parts[i]
  <2>1. p \in Wic!ToSet(setup.parts)
    BY <1>2 DEF Wic!ToSet
  <2>2. /\ p.fixed \in Nat /\ p.size \in Nat
        /\ Wic!HasFiles(Wic!Listed(setup, p)) => \A t \in Wic!TasksFor(setup, p) :
             /\ t.dst \notin {"entries", "loader.conf", "boot.efi", "grub.cfg"}
             /\ \A u \in Wic!TasksFor(setup, p) : u.dst = t.dst => u = t
    BY <2>1, DiskAssumption DEF Wic!SetupAssumption
  <2>3. Wic!HasFiles(setup.IMAGE_EFI_BOOT_FILES) => Wic!HasFiles(Wic!Listed(setup, p))
    BY DEF Wic!Listed
  <2> QED
    BY <2>2, <2>3 DEF Asked
<1> QED
  BY <1>1, <1>2, <1>3

LEMMA TargetOf ==
  ASSUME setup \in Setups, NEW i \in 1 .. Len(setup.parts)
  PROVE  /\ DOMAIN Target(i) = {"boot.efi"} \union Loads \union Dsts(Asked(i))
         /\ "boot.efi" \notin Loads \union Dsts(Asked(i)) /\ Loads \intersect Dsts(Asked(i)) = {}
         /\ Target(i)["boot.efi"] =
              IF Wic!Binary(setup) \in setup.kernel_dir THEN <<"deploy", Wic!Binary(setup)>> ELSE <<"rootfs", deployed>>
         /\ Wic!SystemdBoot(setup) => /\ Target(i)["entries"] = <<"ota", deployed>>
                               /\ Target(i)["loader.conf"] = <<"wic", "loader.conf">>
         /\ ~Wic!SystemdBoot(setup) => Target(i)["grub.cfg"] = <<"wic", "grub.cfg">>
         /\ \A t \in Asked(i) : Target(i)[t.dst] = <<"deploy", t.src>>
         /\ "entries" \in DOMAIN Target(i) => Target(i)["entries"] = <<"ota", deployed>>
<1> DEFINE efi  == Wic!File("boot.efi", IF Wic!Binary(setup) \in setup.kernel_dir THEN <<"deploy", Wic!Binary(setup)>>
                                        ELSE <<"rootfs", deployed>>)
           boot == IF Wic!SystemdBoot(setup) THEN [f \in {"entries", "loader.conf"} |->
                                             IF f = "entries" THEN <<"ota", deployed>> ELSE <<"wic", f>>]
                   ELSE Wic!File("grub.cfg", <<"wic", "grub.cfg">>)
           own  == [d \in Dsts(Asked(i)) |-> <<"deploy", (CHOOSE t \in Asked(i) : t.dst = d).src>>]
<1>1. Target(i) = Wic!With(efi, Wic!With(boot, own))
  <2>1. (IF Wic!Ignored(setup, setup.parts[i]) THEN {} ELSE Wic!Wanted(setup, setup.parts[i])) = Asked(i)
    BY DEF Wic!Ignored, Wic!Wanted, Wic!HasFiles, Wic!Listed, Asked
  <2> QED
    BY <2>1 DEF Target, Wic!Content, Dsts
<1>2. "boot.efi" \notin Loads \union Dsts(Asked(i)) /\ Loads \intersect Dsts(Asked(i)) = {}
  BY LayoutOf DEF Loads, Dsts
<1>3. DOMAIN efi = {"boot.efi"}
  BY FileOf
<1>4. DOMAIN boot = Loads
  BY FileOf DEF Loads
<1>5. DOMAIN own = Dsts(Asked(i))
  OBVIOUS
<1>6. efi["boot.efi"] = IF Wic!Binary(setup) \in setup.kernel_dir THEN <<"deploy", Wic!Binary(setup)>> ELSE <<"rootfs", deployed>>
  BY FileOf
<1>7. Wic!SystemdBoot(setup) => boot["entries"] = <<"ota", deployed>> /\ boot["loader.conf"] = <<"wic", "loader.conf">>
  OBVIOUS
<1>8. ~Wic!SystemdBoot(setup) => boot["grub.cfg"] = <<"wic", "grub.cfg">>
  BY FileOf
<1>9. ASSUME NEW t \in Asked(i) PROVE own[t.dst] = <<"deploy", t.src>>
  <2>1. \A u \in Asked(i) : u.dst = t.dst => u = t
    BY LayoutOf
  <2>2. (CHOOSE u \in Asked(i) : u.dst = t.dst) = t
    BY <2>1
  <2>3. t.dst \in Dsts(Asked(i))
    BY DEF Dsts
  <2> QED
    BY <2>2, <2>3
<1> HIDE DEF efi, boot, own
<1>10. /\ DOMAIN Target(i) = {"boot.efi"} \union Loads \union Dsts(Asked(i))
       /\ Target(i)["boot.efi"] = efi["boot.efi"]
       /\ \A d \in Loads : Target(i)[d] = boot[d]
       /\ \A d \in Dsts(Asked(i)) : Target(i)[d] = own[d]
  <2> DEFINE rest == Wic!With(boot, own)
  <2>1. /\ DOMAIN rest = DOMAIN boot \union DOMAIN own
        /\ \A d \in DOMAIN boot : rest[d] = boot[d]
        /\ \A d \in DOMAIN own \ DOMAIN boot : rest[d] = own[d]
    BY WithOf
  <2>2. Target(i) = Wic!With(efi, rest)
    BY <1>1
  <2> HIDE DEF rest
  <2>3. /\ DOMAIN Wic!With(efi, rest) = DOMAIN efi \union DOMAIN rest
        /\ \A d \in DOMAIN efi : Wic!With(efi, rest)[d] = efi[d]
        /\ \A d \in DOMAIN rest \ DOMAIN efi : Wic!With(efi, rest)[d] = rest[d]
    BY WithOf
  <2> QED
    BY <1>2, <1>3, <1>4, <1>5, <2>1, <2>2, <2>3
<1>11. \A t \in Asked(i) : Target(i)[t.dst] = <<"deploy", t.src>>
  BY <1>9, <1>10 DEF Dsts
<1>12. Wic!SystemdBoot(setup) => /\ Target(i)["entries"] = <<"ota", deployed>>
                          /\ Target(i)["loader.conf"] = <<"wic", "loader.conf">>
  BY <1>7, <1>10 DEF Loads
<1>13. ~Wic!SystemdBoot(setup) => Target(i)["grub.cfg"] = <<"wic", "grub.cfg">>
  BY <1>8, <1>10 DEF Loads
<1>14. "entries" \in DOMAIN Target(i) => Wic!SystemdBoot(setup)
  BY <1>10, LayoutOf DEF Loads, Dsts
<1> QED
  BY <1>2, <1>6, <1>10, <1>11, <1>12, <1>13, <1>14

\* What depends on the layout and the deployment only.
LEMMA Unmoved ==
  ASSUME UNCHANGED <<setup, deployed>>
  PROVE  Loads' = Loads /\ \A i : Asked(i)' = Asked(i) /\ Target(i)' = Target(i)
BY DEF Asked, Loads, Target

\* Nothing is written and wic does not go on: a failing or aborted task.
LEMMA Stops ==
  ASSUME WicInv, wicPc' \in {"idle", "failed"}, UNCHANGED <<setup, OTA_BOOT, disk, Wic!wicVars, Wic!buildVars>>
  PROVE  WicInv'
<1>1. UNCHANGED <<setup, OTA_BOOT, disk, num, hdd, linked, install_task, boot_img, source, size,
                  gen, deployed, IMGDEPLOYDIR, DEPLOY_DIR_IMAGE>>
  BY DEF Wic!wicVars, Wic!buildVars
<1>2. wicPc' \notin {"ota", "ext4"} \union Given
  BY DEF Given, Wicking, Staging
<1>3. GenInv'
  BY <1>1, <1>2 DEF WicInv, GenInv
<1>4. OtaBootInv'
  BY <1>1, <1>2 DEF WicInv, OtaBootInv, Given
<1>5. StagedInv' /\ PreparedInv'
  BY <1>1, <1>2 DEF StagedInv, PreparedInv, OwnFilesOnly, Given, Wicking, Staging
<1>6. DiskInv'
  <2>1. BootMatchesRoot' /\ BlocksFit'
    BY <1>1 DEF WicInv, DiskInv, BootMatchesRoot, Wic!BootMatchesRoot, BlocksFit, Wic!BlocksFit, Wic!ESP
  <2>2. EspContent'
    BY <1>2 DEF EspContent, Wic!EspContent, Given
  <2> QED
    BY <2>1, <2>2 DEF DiskInv
<1> QED
  BY <1>1, <1>3, <1>4, <1>5, <1>6 DEF WicInv

\* A task that leaves wic's variables alone keeps what is known of the last disk.
LEMMA DiskKept ==
  ASSUME WicInv, UNCHANGED <<setup, disk, size>>, wicPc' # "complete"
  PROVE  DiskInv'
<1>1. BootMatchesRoot' /\ BlocksFit'
  BY DEF WicInv, DiskInv, BootMatchesRoot, Wic!BootMatchesRoot, BlocksFit, Wic!BlocksFit, Wic!ESP
<1>2. EspContent'
  BY DEF EspContent, Wic!EspContent
<1> QED
  BY <1>1, <1>2 DEF DiskInv

LEMMA NoDisk ==
  ASSUME disk' = <<>>, wicPc' # "complete"
  PROVE  DiskInv'
<1>1. DOMAIN disk' = {}
  OBVIOUS
<1> QED
  BY <1>1 DEF DiskInv, BootMatchesRoot, Wic!BootMatchesRoot, BlocksFit, Wic!BlocksFit, EspContent, Wic!EspContent

\* The tasks around wic, one step for each.
LEMMA TasksStep ==
  ASSUME WicInv,
         \/ Wic!StartBuild \/ Wic!ImageOta \/ Wic!ImageOtaExt4 \/ Wic!Rerun \/ Wic!StartWic \/ Wic!Complete
  PROVE  WicInv'
<1>1. CASE Wic!StartBuild
  <2>1. /\ gen' = gen + 1 /\ wicPc' = "ota" /\ IMGDEPLOYDIR' \in {0, IMGDEPLOYDIR}
        /\ UNCHANGED <<setup, OTA_BOOT, deployed, boot_img, disk, size>>
    BY <1>1 DEF Wic!StartBuild, Wic!wicVars
  <2>2. wicPc' \notin {"ext4"} \union Given
    BY <2>1 DEF Given, Wicking, Staging
  <2>3. GenInv'
    BY <2>1, <2>2 DEF WicInv, GenInv
  <2>4. OtaBootInv'
    BY <2>1, <2>2 DEF WicInv, OtaBootInv, Given
  <2>5. StagedInv' /\ PreparedInv'
    BY <2>1, <2>2 DEF StagedInv, PreparedInv, OwnFilesOnly, Given, Wicking, Staging
  <2> QED
    BY <2>1, <2>3, <2>4, <2>5, DiskKept DEF WicInv
<1>2. CASE Wic!ImageOta
  <2>1. /\ wicPc = "ota" /\ wicPc' = "ext4" /\ deployed' = gen /\ OTA_BOOT' = Wic!BootFiles(gen)
        /\ UNCHANGED <<setup, gen, IMGDEPLOYDIR, boot_img, disk, size>>
    BY <1>2 DEF Wic!ImageOta, Wic!wicVars
  <2>2. wicPc' \notin Given
    BY <2>1 DEF Given, Wicking, Staging
  <2>3. GenInv'
    BY <2>1, <2>2 DEF WicInv, GenInv
  <2>4. OtaBootInv'
    <3>1. ~Wic!SystemdBoot(setup) => DOMAIN OTA_BOOT' = {}
      BY <2>1, EmptyOf DEF Wic!BootFiles
    <3>2. Wic!SystemdBoot(setup) =>
            /\ DOMAIN OTA_BOOT' = {"entries", "loader.conf", "boot.efi"}
            /\ OTA_BOOT'["entries"] = <<"ota", deployed'>> /\ OTA_BOOT'["boot.efi"] = <<"rootfs", deployed'>>
      BY <2>1 DEF Wic!BootFiles
    <3> QED
      BY <2>1, <2>2, <3>1, <3>2 DEF OtaBootInv, Given
  <2>5. StagedInv' /\ PreparedInv'
    BY <2>1, <2>2 DEF StagedInv, PreparedInv, OwnFilesOnly, Given, Wicking, Staging
  <2> QED
    BY <2>1, <2>3, <2>4, <2>5, DiskKept DEF WicInv
<1>3. CASE Wic!ImageOtaExt4
  <2>1. /\ wicPc = "ext4" /\ wicPc' = "wic" /\ IMGDEPLOYDIR' = deployed
        /\ UNCHANGED <<setup, gen, deployed, OTA_BOOT, boot_img, disk, size>>
    BY <1>3 DEF Wic!ImageOtaExt4, Wic!wicVars
  <2>2. wicPc' \notin Wicking
    BY <2>1 DEF Wicking, Staging
  <2>3. GenInv'
    BY <2>1 DEF WicInv, GenInv
  <2>4. OtaBootInv'
    BY <2>1, <2>2 DEF WicInv, OtaBootInv
  <2>5. StagedInv' /\ PreparedInv'
    BY <2>1, <2>2 DEF StagedInv, PreparedInv, OwnFilesOnly, Wicking, Staging
  <2> QED
    BY <2>1, <2>3, <2>4, <2>5, DiskKept DEF WicInv
<1>4. CASE Wic!Rerun
  <2>1. /\ gen # 0 /\ deployed = gen /\ IMGDEPLOYDIR = gen /\ wicPc' = "wic"
        /\ UNCHANGED <<setup, gen, deployed, IMGDEPLOYDIR, OTA_BOOT, boot_img, disk, size>>
    BY <1>4 DEF Wic!Rerun, Wic!wicVars, Wic!buildVars
  <2>2. wicPc' \notin Wicking
    BY <2>1 DEF Wicking, Staging
  <2>3. GenInv'
    BY <2>1 DEF WicInv, GenInv
  <2>4. OtaBootInv'
    BY <2>1, <2>2 DEF WicInv, OtaBootInv
  <2>5. StagedInv' /\ PreparedInv'
    BY <2>1, <2>2 DEF StagedInv, PreparedInv, OwnFilesOnly, Wicking, Staging
  <2> QED
    BY <2>1, <2>3, <2>4, <2>5, DiskKept DEF WicInv
<1>5. CASE Wic!StartWic
  <2>1. /\ wicPc = "wic" /\ wicPc' = "configure"
        /\ num' = 1 /\ hdd' = Wic!Empty /\ linked' = {} /\ source' = <<>> /\ size' = <<>> /\ disk' = <<>>
        /\ UNCHANGED <<setup, gen, deployed, IMGDEPLOYDIR, OTA_BOOT>>
    BY <1>5 DEF Wic!StartWic, Wic!buildVars
  <2>2. GenInv'
    BY <2>1 DEF WicInv, GenInv, Given, Wicking
  <2>3. OtaBootInv'
    BY <2>1 DEF WicInv, OtaBootInv
  <2>4. StagedInv'
    BY <2>1, EmptyOf, FS_EmptySet DEF StagedInv, OwnFilesOnly, Staging
  <2>5. PreparedInv'
    <3>1. Len(setup.parts) \in Nat
      BY LayoutOf DEF WicInv
    <3>2. source' \in Seq(Nat) /\ size' \in Seq(Nat) /\ Len(source') = 0 /\ Len(size') = 0
      BY <2>1
    <3> QED
      BY <2>1, <3>1, <3>2 DEF PreparedInv
  <2> QED
    BY <2>1, <2>2, <2>3, <2>4, <2>5, NoDisk DEF WicInv
<1>6. CASE Wic!Complete
  <2>1. /\ wicPc' = "idle" /\ UNCHANGED <<setup, gen, deployed, IMGDEPLOYDIR, OTA_BOOT, boot_img, disk, size>>
    BY <1>6 DEF Wic!Complete, Wic!wicVars
  <2>2. wicPc' \notin {"ota", "ext4"} \union Given
    BY <2>1 DEF Given, Wicking, Staging
  <2>3. GenInv'
    BY <2>1, <2>2 DEF WicInv, GenInv
  <2>4. OtaBootInv'
    BY <2>1, <2>2 DEF WicInv, OtaBootInv, Given
  <2>5. StagedInv' /\ PreparedInv'
    BY <2>1, <2>2 DEF StagedInv, PreparedInv, OwnFilesOnly, Given, Wicking, Staging
  <2> QED
    BY <2>1, <2>3, <2>4, <2>5, DiskKept DEF WicInv
<1> QED
  BY <1>1, <1>2, <1>3, <1>4, <1>5, <1>6

\* A step of wic that prepares the files of a partition leaves the prepared partitions alone.
LEMMA WicKeeps ==
  ASSUME WicInv, wicPc \in Wicking, wicPc' \in Wicking,
         UNCHANGED <<setup, disk, gen, deployed, IMGDEPLOYDIR, num, boot_img, source, size>>
  PROVE  setup' \in Setups /\ GenInv' /\ PreparedInv' /\ DiskInv'
<1>1. GenInv'
  BY DEF WicInv, GenInv, Given
<1>2. \A i : Prepared(i)' = Prepared(i)
  BY Unmoved DEF Prepared, Sized, Wic!ESP
<1>3. PreparedInv'
  BY <1>2 DEF WicInv, PreparedInv
<1>4. DiskInv'
  BY DiskKept DEF Wicking, Staging
<1> QED
  BY <1>1, <1>3, <1>4 DEF WicInv

LEMMA ConfigureStep ==
  ASSUME WicInv, Wic!do_configure_grubefi \/ Wic!do_configure_systemdboot
  PROVE  WicInv'
<1>1. /\ wicPc = "configure" /\ num <= Len(setup.parts) /\ Wic!ESP(Wic!part) /\ wicPc' = "boot_files"
      /\ UNCHANGED <<setup, disk, gen, deployed, IMGDEPLOYDIR, num, boot_img, source, size>>
  BY DEF Wic!do_configure_grubefi, Wic!do_configure_systemdboot, Wic!At, Wic!buildVars
<1>2. wicPc \in Wicking /\ wicPc' \in Wicking /\ wicPc' \in Staging /\ wicPc \in Given
  BY <1>1 DEF Wicking, Staging, Given
<1>3. /\ setup \in Setups /\ num \in 1 .. Len(setup.parts) /\ deployed # 0 /\ IsFiniteSet(DOMAIN hdd)
      /\ boot_img = Wic!Empty => DOMAIN hdd = {} /\ linked = {}
  BY <1>1, <1>2, LayoutOf DEF WicInv, PreparedInv, GenInv, StagedInv, OwnFilesOnly
<1>4. Wic!part' = Wic!part /\ Wic!ESP(Wic!part)'
  BY <1>1 DEF Wic!part, Wic!ESP
<1>5. CASE Wic!do_configure_grubefi
  <2> DEFINE cfg == Wic!File("grub.cfg", <<"wic", "grub.cfg">>)
  <2>1. setup.loader = "grub-efi" /\ ~Wic!SystemdBoot(setup)
        /\ hdd' = Wic!With(cfg, hdd) /\ UNCHANGED <<OTA_BOOT, linked>>
    BY <1>5 DEF Wic!do_configure_grubefi, Wic!SystemdBoot
  <2>2. DOMAIN hdd' = {"grub.cfg"} \union DOMAIN hdd /\ hdd'["grub.cfg"] = <<"wic", "grub.cfg">>
    <3>1. DOMAIN cfg = {"grub.cfg"} /\ cfg["grub.cfg"] = <<"wic", "grub.cfg">>
      BY FileOf
    <3> HIDE DEF cfg
    <3>2. /\ DOMAIN Wic!With(cfg, hdd) = DOMAIN cfg \union DOMAIN hdd
          /\ \A p \in DOMAIN cfg : Wic!With(cfg, hdd)[p] = cfg[p]
      BY WithOf
    <3> QED
      BY <2>1, <3>1, <3>2
  <2>3. IsFiniteSet(DOMAIN hdd')
    BY <1>3, <2>2, FS_AddElement
  <2>4. boot_img = Wic!Empty => DOMAIN hdd' = {"grub.cfg"} /\ Loads = {"grub.cfg"} /\ Right("grub.cfg")'
    BY <1>1, <1>3, <2>1, <2>2, TargetOf, Unmoved DEF Loads, Right
  <2>5. OtaBootInv'
    BY <1>1, <1>2, <2>1 DEF WicInv, OtaBootInv
  <2>6. StagedInv'
    BY <1>1, <1>4, <2>1, <2>3, <2>4, Unmoved DEF StagedInv, OwnFilesOnly
  <2> QED
    BY <1>1, <1>2, <2>5, <2>6, WicKeeps DEF WicInv
<1>6. CASE Wic!do_configure_systemdboot
  <2> DEFINE conf == Wic!File("loader.conf", <<"wic", "loader.conf">>)
  <2>1. /\ Wic!SystemdBoot(setup) /\ OTA_BOOT' = Wic!With(conf, OTA_BOOT) /\ hdd' = Wic!With(OTA_BOOT', hdd)
        /\ linked' = DOMAIN OTA_BOOT
    BY <1>6 DEF Wic!do_configure_systemdboot
  <2>2. /\ DOMAIN OTA_BOOT = {"entries", "loader.conf", "boot.efi"} /\ OTA_BOOT["entries"] = <<"ota", deployed>>
        /\ Wic!Binary(setup) \notin setup.kernel_dir => OTA_BOOT["boot.efi"] = <<"rootfs", deployed>>
    BY <1>3, <2>1 DEF WicInv, OtaBootInv
  <2>3. DOMAIN conf = {"loader.conf"} /\ conf["loader.conf"] = <<"wic", "loader.conf">>
    BY FileOf
  <2> HIDE DEF conf
  <2>4. /\ DOMAIN OTA_BOOT' = {"entries", "loader.conf", "boot.efi"}
        /\ OTA_BOOT'["loader.conf"] = <<"wic", "loader.conf">>
        /\ OTA_BOOT'["entries"] = OTA_BOOT["entries"] /\ OTA_BOOT'["boot.efi"] = OTA_BOOT["boot.efi"]
    <3>1. /\ DOMAIN Wic!With(conf, OTA_BOOT) = DOMAIN conf \union DOMAIN OTA_BOOT
          /\ \A p \in DOMAIN conf : Wic!With(conf, OTA_BOOT)[p] = conf[p]
          /\ \A p \in DOMAIN OTA_BOOT \ DOMAIN conf : Wic!With(conf, OTA_BOOT)[p] = OTA_BOOT[p]
      BY WithOf
    <3> QED
      BY <2>1, <2>2, <2>3, <3>1
  <2>5. OtaBootInv'
    BY <1>1, <2>1, <2>2, <2>4 DEF OtaBootInv
  <2>6. /\ DOMAIN hdd' = DOMAIN OTA_BOOT' \union DOMAIN hdd
        /\ \A f \in DOMAIN OTA_BOOT' : hdd'[f] = OTA_BOOT'[f]
    BY <2>1, WithOf
  <2>7. IsFiniteSet(DOMAIN hdd')
    <3>1. IsFiniteSet({"entries", "loader.conf", "boot.efi"})
      <4>1. IsFiniteSet({"entries"})
        BY FS_Singleton
      <4>2. IsFiniteSet({"entries"} \union {"loader.conf"})
        BY <4>1, FS_AddElement
      <4>3. IsFiniteSet(({"entries"} \union {"loader.conf"}) \union {"boot.efi"})
        BY <4>2, FS_AddElement
      <4>4. ({"entries"} \union {"loader.conf"}) \union {"boot.efi"} = {"entries", "loader.conf", "boot.efi"}
        OBVIOUS
      <4> QED
        BY <4>3, <4>4
    <3> QED
      BY <1>3, <2>4, <2>6, <3>1, FS_Union
  <2>8. boot_img = Wic!Empty =>
          DOMAIN hdd' = {"entries", "loader.conf", "boot.efi"} /\ \A f \in DOMAIN hdd' : Right(f)'
    BY <1>1, <1>3, <2>1, <2>2, <2>4, <2>6, TargetOf, Unmoved DEF Right
  <2>9. StagedInv'
    BY <1>1, <1>4, <2>1, <2>7, <2>8, Unmoved DEF StagedInv, OwnFilesOnly, Loads, Wic!SystemdBoot
  <2> QED
    BY <1>1, <1>2, <2>5, <2>9, WicKeeps DEF WicInv
<1> QED
  BY <1>5, <1>6

LEMMA ListStep ==
  ASSUME WicInv, Wic!AddTasks \/ Wic!NoBootFiles
  PROVE  WicInv'
<1>1. /\ wicPc = "boot_files" /\ wicPc' = "prepare"
      /\ UNCHANGED <<setup, OTA_BOOT, disk, gen, deployed, IMGDEPLOYDIR, num, hdd, linked, boot_img, source, size>>
      /\ setup.IMAGE_EFI_BOOT_FILES = Unset \/ install_task' = Wic!TasksFor(setup, Wic!part)
  BY DEF Wic!AddTasks, Wic!NoBootFiles, Wic!At, Wic!buildVars, Wic!wicVars
<1>2. wicPc \in Wicking /\ wicPc' \in Wicking /\ wicPc \in Staging
  BY <1>1 DEF Wicking, Staging
<1>3. Wic!part' = Wic!part /\ Wic!part = setup.parts[num] /\ (Wic!ESP(Wic!part) => Wic!ESP(Wic!part)')
  BY <1>1 DEF Wic!part, Wic!ESP
<1>4. Waiting' = Asked(num)
  BY <1>1, <1>3 DEF Waiting, Asked, Wic!HasFiles
<1>5. \A f : Right(f) => Right(f)'
  BY <1>1, Unmoved DEF Right
<1>6. StagedInv'
  BY <1>1, <1>2, <1>3, <1>4, <1>5, Unmoved DEF WicInv, StagedInv, OwnFilesOnly
<1>7. OtaBootInv'
  BY <1>1, <1>2 DEF WicInv, OtaBootInv
<1> QED
  BY <1>1, <1>2, <1>6, <1>7, WicKeeps DEF WicInv

LEMMA InstallStep == ASSUME WicInv, Wic!InstallFile PROVE WicInv'
<1>1. PICK t \in install_task :
        /\ hdd' = Wic!With(Wic!File(t.dst, <<"deploy", t.src>>), hdd)
        /\ linked' = linked \ {t.dst} /\ install_task' = install_task \ {t}
  BY DEF Wic!InstallFile
<1>2. /\ wicPc = "prepare" /\ wicPc' = wicPc /\ num <= Len(setup.parts) /\ Wic!HasFiles(setup.IMAGE_EFI_BOOT_FILES)
      /\ UNCHANGED <<setup, OTA_BOOT, disk, gen, deployed, IMGDEPLOYDIR, num, boot_img, source, size>>
  BY DEF Wic!InstallFile, Wic!Installing, Wic!At, Wic!buildVars
<1>3. wicPc \in Wicking /\ wicPc' \in Wicking /\ wicPc \in Staging
  BY <1>2 DEF Wicking, Staging
<1>4. setup \in Setups /\ num \in 1 .. Len(setup.parts) /\ IsFiniteSet(DOMAIN hdd)
  BY <1>2, <1>3, LayoutOf DEF WicInv, PreparedInv, StagedInv
<1>5. Wic!part' = Wic!part /\ (Wic!ESP(Wic!part) => Wic!ESP(Wic!part)')
  BY <1>2 DEF Wic!part, Wic!ESP
<1>6. /\ DOMAIN hdd' = {t.dst} \union DOMAIN hdd /\ hdd'[t.dst] = <<"deploy", t.src>>
      /\ \A f \in DOMAIN hdd \ {t.dst} : hdd'[f] = hdd[f]
  <2> DEFINE new == Wic!File(t.dst, <<"deploy", t.src>>)
  <2>1. DOMAIN new = {t.dst} /\ new[t.dst] = <<"deploy", t.src>>
    BY FileOf
  <2> HIDE DEF new
  <2>2. /\ DOMAIN Wic!With(new, hdd) = DOMAIN new \union DOMAIN hdd
        /\ \A p \in DOMAIN new : Wic!With(new, hdd)[p] = new[p]
        /\ \A p \in DOMAIN hdd \ DOMAIN new : Wic!With(new, hdd)[p] = hdd[p]
    BY WithOf
  <2>3. hdd' = Wic!With(new, hdd)
    BY <1>1 DEF new
  <2> QED
    BY <2>1, <2>2, <2>3
<1>7. IsFiniteSet(DOMAIN hdd')
  BY <1>4, <1>6, FS_AddElement
<1>8. ASSUME boot_img = Wic!Empty PROVE OwnFilesOnly'
  <2>1. /\ Waiting \subseteq Asked(num) /\ \A f \in DOMAIN hdd : Right(f)
        /\ (DOMAIN hdd \ {"boot.efi"}) \union Dsts(Waiting) = Loads \union Dsts(Asked(num))
    BY <1>2, <1>3, <1>8 DEF WicInv, StagedInv, OwnFilesOnly
  <2>2. Waiting = install_task /\ Waiting' = install_task \ {t} /\ t \in Waiting
    BY <1>1, <1>2 DEF Waiting
  <2>3. t \in Asked(num) /\ t.dst # "boot.efi" /\ \A u \in Asked(num) : u.dst = t.dst => u = t
    <3>1. t \in Asked(num)
      BY <2>1, <2>2
    <3> QED
      BY <1>4, <3>1, LayoutOf
  <2>4. Target(num)[t.dst] = <<"deploy", t.src>>
    BY <1>4, <2>3, TargetOf
  <2>5. Right(t.dst)' /\ \A f \in DOMAIN hdd \ {t.dst} : Right(f)'
    BY <1>2, <1>6, <2>1, <2>3, <2>4, Unmoved DEF Right
  <2>6. Dsts(Waiting) = Dsts(Waiting') \union {t.dst}
    BY <2>2 DEF Dsts
  <2>7. (DOMAIN hdd' \ {"boot.efi"}) \union Dsts(Waiting') = Loads \union Dsts(Asked(num))
    BY <1>6, <2>1, <2>3, <2>6
  <2>8. Dsts(Waiting)' = Dsts(Waiting')
    BY DEF Dsts
  <2>9. Loads' = Loads /\ Asked(num)' = Asked(num) /\ Dsts(Asked(num))' = Dsts(Asked(num))
    BY <1>2, Unmoved DEF Dsts
  <2>10. \A f \in DOMAIN hdd' : Right(f)'
    BY <1>6, <2>5
  <2>11. Waiting' \subseteq Asked(num)'
    BY <2>1, <2>2, <2>9
  <2> QED
    BY <1>2, <2>7, <2>8, <2>9, <2>10, <2>11 DEF OwnFilesOnly
<1>9. StagedInv'
  BY <1>2, <1>3, <1>5, <1>7, <1>8 DEF WicInv, StagedInv
<1>10. OtaBootInv'
  BY <1>1, <1>2, <1>3 DEF WicInv, OtaBootInv
<1> QED
  BY <1>2, <1>3, <1>9, <1>10, WicKeeps DEF WicInv

LEMMA LoaderStep == ASSUME WicInv, Wic!InstallLoader PROVE WicInv'
<1> DEFINE efi == IF Wic!Binary(setup) \in setup.kernel_dir
                  THEN Wic!File("boot.efi", <<"deploy", Wic!Binary(setup)>>) ELSE Wic!Empty
<1>1. /\ wicPc = "prepare" /\ wicPc' = "make" /\ num <= Len(setup.parts) /\ Wic!ESP(Wic!part)
      /\ Wic!HasFiles(setup.IMAGE_EFI_BOOT_FILES) => install_task = {}
      /\ hdd' = Wic!With(efi, hdd)
      /\ OTA_BOOT' = IF "boot.efi" \in linked THEN Wic!With(efi, OTA_BOOT) ELSE OTA_BOOT
      /\ UNCHANGED <<setup, disk, gen, deployed, IMGDEPLOYDIR, num, linked, boot_img, source, size>>
  BY DEF Wic!InstallLoader, Wic!At, Wic!buildVars
<1>2. wicPc \in Wicking /\ wicPc' \in Wicking /\ wicPc \in Staging /\ wicPc \in Given
  BY <1>1 DEF Wicking, Staging, Given
<1>3. /\ setup \in Setups /\ num \in 1 .. Len(setup.parts) /\ IsFiniteSet(DOMAIN hdd) /\ deployed # 0
      /\ linked \subseteq DOMAIN OTA_BOOT
  BY <1>1, <1>2, LayoutOf DEF WicInv, PreparedInv, StagedInv, OtaBootInv, GenInv
<1>4. Wic!part' = Wic!part /\ Wic!ESP(Wic!part)'
  BY <1>1 DEF Wic!part, Wic!ESP
<1>5. /\ Wic!Binary(setup) \in setup.kernel_dir =>
           DOMAIN efi = {"boot.efi"} /\ efi["boot.efi"] = <<"deploy", Wic!Binary(setup)>>
      /\ Wic!Binary(setup) \notin setup.kernel_dir => DOMAIN efi = {}
  BY FileOf, EmptyOf
<1> HIDE DEF efi
<1>6. /\ DOMAIN hdd' = DOMAIN efi \union DOMAIN hdd
      /\ \A f \in DOMAIN efi : hdd'[f] = efi[f]
      /\ \A f \in DOMAIN hdd \ DOMAIN efi : hdd'[f] = hdd[f]
  <2>1. /\ DOMAIN Wic!With(efi, hdd) = DOMAIN efi \union DOMAIN hdd
        /\ \A f \in DOMAIN efi : Wic!With(efi, hdd)[f] = efi[f]
        /\ \A f \in DOMAIN hdd \ DOMAIN efi : Wic!With(efi, hdd)[f] = hdd[f]
    BY WithOf
  <2> QED
    BY <1>1, <2>1
<1>7. IsFiniteSet(DOMAIN hdd')
  <2>1. CASE DOMAIN efi = {"boot.efi"}
    <3>1. DOMAIN hdd' = DOMAIN hdd \union {"boot.efi"}
      BY <1>6, <2>1
    <3> QED
      BY <1>3, <3>1, FS_AddElement
  <2>2. CASE DOMAIN efi = {}
    BY <1>3, <1>6, <2>2
  <2> QED
    BY <1>5, <2>1, <2>2
<1>8. ASSUME boot_img = Wic!Empty, "boot.efi" \in DOMAIN hdd' PROVE hdd' = Target(num)
  <2>1. /\ \A f \in DOMAIN hdd : Right(f)
        /\ (DOMAIN hdd \ {"boot.efi"}) \union Dsts(Waiting) = Loads \union Dsts(Asked(num))
    BY <1>1, <1>2, <1>8 DEF WicInv, StagedInv, OwnFilesOnly
  <2>2. Dsts(Waiting) = {}
    BY <1>1 DEF Waiting, Dsts
  <2>3. DOMAIN hdd' = DOMAIN Target(num)
    BY <1>3, <1>5, <1>6, <1>8, <2>1, <2>2, TargetOf
  <2>4. \A f \in DOMAIN hdd' \ {"boot.efi"} : hdd'[f] = Target(num)[f]
    BY <1>5, <1>6, <2>1 DEF Right
  <2>5. hdd'["boot.efi"] = Target(num)["boot.efi"]
    <3>1. CASE Wic!Binary(setup) \in setup.kernel_dir
      BY <1>3, <1>5, <1>6, <3>1, TargetOf
    <3>2. CASE Wic!Binary(setup) \notin setup.kernel_dir
      BY <1>3, <1>5, <1>6, <1>8, <2>1, <3>2, TargetOf DEF Right
    <3> QED
      BY <3>1, <3>2
  <2>6. PICK e, b : Target(num) = Wic!With(e, b)
    BY DEF Target, Wic!Content
  <2> QED
    BY <1>1, <2>3, <2>4, <2>5, <2>6, SameFiles
<1>9. boot_img = Wic!Empty => \A f \in DOMAIN hdd' : Right(f)'
  <2> SUFFICES ASSUME boot_img = Wic!Empty, NEW f \in DOMAIN hdd' PROVE Right(f)'
    OBVIOUS
  <2>1. \A g \in DOMAIN hdd : Right(g)
    BY <1>1, <1>2 DEF WicInv, StagedInv, OwnFilesOnly
  <2>2. f \notin DOMAIN efi => f \in DOMAIN hdd /\ hdd'[f] = hdd[f]
    BY <1>6
  <2> QED
    BY <1>1, <1>5, <2>1, <2>2, Unmoved DEF Right
<1>10. StagedInv'
  BY <1>1, <1>2, <1>4, <1>7, <1>8, <1>9, Unmoved DEF WicInv, StagedInv, OwnFilesOnly
<1>11. OtaBootInv'
  <2>1. CASE "boot.efi" \in linked
    <3>1. Wic!SystemdBoot(setup) /\ "boot.efi" \in DOMAIN OTA_BOOT
      BY <1>3, <2>1 DEF WicInv, OtaBootInv
    <3>2. /\ DOMAIN OTA_BOOT' = DOMAIN efi \union DOMAIN OTA_BOOT
          /\ \A f \in DOMAIN OTA_BOOT \ DOMAIN efi : OTA_BOOT'[f] = OTA_BOOT[f]
      <4>1. /\ DOMAIN Wic!With(efi, OTA_BOOT) = DOMAIN efi \union DOMAIN OTA_BOOT
            /\ \A f \in DOMAIN OTA_BOOT \ DOMAIN efi : Wic!With(efi, OTA_BOOT)[f] = OTA_BOOT[f]
        BY WithOf
      <4> QED
        BY <1>1, <2>1, <4>1
    <3> QED
      BY <1>1, <1>3, <1>5, <3>1, <3>2 DEF WicInv, OtaBootInv
  <2>2. CASE "boot.efi" \notin linked
    BY <1>1, <1>2, <2>2 DEF WicInv, OtaBootInv
  <2> QED
    BY <2>1, <2>2
<1> QED
  BY <1>1, <1>2, <1>10, <1>11, WicKeeps DEF WicInv

LEMMA SameCardinality == \A S : Wic!Cardinality(S) = Cardinality(S)
BY DEF Wic!Cardinality, Cardinality

\* The blocks of a file system hold its content and the extra space, and are not fewer than asked for.
LEMMA BlocksOf ==
  ASSUME setup \in Setups, num \in 1 .. Len(setup.parts), IsFiniteSet(DOMAIN hdd)
  PROVE  /\ Wic!Blocks \in Nat
         /\ Wic!Blocks >= setup.parts[num].fixed /\ Wic!Blocks >= setup.parts[num].size
         /\ Wic!Blocks >= FileBlocks * Cardinality(DOMAIN hdd) + BOOTDD_EXTRA_SPACE
<1> DEFINE content == FileBlocks * Cardinality(DOMAIN hdd)
           p == setup.parts[num]
<1>1. FileBlocks \in Nat /\ BOOTDD_EXTRA_SPACE \in Nat /\ p.fixed \in Nat /\ p.size \in Nat
  BY LayoutOf
<1>2. Cardinality(DOMAIN hdd) \in Nat
  BY FS_CardinalityType
<1>3. content \in Nat
  BY <1>1, <1>2
<1>4. Wic!Blocks = Wic!Larger(content + Wic!Larger(Wic!Larger(p.size, content) - content, BOOTDD_EXTRA_SPACE), p.fixed)
  BY SameCardinality DEF Wic!Blocks, Wic!part
<1> HIDE DEF content, p
<1>5. /\ Wic!Blocks \in Nat /\ Wic!Blocks >= p.fixed /\ Wic!Blocks >= p.size
      /\ Wic!Blocks >= content + BOOTDD_EXTRA_SPACE
  BY <1>1, <1>3, <1>4 DEF Wic!Larger
<1> QED
  BY <1>5 DEF content, p

LEMMA MakeStep == ASSUME WicInv, Wic!MakeImage PROVE WicInv'
<1>1. /\ wicPc = "make" /\ wicPc' = "configure" /\ num <= Len(setup.parts) /\ Wic!ESP(Wic!part)
      /\ "boot.efi" \in DOMAIN hdd /\ boot_img = Wic!Empty /\ boot_img' = hdd
      /\ source' = Append(source, 0) /\ size' = Append(size, Wic!Blocks) /\ num' = num + 1
      /\ UNCHANGED <<setup, OTA_BOOT, disk, gen, deployed, IMGDEPLOYDIR, hdd, linked>>
  <2>1. Wic!At("make") /\ boot_img = Wic!Empty /\ boot_img' = hdd /\ ~Wic!NoLoader
    BY DEF Wic!MakeImage
  <2>2. /\ wicPc' = "configure" /\ source' = Append(source, 0) /\ size' = Append(size, Wic!Blocks) /\ num' = num + 1
        /\ UNCHANGED <<setup, OTA_BOOT, disk, gen, deployed, IMGDEPLOYDIR, hdd, linked>>
    BY DEF Wic!MakeImage, Wic!buildVars
  <2> QED
    BY <2>1, <2>2 DEF Wic!At, Wic!NoLoader, WicInv, StagedInv, Staging
<1>2. wicPc \in Wicking /\ wicPc' \in Wicking /\ wicPc' \notin Staging /\ wicPc \in Given
  BY <1>1 DEF Wicking, Staging, Given
<1>3. /\ setup \in Setups /\ num \in 1 .. Len(setup.parts) /\ Len(setup.parts) \in Nat
      /\ IsFiniteSet(DOMAIN hdd) /\ disk = <<>>
      /\ source \in Seq(Nat) /\ size \in Seq(Nat) /\ Len(source) = num - 1 /\ Len(size) = num - 1
      /\ \A i \in 1 .. num - 1 : Prepared(i)
  BY <1>1, <1>2, LayoutOf DEF WicInv, PreparedInv, StagedInv
<1>4. hdd = Target(num) /\ hdd # Wic!Empty
  BY <1>1, EmptyOf DEF WicInv, StagedInv, OwnFilesOnly
<1>5. /\ source' \in Seq(Nat) /\ Len(source') = num /\ source'[num] = 0
      /\ \A i \in 1 .. num - 1 : source'[i] = source[i]
  BY <1>1, <1>3, AppendProperties
<1>6. /\ size' \in Seq(Nat) /\ Len(size') = num /\ size'[num] = Wic!Blocks
      /\ \A i \in 1 .. num - 1 : size'[i] = size[i]
  BY <1>1, <1>3, BlocksOf, AppendProperties
<1>7. \A i : Prepared(i)' <=>
        IF Wic!ESP(setup.parts[i])
        THEN source'[i] = 0 /\ boot_img' # Wic!Empty /\ boot_img' = Target(i) /\ Sized(i)'
        ELSE source'[i] = deployed
  BY <1>1, Unmoved DEF Prepared, Wic!Empty, Wic!ESP
<1>8. \A i : Sized(i)' <=>
        /\ size'[i] \in Nat
        /\ size'[i] >= setup.parts[i].fixed /\ size'[i] >= setup.parts[i].size
        /\ size'[i] >= FileBlocks * Cardinality(DOMAIN hdd) + BOOTDD_EXTRA_SPACE
  BY <1>1 DEF Sized
<1>9. \A i \in 1 .. num : Prepared(i)'
  <2>1. \A i \in 1 .. num - 1 : Prepared(i)'
    BY <1>1, <1>3, <1>5, <1>7 DEF Prepared
  <2>2. \A i \in {num} : Sized(i)'
    BY <1>3, <1>6, <1>8, BlocksOf
  <2>3. \A i \in {num} : Prepared(i)'
    BY <1>1, <1>4, <1>5, <1>7, <2>2 DEF Wic!part
  <2> QED
    BY <1>3, <2>1, <2>3
<1>10. PreparedInv'
  BY <1>1, <1>2, <1>3, <1>5, <1>6, <1>9 DEF PreparedInv
<1>11. GenInv' /\ OtaBootInv'
  BY <1>1, <1>2 DEF WicInv, GenInv, OtaBootInv, Given
<1>12. StagedInv'
  BY <1>1, <1>2, <1>3, <1>4 DEF StagedInv, Wic!Empty
<1>13. DiskInv'
  BY <1>1, <1>3, NoDisk
<1> QED
  BY <1>1, <1>3, <1>10, <1>11, <1>12, <1>13 DEF WicInv

LEMMA RootStep == ASSUME WicInv, Wic!PrepareRoot PROVE WicInv'
<1>1. /\ wicPc = "configure" /\ wicPc' = "configure" /\ num <= Len(setup.parts) /\ ~Wic!ESP(Wic!part)
      /\ source' = Append(source, Wic!OtaImage) /\ size' = Append(size, 0) /\ num' = num + 1
      /\ UNCHANGED <<setup, OTA_BOOT, disk, gen, deployed, IMGDEPLOYDIR, hdd, linked, boot_img>>
  BY DEF Wic!PrepareRoot, Wic!At, Wic!buildVars
<1>2. wicPc \in Wicking /\ wicPc' \in Wicking /\ wicPc' \notin Staging /\ wicPc \in Given
  BY <1>1 DEF Wicking, Staging, Given
<1>3. /\ setup \in Setups /\ num \in 1 .. Len(setup.parts) /\ Len(setup.parts) \in Nat
      /\ IsFiniteSet(DOMAIN hdd) /\ disk = <<>>
      /\ source \in Seq(Nat) /\ size \in Seq(Nat) /\ Len(source) = num - 1 /\ Len(size) = num - 1
      /\ \A i \in 1 .. num - 1 : Prepared(i)
  BY <1>1, <1>2, LayoutOf DEF WicInv, PreparedInv, StagedInv
<1>4. Wic!OtaImage = deployed /\ deployed \in Nat
  BY <1>2 DEF WicInv, GenInv, Wic!OtaImage
<1>5. /\ source' \in Seq(Nat) /\ Len(source') = num /\ source'[num] = deployed
      /\ \A i \in 1 .. num - 1 : source'[i] = source[i]
  BY <1>1, <1>3, <1>4, AppendProperties
<1>6. /\ size' \in Seq(Nat) /\ Len(size') = num /\ \A i \in 1 .. num - 1 : size'[i] = size[i]
  BY <1>1, <1>3, AppendProperties
<1>7. \A i : Prepared(i)' <=>
        IF Wic!ESP(setup.parts[i])
        THEN source'[i] = 0 /\ boot_img # Wic!Empty /\ boot_img = Target(i) /\ Sized(i)'
        ELSE source'[i] = deployed
  BY <1>1, Unmoved DEF Prepared, Wic!Empty, Wic!ESP
<1>8. \A i \in 1 .. num - 1 : Sized(i) => Sized(i)'
  BY <1>1, <1>6 DEF Sized
<1>9. \A i \in 1 .. num : Prepared(i)'
  <2>1. \A i \in 1 .. num - 1 : Prepared(i)'
    BY <1>3, <1>5, <1>7, <1>8 DEF Prepared
  <2>2. \A i \in {num} : Prepared(i)'
    BY <1>1, <1>5, <1>7 DEF Wic!part
  <2> QED
    BY <1>3, <2>1, <2>2
<1>10. PreparedInv'
  BY <1>1, <1>2, <1>3, <1>5, <1>6, <1>9 DEF PreparedInv
<1>11. GenInv' /\ OtaBootInv'
  BY <1>1, <1>2 DEF WicInv, GenInv, OtaBootInv
<1>12. StagedInv'
  BY <1>1, <1>2, <1>3 DEF WicInv, StagedInv, OwnFilesOnly, Wic!Empty
<1>13. DiskInv'
  BY <1>1, <1>3, NoDisk
<1> QED
  BY <1>1, <1>3, <1>10, <1>11, <1>12, <1>13 DEF WicInv

LEMMA AssembleStep == ASSUME WicInv, Wic!Assemble PROVE WicInv'
<1>1. /\ wicPc = "configure" /\ wicPc' = "complete" /\ num > Len(setup.parts)
      /\ \A i \in DOMAIN size : ~Wic!TooLarge(i)
      /\ disk' = [i \in DOMAIN source |-> IF source[i] = 0 THEN boot_img ELSE Wic!File("root", <<"ota", source[i]>>)]
      /\ UNCHANGED <<setup, OTA_BOOT, gen, deployed, IMGDEPLOYDIR, hdd, boot_img, size>>
  BY DEF Wic!Assemble, Wic!wicVars, Wic!buildVars
<1>2. wicPc \in Wicking /\ wicPc' \notin Wicking /\ wicPc' \notin Staging /\ wicPc \in Given /\ wicPc' # "ext4"
  BY <1>1 DEF Wicking, Staging, Given
<1>3. /\ setup \in Setups /\ Len(setup.parts) \in Nat /\ deployed \in Nat /\ deployed # 0
      /\ source \in Seq(Nat) /\ size \in Seq(Nat)
      /\ DOMAIN source = 1 .. Len(setup.parts) /\ DOMAIN size = 1 .. Len(setup.parts)
      /\ \A i \in 1 .. Len(setup.parts) : Prepared(i)
  <2>1. /\ setup \in Setups /\ Len(setup.parts) \in Nat /\ deployed \in Nat /\ deployed # 0
        /\ num \in Nat \ {0} /\ num <= Len(setup.parts) + 1
        /\ source \in Seq(Nat) /\ size \in Seq(Nat) /\ Len(source) = num - 1 /\ Len(size) = num - 1
        /\ \A i \in 1 .. num - 1 : Prepared(i)
    BY <1>2, LayoutOf DEF WicInv, PreparedInv, GenInv
  <2>2. num - 1 = Len(setup.parts)
    BY <1>1, <2>1
  <2>3. DOMAIN source = 1 .. Len(source) /\ DOMAIN size = 1 .. Len(size)
    BY <2>1, LenProperties
  <2> QED
    BY <2>1, <2>2, <2>3
<1>4. DOMAIN disk' = 1 .. Len(setup.parts)
  BY <1>1, <1>3
<1>0. UNCHANGED <<setup, size, deployed>>
  BY <1>1
<1>5. ASSUME NEW i \in 1 .. Len(setup.parts), Wic!ESP(setup.parts[i])
      PROVE  disk'[i] = Target(i) /\ disk'[i] = boot_img /\ Sized(i)
  BY <1>1, <1>3, <1>5 DEF Prepared
<1>6. ASSUME NEW i \in 1 .. Len(setup.parts), ~Wic!ESP(setup.parts[i])
      PROVE  disk'[i]["root"] = <<"ota", deployed>>
  <2>1. source[i] = deployed
    BY <1>3, <1>6 DEF Prepared
  <2>2. disk'[i] = Wic!File("root", <<"ota", deployed>>)
    BY <1>1, <1>3, <2>1
  <2> QED
    BY <2>2, FileOf
<1>7. BootMatchesRoot'
  <2> SUFFICES ASSUME NEW i \in 1 .. Len(setup.parts), NEW j \in 1 .. Len(setup.parts),
                      Wic!ESP(setup.parts[i]), ~Wic!ESP(setup.parts[j]), "entries" \in DOMAIN disk'[i]
               PROVE  disk'[i]["entries"] = disk'[j]["root"]
    BY <1>0, <1>4 DEF BootMatchesRoot, Wic!BootMatchesRoot, Wic!ESP
  <2>1. disk'[i]["entries"] = <<"ota", deployed>>
    BY <1>3, <1>5, TargetOf
  <2> QED
    BY <1>6, <2>1
<1>8. EspContent'
  BY <1>0, <1>4, <1>5 DEF EspContent, Wic!EspContent, Wic!ESP, Target
<1>9. BlocksFit'
  <2> SUFFICES ASSUME NEW i \in 1 .. Len(setup.parts), Wic!ESP(setup.parts[i])
               PROVE  /\ setup.parts[i].fixed # 0 => size[i] = setup.parts[i].fixed
                      /\ size[i] >= FileBlocks * Cardinality(DOMAIN disk'[i]) + BOOTDD_EXTRA_SPACE
                      /\ size[i] >= setup.parts[i].size
    BY <1>0, <1>4, SameCardinality DEF BlocksFit, Wic!BlocksFit, Wic!ESP
  <2>1. Sized(i) /\ disk'[i] = boot_img
    BY <1>5
  <2>2. setup.parts[i].fixed # 0 => ~(size[i] > setup.parts[i].fixed)
    BY <1>1, <1>3 DEF Wic!TooLarge
  <2>3. setup.parts[i].fixed \in Nat
    BY <1>3, LayoutOf
  <2> QED
    BY <2>1, <2>2, <2>3 DEF Sized
<1>10. GenInv'
  BY <1>1, <1>2 DEF WicInv, GenInv
<1>11. OtaBootInv' /\ StagedInv' /\ PreparedInv'
  BY <1>1, <1>2 DEF WicInv, OtaBootInv, StagedInv, PreparedInv, OwnFilesOnly
<1> QED
  BY <1>1, <1>3, <1>7, <1>8, <1>9, <1>10, <1>11 DEF WicInv, DiskInv

LEMMA WicInit == Wic!Init => WicInv
<1> SUFFICES ASSUME Wic!Init PROVE WicInv
    OBVIOUS
<1>1. /\ setup \in Setups /\ wicPc = "idle" /\ gen = 0 /\ deployed = 0 /\ OTA_BOOT = Wic!Empty
      /\ IMGDEPLOYDIR = 0 /\ disk = <<>>
  BY DEF Wic!Init
<1>2. wicPc \notin {"ota", "ext4"} \union Given
  BY <1>1 DEF Given, Wicking, Staging
<1>3. GenInv
  BY <1>1, <1>2 DEF GenInv
<1>4. OtaBootInv
  BY <1>1, <1>2, EmptyOf DEF OtaBootInv, Given
<1>5. StagedInv /\ PreparedInv
  BY <1>1, <1>2 DEF StagedInv, PreparedInv, OwnFilesOnly, Given, Wicking, Staging
<1>6. DOMAIN disk = {}
  BY <1>1
<1>7. DiskInv
  BY <1>1, <1>6 DEF DiskInv, BootMatchesRoot, Wic!BootMatchesRoot, BlocksFit, Wic!BlocksFit,
                    EspContent, Wic!EspContent
<1> QED
  BY <1>1, <1>3, <1>4, <1>5, <1>7 DEF WicInv

LEMMA WicStep == WicInv /\ [Wic!Next]_(Wic!vars) => WicInv'
<1> SUFFICES ASSUME WicInv, [Wic!Next]_(Wic!vars) PROVE WicInv'
    OBVIOUS
<1>1. CASE Wic!TaskFails \/ Wic!ConfigureFails \/ Wic!BootFilesFail \/ Wic!InstallFileFails \/ Wic!MakeFails
             \/ Wic!AssembleFails \/ Wic!Abort
  BY <1>1, Stops DEF Wic!TaskFails, Wic!ConfigureFails, Wic!BootFilesFail, Wic!InstallFileFails, Wic!MakeFails,
                     Wic!AssembleFails, Wic!Abort, Wic!Raise
<1>2. CASE UNCHANGED Wic!vars
  <2>1. UNCHANGED <<setup, wicPc, OTA_BOOT, disk, num, hdd, linked, install_task, boot_img, source, size,
                    gen, deployed, IMGDEPLOYDIR>>
    BY <1>2 DEF Wic!vars, Wic!wicVars, Wic!buildVars
  <2>2. GenInv' /\ OtaBootInv'
    BY <2>1 DEF WicInv, GenInv, OtaBootInv
  <2>3. \A f : Right(f)' = Right(f)
    BY <2>1, Unmoved DEF Right
  <2>4. StagedInv'
    BY <2>1, <2>3, Unmoved DEF WicInv, StagedInv, OwnFilesOnly, Waiting, Dsts, Wic!part, Wic!ESP, Wic!Empty
  <2>5. PreparedInv'
    BY <2>1, Unmoved DEF WicInv, PreparedInv, Prepared, Sized, Wic!ESP, Wic!Empty
  <2>6. DiskInv'
    BY <2>1 DEF WicInv, DiskInv, BootMatchesRoot, Wic!BootMatchesRoot, BlocksFit, Wic!BlocksFit,
                EspContent, Wic!EspContent, Wic!ESP
  <2> QED
    BY <2>1, <2>2, <2>4, <2>5, <2>6 DEF WicInv
<1> QED
  BY <1>1, <1>2, TasksStep, ConfigureStep, ListStep, InstallStep, LoaderStep, MakeStep, RootStep, AssembleStep
     DEF Wic!Next, Wic!Configure, Wic!Prepare

THEOREM WicInvariant == BuildSpec => []WicInv
BY WicInit, WicStep, Parts, PTL DEF Wic!Spec

\* The boot entries and the root file system of a disk are of one generation, for any layout, loader and
\* number of builds that may fail at any task (otaimage, bootimg_sota_efi).
THEOREM OneGeneration == BuildSpec => []BootMatchesRoot
BY WicInvariant, PTL DEF WicInv, DiskInv

\* Each ESP holds the files of its own partition and no others, although they are staged in one directory
\* through links into the input of the next run (do_prepare_partition).
THEOREM OwnContent == BuildSpec => []EspContent
BY WicInvariant, PTL DEF WicInv, DiskInv

\* Each ESP is as large as asked for and filled when its size is fixed (do_prepare_partition).
THEOREM SizesFit == BuildSpec => []BlocksFit
BY WicInvariant, PTL DEF WicInv, DiskInv

-----------------------------------------------------------------------------
(* Part 4.  The recipes.  A name that is in the list and not yet gone into  *)
(* is one that an activation of find_dependencies still has to go into, so  *)
(* when the last returns nothing is missing.                                *)

\* Induction over the natural numbers, for a set of them.
LEMMA Inductive ==
  ASSUME NEW S, 0 \in S, \A n \in Nat : n \in S => n + 1 \in S
  PROVE  \A n \in Nat : n \in S
<1> DEFINE Missing == {n \in Nat : n \notin S}
<1> SUFFICES ASSUME Missing # {} PROVE FALSE
    OBVIOUS
<1>0. Missing \subseteq Nat
  OBVIOUS
<1>1. PICK x \in Missing : \A y \in Missing : ~(<<y, x>> \in OpToRel(<, Nat))
  <2> HIDE DEF Missing
  <2> QED BY <1>0, WFMin, NatLessThanWellFounded
<1>2. x \in Nat \ {0}
  BY <1>1
<1>3. <<x - 1, x>> \in OpToRel(<, Nat)
  BY <1>2 DEF OpToRel
<1>4. x - 1 \in Nat /\ x - 1 \in S /\ (x - 1) + 1 = x
  <2>1. x - 1 \in Nat /\ (x - 1) + 1 = x
    BY <1>2
  <2>2. x - 1 \notin Missing
    <3> HIDE DEF Missing
    <3> QED BY <1>1, <1>3
  <2> QED BY <2>1, <2>2
<1>5. x \in S
  <2>1. (x - 1) + 1 \in S
    BY <1>4
  <2> QED BY <2>1, <1>4
<1> QED
  BY <1>1, <1>5

Kept(d) ==
  LET kept[i \in 0 .. Len(d)] == IF i = 0 THEN <<>>
                                ELSE IF d[i] \in Find!assume_provided THEN kept[i - 1]
                                ELSE Append(kept[i - 1], d[i])
  IN kept[Len(d)]

\* What is kept is in any set that has the names that are not assumed to be provided.
LEMMA KeptIn ==
  ASSUME NEW S, NEW d \in Seq(Names), \A i \in 1 .. Len(d) : d[i] \notin Find!assume_provided => d[i] \in S
  PROVE  Kept(d) \in Seq(S)
<1> DEFINE K(g, i) == IF i = 0 THEN <<>>
                      ELSE IF d[i] \in Find!assume_provided THEN g[i - 1] ELSE Append(g[i - 1], d[i])
           Prefix(m) == \E g \in [0 .. m -> Seq(S)] : \A i \in 0 .. m : g[i] = K(g, i)
           Good == {m \in Nat : m <= Len(d) => Prefix(m)}
           kept == CHOOSE g : g = [i \in 0 .. Len(d) |-> K(g, i)]
<1>0. Len(d) \in Nat
  OBVIOUS
<1>1. 0 \in Good
  <2> DEFINE g == [i \in 0 .. 0 |-> <<>>]
  <2>1. g \in [0 .. 0 -> Seq(S)] /\ \A i \in 0 .. 0 : g[i] = K(g, i)
    <3>1. \A i \in 0 .. 0 : i = 0 /\ g[i] = <<>>
      OBVIOUS
    <3>2. g \in [0 .. 0 -> Seq(S)]
      <4>1. <<>> \in Seq(S)
        OBVIOUS
      <4> QED BY <4>1
    <3> QED BY <3>1, <3>2
  <2> QED BY <2>1
<1>2. ASSUME NEW m \in Nat, m \in Good PROVE m + 1 \in Good
  <2> SUFFICES ASSUME m + 1 <= Len(d) PROVE Prefix(m + 1)
    <3> HIDE DEF Prefix
    <3> QED OBVIOUS
  <2>0. m <= Len(d)
    BY <1>0
  <2>1. PICK g \in [0 .. m -> Seq(S)] : \A i \in 0 .. m : g[i] = K(g, i)
    <3> HIDE DEF K
    <3> QED BY <1>2, <2>0
  <2> DEFINE h == [i \in 0 .. m + 1 |-> IF i = m + 1 THEN K(g, i) ELSE g[i]]
  <2>2. K(g, m + 1) \in Seq(S)
    BY <1>0, <2>1
  <2>3. h \in [0 .. m + 1 -> Seq(S)]
    <3> HIDE DEF K
    <3> QED BY <2>1, <2>2
  <2>4. \A i \in 0 .. m + 1 : h[i] = K(h, i)
    <3> SUFFICES ASSUME NEW i \in 0 .. m + 1 PROVE h[i] = K(h, i)
        OBVIOUS
    <3>1. i # 0 => h[i - 1] = g[i - 1]
      OBVIOUS
    <3>2. K(h, i) = K(g, i)
      BY <3>1
    <3>3. h[i] = K(g, i)
      <4>1. h[i] = IF i = m + 1 THEN K(g, i) ELSE g[i]
        <5> HIDE DEF K
        <5> QED OBVIOUS
      <4>2. i # m + 1 => i \in 0 .. m
        OBVIOUS
      <4> HIDE DEF K, h
      <4> QED BY <2>1, <4>1, <4>2
    <3> HIDE DEF K, h
    <3> QED BY <3>2, <3>3
  <2> HIDE DEF K, h
  <2> QED BY <2>3, <2>4
<1>3. Len(d) \in Good
  <2> HIDE DEF Good
  <2> QED BY <1>0, <1>1, <1>2, Inductive
<1>4. PICK g \in [0 .. Len(d) -> Seq(S)] : \A i \in 0 .. Len(d) : g[i] = K(g, i)
  <2> HIDE DEF K
  <2> QED BY <1>0, <1>3
<1>5. g = [i \in 0 .. Len(d) |-> K(g, i)]
  <2> HIDE DEF K
  <2> QED BY <1>4
<1>6. kept = [i \in 0 .. Len(d) |-> K(kept, i)]
  BY <1>5
<1> DEFINE Typed == {m \in Nat : m <= Len(d) => kept[m] \in Seq(S)}
<1> HIDE DEF kept
<1>7. \A i \in 0 .. Len(d) : kept[i] = K(kept, i)
  <2> HIDE DEF K
  <2> QED BY <1>6
<1>8. 0 \in Typed
  <2>1. kept[0] = K(kept, 0)
    <3> HIDE DEF K
    <3> QED BY <1>0, <1>7
  <2>2. kept[0] = <<>>
    BY <2>1
  <2>3. kept[0] \in Seq(S)
    BY <2>2, EmptySeq
  <2> QED BY <2>3
<1>9. ASSUME NEW m \in Nat, m \in Typed PROVE m + 1 \in Typed
  <2> SUFFICES ASSUME m + 1 <= Len(d) PROVE kept[m + 1] \in Seq(S)
      OBVIOUS
  <2>1. kept[m + 1] = K(kept, m + 1)
    <3> HIDE DEF K
    <3> QED BY <1>0, <1>7
  <2>2. kept[m] \in Seq(S) /\ (d[m + 1] \notin Find!assume_provided => d[m + 1] \in S)
    BY <1>0, <1>9
  <2> QED BY <2>1, <2>2
<1>10. Len(d) \in Typed
  <2> HIDE DEF Typed
  <2> QED BY <1>0, <1>8, <1>9, Inductive
<1> QED
  BY <1>0, <1>10 DEF kept, Kept

LEMMA KeptType ==
  ASSUME NEW d \in Seq(Names)
  PROVE  Kept(d) \in Seq(Names) /\ ToSet(Kept(d)) \subseteq ToSet(d) \ Find!assume_provided
<1>1. Kept(d) \in Seq(Names)
  BY KeptIn
<1>2. Kept(d) \in Seq(ToSet(d) \ Find!assume_provided)
  BY KeptIn DEF ToSet
<1> QED
  BY <1>1, <1>2 DEF ToSet

\* The invariant is about operators of the world, of the list and of a frame, which do not mention the state.
Deps(w, n) == Kept(w.DEPENDS[w.provider[n]])
Lost(w, n) == w.provider[n] = NoRecipe
Needed(w, n) == IF Lost(w, n) THEN {} ELSE ToSet(Deps(w, n))
Met(p) == {Root} \union ToSet(p)
Satisfied(w, p, n) == Needed(w, n) \subseteq ToSet(p)

Frames == [rn : Names, pass : {"add", "descend"}, at : Nat \ {0}]

\* An activation was called with a name that is known; what its first pass went over is known, too.
FrameInv(w, p, f) ==
  /\ f.rn \in Met(p)
  /\ f.pass = "add" => \A i \in DOMAIN Deps(w, f.rn) : i < f.at => Deps(w, f.rn)[i] \in ToSet(p)
  /\ f.pass = "descend" => Satisfied(w, p, f.rn)

\* An activation answers for a name: it is its own, or one that its second pass has yet to call.
Answers(w, f, n) ==
  \/ n = f.rn
  \/ \E i \in DOMAIN Deps(w, f.rn) : Deps(w, f.rn)[i] = n /\ (f.pass = "add" \/ f.at <= i)

Walk(w, p, st) ==
  /\ \A n \in Met(p) : ~Lost(w, n)
  /\ \A k \in DOMAIN st : FrameInv(w, p, st[k])
  /\ \A n \in Met(p) : Satisfied(w, p, n) \/ \E k \in DOMAIN st : Answers(w, st[k], n)

FindInv ==
  /\ world \in Worlds /\ packages \in Seq(Names) /\ stack \in Seq(Frames)
  /\ findPc \in {"start", "nothing"} => packages = <<>>
  /\ findPc \in {"walk", "print", "done"} => recipe_info = Met(packages) /\ Walk(world, packages, stack)
  /\ findPc \in {"print", "done"} => \A n \in Met(packages) : Satisfied(world, packages, n)

LEMMA Translated ==
  /\ \A n : /\ Find!Depends(n) = Deps(world, n) /\ (Find!Fails(n) <=> Lost(world, n))
            /\ Find!Needs(n) = Needed(world, n)
  /\ \A n : /\ Find!Depends(n)' = Deps(world', n) /\ (Find!Fails(n)' <=> Lost(world', n))
            /\ Find!Needs(n)' = Needed(world', n)
  /\ \A s : Find!ToSet(s) = ToSet(s)
<1>1. \A s : Find!ToSet(s) = ToSet(s)
  BY DEF Find!ToSet, ToSet
<1>2. \A n : Find!Depends(n) = Deps(world, n) /\ (Find!Fails(n) <=> Lost(world, n))
  BY DEF Find!Depends, Find!Fails, Find!pn, Deps, Kept, Lost
<1>3. \A n : Find!Depends(n)' = Deps(world', n) /\ (Find!Fails(n)' <=> Lost(world', n))
  BY DEF Find!Depends, Find!Fails, Find!pn, Deps, Kept, Lost
<1>4. \A n : Find!Needs(n) = Needed(world, n)
  BY <1>1, <1>2 DEF Find!Needs, Needed
<1>5. \A n : Find!Needs(n)' = Needed(world', n)
  BY <1>1, <1>3 DEF Find!Needs, Needed
<1> QED BY <1>1, <1>2, <1>3, <1>4, <1>5

LEMMA DepsType ==
  ASSUME NEW w \in Worlds, NEW n \in Names
  PROVE  /\ ~Lost(w, n) => Deps(w, n) \in Seq(Names)
         /\ Needed(w, n) \subseteq Names
<1>1. ASSUME ~Lost(w, n) PROVE Deps(w, n) \in Seq(Names)
  <2>1. w.provider[n] \in Recipes /\ w.DEPENDS[w.provider[n]] \in Seq(Names)
    BY <1>1, FindAssumption DEF Find!DependsAssumption, Lost
  <2> QED BY <2>1, KeptType DEF Deps
<1> QED BY <1>1 DEF Needed, ToSet

LEMMA TopIs ==
  ASSUME NEW st \in Seq(Frames), st # <<>>, NEW x \in Frames
  PROVE  LET s == [st EXCEPT ![Len(st)] = x]
         IN  /\ Len(st) \in Nat \ {0} /\ Len(st) \in DOMAIN st /\ st[Len(st)] \in Frames
             /\ s \in Seq(Frames) /\ DOMAIN s = DOMAIN st /\ Len(s) = Len(st) /\ s[Len(st)] = x
             /\ \A k \in DOMAIN st : k # Len(st) => s[k] = st[k]
OBVIOUS

\* One more name, that no frame has to answer for: all that was satisfied is.
LEMMA MoreNames ==
  ASSUME NEW p \in Seq(Names), NEW d \in Names
  PROVE  /\ Append(p, d) \in Seq(Names) /\ ToSet(Append(p, d)) = ToSet(p) \union {d}
         /\ Met(Append(p, d)) = Met(p) \union {d}
<1>1. Append(p, d) \in Seq(Names) /\ ToSet(Append(p, d)) = ToSet(p) \union {d}
  BY AppendProperties DEF ToSet
<1> QED BY <1>1 DEF Met

\* The running activation goes on as x.
LEMMA WalkOn ==
  ASSUME NEW w, NEW p, NEW st \in Seq(Frames), st # <<>>, NEW x \in Frames, Walk(w, p, st), FrameInv(w, p, x),
         \A n \in Met(p) : Answers(w, st[Len(st)], n) => Satisfied(w, p, n) \/ Answers(w, x, n)
  PROVE  Walk(w, p, [st EXCEPT ![Len(st)] = x])
BY TopIs DEF Walk

\* The running activation, and the name it is at.
TopFrame == stack[Len(stack)]
TopDep == Deps(world, TopFrame.rn)[TopFrame.at]

LEMMA Running ==
  ASSUME FindInv, findPc = "walk", stack # <<>>
  PROVE  /\ Find!Top = TopFrame /\ Find!Dep = TopDep /\ TopFrame \in Frames /\ TopFrame.rn \in Met(packages) /\ TopFrame.rn \in Names
         /\ Deps(world, TopFrame.rn) \in Seq(Names) /\ FrameInv(world, packages, TopFrame)
         /\ Needed(world, TopFrame.rn) = ToSet(Deps(world, TopFrame.rn))
         /\ TopFrame.at <= Len(Deps(world, TopFrame.rn)) =>
              /\ TopFrame.at \in DOMAIN Deps(world, TopFrame.rn) /\ TopDep \in Names /\ TopDep \in Needed(world, TopFrame.rn)
<1>1. TopFrame \in Frames /\ Len(stack) \in DOMAIN stack
  BY TopIs DEF FindInv, TopFrame
<1>2. Find!Top = TopFrame /\ Find!Dep = TopDep
  BY Translated DEF Find!Top, Find!Dep, Find!Last, TopFrame, TopDep
<1>3. FrameInv(world, packages, TopFrame) /\ TopFrame.rn \in Names /\ TopFrame.rn \in Met(packages) /\ ~Lost(world, TopFrame.rn)
  BY <1>1 DEF FindInv, Walk, FrameInv, Frames, TopFrame
<1>4. Deps(world, TopFrame.rn) \in Seq(Names)
  BY <1>3, DepsType DEF FindInv
<1>5. Needed(world, TopFrame.rn) = ToSet(Deps(world, TopFrame.rn))
  BY <1>3 DEF Needed
<1>6. TopFrame.at \in Nat \ {0}
  BY <1>1 DEF Frames
<1>7. ASSUME TopFrame.at <= Len(Deps(world, TopFrame.rn))
      PROVE  TopFrame.at \in DOMAIN Deps(world, TopFrame.rn) /\ TopDep \in Names /\ TopDep \in Needed(world, TopFrame.rn)
  BY <1>4, <1>5, <1>6, <1>7 DEF TopDep, ToSet
<1> QED BY <1>1, <1>2, <1>3, <1>4, <1>5, <1>7

LEMMA FrameFields ==
  ASSUME NEW f \in Frames
  PROVE  /\ [f EXCEPT !.at = @ + 1] \in Frames
         /\ [f EXCEPT !.at = @ + 1].rn = f.rn /\ [f EXCEPT !.at = @ + 1].pass = f.pass
         /\ [f EXCEPT !.at = @ + 1].at = f.at + 1
         /\ [f EXCEPT !.pass = "descend", !.at = 1] \in Frames
         /\ [f EXCEPT !.pass = "descend", !.at = 1].rn = f.rn
         /\ [f EXCEPT !.pass = "descend", !.at = 1].pass = "descend"
         /\ [f EXCEPT !.pass = "descend", !.at = 1].at = 1
<1>1. f = [rn |-> f.rn, pass |-> f.pass, at |-> f.at] /\ f.rn \in Names /\ f.pass \in {"add", "descend"} /\ f.at \in Nat \ {0}
  BY DEF Frames
<1>2. [f EXCEPT !.at = @ + 1] = [rn |-> f.rn, pass |-> f.pass, at |-> f.at + 1]
  BY <1>1
<1>3. [f EXCEPT !.pass = "descend", !.at = 1] = [rn |-> f.rn, pass |-> "descend", at |-> 1]
  <2> DEFINE x == [f EXCEPT !.pass = "descend", !.at = 1]
  <2>1. x.rn = f.rn /\ x.pass = "descend" /\ x.at = 1
    BY <1>1
  <2>2. DOMAIN x = {"rn", "pass", "at"}
    BY <1>1
  <2>3. x = [k \in {"rn", "pass", "at"} |-> x[k]]
    BY <2>2
  <2> HIDE DEF x
  <2>4. x = [rn |-> f.rn, pass |-> "descend", at |-> 1]
    BY <2>1, <2>3
  <2> QED BY <2>4 DEF x
<1>4. f.at + 1 \in Nat \ {0}
  BY <1>1
<1>5. [rn |-> f.rn, pass |-> f.pass, at |-> f.at + 1] \in Frames
  BY <1>1, <1>4 DEF Frames
<1>6. [rn |-> f.rn, pass |-> "descend", at |-> 1] \in Frames
  BY <1>1 DEF Frames
<1> QED BY <1>2, <1>3, <1>5, <1>6

Advanced == [TopFrame EXCEPT !.at = @ + 1]

LEMMA KnownStep == FindInv /\ Find!Known => FindInv'
<1> SUFFICES ASSUME FindInv, Find!Known PROVE FindInv'
    OBVIOUS
<1>1. /\ findPc = "walk" /\ stack # <<>> /\ TopFrame.pass = "add" /\ TopFrame.at <= Len(Deps(world, TopFrame.rn)) /\ TopDep \in ToSet(packages)
      /\ stack' = [stack EXCEPT ![Len(stack)] = Advanced]
      /\ UNCHANGED <<world, findPc, packages, recipe_info>>
  BY Running, Translated DEF Find!Known, Find!Pending, Find!Advance, Find!SetTop, Advanced
<1>2. Advanced \in Frames /\ Advanced.rn = TopFrame.rn /\ Advanced.pass = "add" /\ Advanced.at = TopFrame.at + 1 /\ TopFrame.at \in Nat
  BY <1>1, Running, FrameFields DEF Advanced, Frames
<1>3. FrameInv(world, packages, Advanced)
  BY <1>1, <1>2, Running DEF FrameInv, TopDep
<1>4. \A n : Answers(world, TopFrame, n) => Answers(world, Advanced, n)
  BY <1>1, <1>2 DEF Answers
<1>5. stack \in Seq(Frames) /\ Walk(world, packages, stack)
  BY <1>1 DEF FindInv
<1>6. Walk(world, packages, [stack EXCEPT ![Len(stack)] = Advanced])
  BY <1>1, <1>2, <1>3, <1>4, <1>5, WalkOn DEF TopFrame
<1>7. [stack EXCEPT ![Len(stack)] = Advanced] \in Seq(Frames)
  BY <1>1, <1>2, <1>5, TopIs
<1> QED BY <1>1, <1>6, <1>7 DEF FindInv

LEMMA AllAddedStep == FindInv /\ Find!AllAdded => FindInv'
<1> SUFFICES ASSUME FindInv, Find!AllAdded PROVE FindInv'
    OBVIOUS
<1> DEFINE x == [TopFrame EXCEPT !.pass = "descend", !.at = 1]
<1>1. /\ findPc = "walk" /\ stack # <<>> /\ TopFrame.pass = "add" /\ TopFrame.at > Len(Deps(world, TopFrame.rn))
      /\ stack' = [stack EXCEPT ![Len(stack)] = x]
      /\ UNCHANGED <<world, findPc, packages, recipe_info>>
  BY Running, Translated DEF Find!AllAdded, Find!SetTop
<1>2. x \in Frames /\ x.rn = TopFrame.rn /\ x.pass = "descend" /\ x.at = 1 /\ TopFrame.at \in Nat
  BY <1>1, Running, FrameFields DEF Frames
<1> HIDE DEF x
<1>3. FrameInv(world, packages, x)
  <2>1. \A i \in DOMAIN Deps(world, TopFrame.rn) : i < TopFrame.at
    BY <1>1, <1>2, Running
  <2>2. Satisfied(world, packages, TopFrame.rn)
    BY <1>1, <2>1, Running DEF FrameInv, Satisfied, ToSet
  <2> QED BY <1>1, <1>2, <2>2, Running DEF FrameInv
<1>4. \A n : Answers(world, TopFrame, n) => Answers(world, x, n)
  BY <1>1, <1>2, Running DEF Answers
<1>5. stack \in Seq(Frames) /\ Walk(world, packages, stack)
  BY <1>1 DEF FindInv
<1>6. Walk(world, packages, [stack EXCEPT ![Len(stack)] = x])
  BY <1>1, <1>2, <1>3, <1>4, <1>5, WalkOn DEF TopFrame
<1>7. [stack EXCEPT ![Len(stack)] = x] \in Seq(Frames)
  BY <1>1, <1>2, <1>5, TopIs
<1> QED BY <1>1, <1>6, <1>7 DEF FindInv

LEMMA LookupStep == FindInv /\ Find!Lookup => FindInv'
<1> SUFFICES ASSUME FindInv, Find!Lookup PROVE FindInv'
    OBVIOUS
<1> DEFINE p == Append(packages, TopDep)
<1>1. /\ findPc = "walk" /\ stack # <<>> /\ TopFrame.pass = "add" /\ TopFrame.at <= Len(Deps(world, TopFrame.rn))
      /\ ~Lost(world, TopDep) /\ packages' = p /\ recipe_info' = recipe_info \union {TopDep}
      /\ stack' = [stack EXCEPT ![Len(stack)] = Advanced]
      /\ UNCHANGED <<world, findPc>>
  BY Running, Translated DEF Find!Lookup, Find!Pending, Find!Advance, Find!SetTop, Advanced
<1>2. Advanced \in Frames /\ Advanced.rn = TopFrame.rn /\ Advanced.pass = "add" /\ Advanced.at = TopFrame.at + 1 /\ TopFrame.at \in Nat
  BY <1>1, Running, FrameFields DEF Advanced, Frames
<1>5. stack \in Seq(Frames) /\ Walk(world, packages, stack) /\ recipe_info = Met(packages)
  BY <1>1 DEF FindInv
<1>6. p \in Seq(Names) /\ ToSet(p) = ToSet(packages) \union {TopDep} /\ Met(p) = Met(packages) \union {TopDep}
  BY <1>1, Running, MoreNames DEF FindInv
<1> HIDE DEF p
<1>7. /\ [stack EXCEPT ![Len(stack)] = Advanced] \in Seq(Frames) /\ DOMAIN stack' = DOMAIN stack
      /\ Len(stack) \in DOMAIN stack
      /\ stack'[Len(stack)] = Advanced /\ \A k \in DOMAIN stack : k # Len(stack) => stack'[k] = stack[k]
  BY <1>1, <1>2, <1>5, TopIs
<1>8. \A f : FrameInv(world, packages, f) => FrameInv(world, p, f)
  BY <1>6 DEF FrameInv, Satisfied
<1>9. FrameInv(world, p, Advanced)
  BY <1>1, <1>2, <1>6, Running DEF FrameInv, TopDep
<1>10. \A k \in DOMAIN stack : FrameInv(world, p, stack'[k])
  BY <1>5, <1>7, <1>8, <1>9 DEF Walk
<1>11. \A n : Satisfied(world, packages, n) => Satisfied(world, p, n)
  BY <1>6 DEF Satisfied
<1>12. Answers(world, Advanced, TopDep) /\ \A n : Answers(world, TopFrame, n) => Answers(world, Advanced, n)
  BY <1>1, <1>2, Running DEF Answers, TopDep
<1>13. \A n \in Met(p) : Satisfied(world, p, n) \/ \E k \in DOMAIN stack : Answers(world, stack'[k], n)
  BY <1>5, <1>6, <1>7, <1>11, <1>12 DEF Walk, TopFrame
<1>14. \A n \in Met(p) : ~Lost(world, n)
  BY <1>1, <1>5, <1>6 DEF Walk
<1>15. Walk(world, p, stack')
  BY <1>7, <1>10, <1>13, <1>14 DEF Walk
<1> QED BY <1>1, <1>5, <1>6, <1>7, <1>15 DEF FindInv

LEMMA DescendStep == FindInv /\ Find!Descend => FindInv'
<1> SUFFICES ASSUME FindInv, Find!Descend PROVE FindInv'
    OBVIOUS
<1> DEFINE y == [rn |-> TopDep, pass |-> "add", at |-> 1]
           st == [stack EXCEPT ![Len(stack)] = Advanced]
<1>1. /\ findPc = "walk" /\ stack # <<>> /\ TopFrame.pass = "descend" /\ TopFrame.at <= Len(Deps(world, TopFrame.rn))
      /\ stack' = Append([stack EXCEPT ![Len(stack)].at = @ + 1], y)
      /\ UNCHANGED <<world, findPc, packages, recipe_info>>
  BY Running, Translated DEF Find!Descend, Find!Pending, Find!Frame
<1>2. Advanced \in Frames /\ Advanced.rn = TopFrame.rn /\ Advanced.pass = "descend" /\ Advanced.at = TopFrame.at + 1 /\ TopFrame.at \in Nat
  BY <1>1, Running, FrameFields DEF Advanced, Frames
<1>3. stack \in Seq(Frames) /\ Walk(world, packages, stack)
  BY <1>1 DEF FindInv
<1>4. [stack EXCEPT ![Len(stack)].at = @ + 1] = st
  BY DEF TopFrame, Advanced
<1>5. /\ st \in Seq(Frames) /\ Len(st) = Len(stack) /\ st[Len(stack)] = Advanced
      /\ \A k \in DOMAIN stack : k # Len(stack) => st[k] = stack[k]
      /\ DOMAIN st = DOMAIN stack /\ Len(stack) \in DOMAIN stack
  BY <1>1, <1>2, <1>3, TopIs
<1>6. y \in Frames /\ y.rn = TopDep /\ y.pass = "add" /\ y.at = 1
  BY <1>1, Running DEF Frames
<1> HIDE DEF y, st
<1>7. /\ Append(st, y) \in Seq(Frames) /\ DOMAIN Append(st, y) = DOMAIN stack \union {Len(stack) + 1}
      /\ Append(st, y)[Len(stack) + 1] = y /\ \A k \in DOMAIN stack : Append(st, y)[k] = st[k]
  BY <1>5, <1>6, AppendProperties
<1>8. TopDep \in Met(packages)
  BY <1>1, Running DEF FrameInv, Satisfied, Met
<1>9. FrameInv(world, packages, y)
  <2>1. \A i \in DOMAIN Deps(world, TopDep) : ~(i < 1)
    <3>1. TopDep \in Names /\ ~Lost(world, TopDep)
      BY <1>1, <1>3, <1>8, Running DEF Walk
    <3>2. Deps(world, TopDep) \in Seq(Names)
      BY <3>1, DepsType DEF FindInv
    <3> QED BY <3>2
  <2> QED BY <1>6, <1>8, <2>1 DEF FrameInv
<1>10. FrameInv(world, packages, Advanced)
  BY <1>1, <1>2, Running DEF FrameInv
<1>11. \A k \in DOMAIN Append(st, y) : FrameInv(world, packages, Append(st, y)[k])
  BY <1>3, <1>5, <1>7, <1>9, <1>10 DEF Walk
<1>12. \A n : Answers(world, TopFrame, n) => Answers(world, Advanced, n) \/ n = TopDep
  <2>1. \A i \in DOMAIN Deps(world, TopFrame.rn) : TopFrame.at <= i => i = TopFrame.at \/ Advanced.at <= i
    BY <1>1, <1>2, Running
  <2> QED BY <1>1, <1>2, <2>1 DEF Answers, TopDep
<1>13. Answers(world, y, TopDep)
  BY <1>6 DEF Answers
<1>14. \A n \in Met(packages) :
         Satisfied(world, packages, n) \/ \E k \in DOMAIN Append(st, y) : Answers(world, Append(st, y)[k], n)
  BY <1>3, <1>5, <1>7, <1>12, <1>13 DEF Walk, TopFrame
<1>15. Walk(world, packages, Append(st, y))
  BY <1>3, <1>11, <1>14 DEF Walk
<1> QED BY <1>1, <1>4, <1>7, <1>15 DEF FindInv

LEMMA ReturnStep == FindInv /\ Find!Return => FindInv'
<1> SUFFICES ASSUME FindInv, Find!Return PROVE FindInv'
    OBVIOUS
<1> DEFINE st == SubSeq(stack, 1, Len(stack) - 1)
<1>1. /\ findPc = "walk" /\ stack # <<>> /\ TopFrame.pass = "descend" /\ TopFrame.at > Len(Deps(world, TopFrame.rn))
      /\ stack' = st /\ (Len(stack) > 1 => findPc' = "walk") /\ (~(Len(stack) > 1) => findPc' = "print")
      /\ UNCHANGED <<world, packages, recipe_info>>
  BY Running, Translated DEF Find!Return, Find!Front
<1>2. stack \in Seq(Frames) /\ Walk(world, packages, stack) /\ recipe_info = Met(packages)
  BY <1>1 DEF FindInv
<1>3. /\ Len(stack) \in Nat \ {0} /\ st \in Seq(Frames) /\ DOMAIN st = DOMAIN stack \ {Len(stack)}
      /\ \A k \in DOMAIN st : st[k] = stack[k]
  <2>1. Len(stack) \in Nat \ {0} /\ \A k \in 1 .. Len(stack) : stack[k] \in Frames
    BY <1>1, <1>2, TopIs
  <2>2. \A k \in 1 .. Len(stack) - 1 : stack[k] \in Frames
    BY <2>1
  <2>3. 1 \in 1 .. Len(stack) + 1 /\ Len(stack) - 1 \in 0 .. Len(stack)
    BY <2>1
  <2>4. st \in Seq(Frames) /\ Len(st) = Len(stack) - 1 /\ \A k \in 1 .. Len(stack) - 1 : st[k] = stack[k]
    <3>1. /\ st \in Seq(Frames)
          /\ Len(st) = IF 1 <= Len(stack) - 1 THEN Len(stack) - 1 - 1 + 1 ELSE 0
          /\ \A k \in 1 .. Len(stack) - 1 - 1 + 1 : st[k] = stack[1 + k - 1]
      <4>1. 1 \in Int /\ Len(stack) - 1 \in Int
        BY <2>1
      <4> QED BY ONLY <2>2, <4>1, SubSeqProperties
    <3> HIDE DEF st
    <3>2. Len(st) = Len(stack) - 1
      <4>1. \A l \in Nat \ {0} : (IF 1 <= l - 1 THEN l - 1 - 1 + 1 ELSE 0) = l - 1
        OBVIOUS
      <4> QED BY <2>1, <3>1, <4>1
    <3>3. \A k \in 1 .. Len(stack) - 1 : k \in 1 .. Len(stack) - 1 - 1 + 1 /\ 1 + k - 1 = k
      BY <2>1
    <3>4. \A k \in 1 .. Len(stack) - 1 : st[k] = stack[k]
      BY <3>1, <3>3
    <3> QED BY <3>1, <3>2, <3>4
  <2> QED BY <1>2, <2>1, <2>4, LenProperties
<1> HIDE DEF st
<1>4. \A n : Answers(world, TopFrame, n) => Satisfied(world, packages, n)
  <2>1. \A i \in DOMAIN Deps(world, TopFrame.rn) : ~(TopFrame.at <= i)
    BY <1>1, Running DEF Frames
  <2> QED BY <1>1, <2>1, Running DEF Answers, FrameInv
<1>5. Walk(world, packages, st)
  BY <1>2, <1>3, <1>4 DEF Walk, TopFrame
<1>6. ~(Len(stack) > 1) => DOMAIN st = {}
  BY <1>2, <1>3
<1>7. ~(Len(stack) > 1) => \A n \in Met(packages) : Satisfied(world, packages, n)
  BY <1>5, <1>6 DEF Walk
<1> QED BY <1>1, <1>2, <1>3, <1>5, <1>7 DEF FindInv

LEMMA FindInitial == Find!Init => FindInv
BY EmptySeq DEF Find!Init, FindInv

LEMMA FindStep == FindInv /\ [Find!Next]_(Find!vars) => FindInv'
<1> SUFFICES ASSUME FindInv, [Find!Next]_(Find!vars) PROVE FindInv'
    OBVIOUS
<1>1. CASE UNCHANGED Find!vars
  BY <1>1 DEF Find!vars, FindInv
<1>2. CASE Find!NothingToDo \/ Find!ProjectFails
  BY <1>2 DEF Find!NothingToDo, Find!ProjectFails, FindInv
<1>3. CASE Find!PrintProject
  <2>1. /\ findPc = "start" /\ findPc' = "walk" /\ ~Lost(world, Root) /\ recipe_info' = {Root}
        /\ stack' = <<[rn |-> Root, pass |-> "add", at |-> 1]>> /\ UNCHANGED <<world, packages>>
    BY <1>3, Translated DEF Find!PrintProject, Find!Frame
  <2>2. packages = <<>> /\ Met(packages) = {Root} /\ Root \in Names
    BY <2>1, FindAssumption DEF FindInv, Met, ToSet, Find!DependsAssumption
  <2>3. stack' \in Seq(Frames) /\ DOMAIN stack' = {1} /\ stack'[1] = [rn |-> Root, pass |-> "add", at |-> 1]
    BY <2>1, <2>2 DEF Frames
  <2>4. FrameInv(world, packages, stack'[1]) /\ Answers(world, stack'[1], Root)
    <3>1. Deps(world, Root) \in Seq(Names)
      BY <2>1, <2>2, DepsType DEF FindInv
    <3> QED BY <2>2, <2>3, <3>1 DEF FrameInv, Answers
  <2>5. Walk(world, packages, stack')
    BY <2>1, <2>2, <2>3, <2>4 DEF Walk
  <2> QED BY <2>1, <2>2, <2>3, <2>5 DEF FindInv
<1>4. CASE Find!LookupFails
  <2>1. findPc = "walk" /\ stack # <<>> /\ TopFrame.at <= Len(Deps(world, TopFrame.rn))
    BY <1>4, Running, Translated DEF Find!LookupFails, Find!Pending
  <2>2. packages' \in Seq(Names)
    BY <1>4, <2>1, Running, AppendProperties DEF Find!LookupFails, FindInv
  <2> QED BY <1>4, <2>2 DEF Find!LookupFails, FindInv
<1>5. CASE Find!PrintPackage \/ Find!PackageFails \/ Find!Close
  BY <1>5 DEF Find!PrintPackage, Find!PackageFails, Find!Close, FindInv
<1> QED
  BY <1>1, <1>2, <1>3, <1>4, <1>5, KnownStep, LookupStep, AllAddedStep, DescendStep, ReturnStep DEF Find!Next

THEOREM FindInvariant == BuildSpec => []FindInv
BY FindInitial, FindStep, Parts, PTL

\* The list as an abstract collection: names that were looked up without a recipe do not count.
Graph == [n \in Names |-> Find!Needs(n)]
Gathered == Find!ToSet(packages) \intersect recipe_info

LEMMA Collected ==
  /\ Graph = [n \in Names |-> Needed(world, n)] /\ Graph' = [n \in Names |-> Needed(world', n)]
  /\ Gathered = ToSet(packages) \intersect recipe_info /\ Gathered' = ToSet(packages') \intersect recipe_info'
<1>1. Graph = [n \in Names |-> Needed(world, n)]
  BY Translated DEF Graph
<1>2. Graph' = [n \in Names |-> Needed(world', n)]
  BY Translated DEF Graph
<1> QED BY <1>1, <1>2, Translated DEF Gathered

LEMMA ClosureInit == Find!Init => Find!Closure!Init
<1> SUFFICES ASSUME Find!Init PROVE Find!Closure!Init
    OBVIOUS
<1>1. world \in Worlds /\ packages = <<>> /\ findPc = "start"
  BY DEF Find!Init
<1>2. Graph \in [Names -> SUBSET Names]
  BY <1>1, DepsType, Collected
<1>3. Gathered = {}
  BY <1>1, Collected DEF ToSet
<1> QED BY <1>1, <1>2, <1>3 DEF Find!Closure!Init, Graph, Gathered

LEMMA ClosureStep ==
  FindInv /\ [Find!Next]_(Find!vars) => [Find!Closure!Next]_<<Graph, Gathered, findPc = "done">>
<1> SUFFICES ASSUME FindInv, [Find!Next]_(Find!vars)
             PROVE  Find!Closure!Next \/ UNCHANGED <<Graph, Gathered, findPc = "done">>
    OBVIOUS
<1>1. CASE Find!Lookup
  <2>1. /\ findPc = "walk" /\ stack # <<>> /\ TopFrame.at <= Len(Deps(world, TopFrame.rn)) /\ TopDep \notin ToSet(packages)
        /\ packages' = Append(packages, TopDep) /\ recipe_info' = recipe_info \union {TopDep}
        /\ UNCHANGED <<world, findPc>>
    BY <1>1, Running, Translated DEF Find!Lookup, Find!Pending
  <2>2. recipe_info = Met(packages) /\ TopDep \in Names /\ ToSet(packages') = ToSet(packages) \union {TopDep}
    BY <2>1, Running, MoreNames DEF FindInv
  <2>3. Gathered = ToSet(packages) /\ Gathered' = ToSet(packages) \union {TopDep} /\ Graph' = Graph
    BY <2>1, <2>2, Collected DEF Met
  <2>4. TopFrame.rn \in Gathered \union {Root} /\ TopDep \in Graph[TopFrame.rn] \ Gathered
    <3>1. TopFrame.rn \in Met(packages) /\ TopFrame.rn \in Names /\ TopDep \in Needed(world, TopFrame.rn)
      BY <2>1, Running
    <3> QED BY <2>1, <2>3, <3>1, Collected DEF Met
  <2>5. findPc # "done" /\ findPc' = findPc
    BY <2>1
  <2> QED BY <2>3, <2>4, <2>5 DEF Find!Closure!Next, Find!Closure!Discover, Graph, Gathered
<1>2. CASE Find!Close
  <2>1. findPc = "print" /\ findPc' = "done" /\ UNCHANGED <<world, packages, recipe_info>>
    BY <1>2 DEF Find!Close
  <2>2. /\ Gathered = ToSet(packages) /\ Gathered' = Gathered /\ Graph' = Graph
        /\ \A n \in Met(packages) : n \in Names /\ Needed(world, n) \subseteq ToSet(packages)
    <3>1. Met(packages) \subseteq Names
      BY FindAssumption DEF FindInv, Met, ToSet, Find!DependsAssumption
    <3> QED BY <2>1, <3>1, Collected DEF FindInv, Met, Satisfied
  <2>3. \A n \in Gathered \union {Root} : Graph[n] \subseteq Gathered
    BY <2>2, Collected DEF Met
  <2> QED BY <2>1, <2>2, <2>3 DEF Find!Closure!Next, Find!Closure!Finish, Graph, Gathered
<1>3. CASE Find!LookupFails
  <2>1. /\ findPc = "walk" /\ stack # <<>> /\ TopFrame.at <= Len(Deps(world, TopFrame.rn)) /\ Lost(world, TopDep)
        /\ packages' = Append(packages, TopDep) /\ findPc' = "AttributeError"
        /\ UNCHANGED <<world, recipe_info>>
    BY <1>3, Running, Translated DEF Find!LookupFails, Find!Pending
  <2>2. TopDep \notin recipe_info /\ ToSet(packages') = ToSet(packages) \union {TopDep}
    BY <2>1, Running, MoreNames DEF FindInv, Walk
  <2> QED BY <2>1, <2>2, Collected
<1>4. CASE Find!PrintProject
  <2>1. packages = <<>> /\ UNCHANGED <<world, packages>> /\ findPc # "done" /\ findPc' # "done"
    BY <1>4 DEF Find!PrintProject, FindInv
  <2> QED BY <2>1, Collected DEF ToSet
<1>5. CASE \/ Find!NothingToDo \/ Find!ProjectFails \/ Find!Known \/ Find!AllAdded \/ Find!Descend \/ Find!Return
           \/ Find!PrintPackage \/ Find!PackageFails \/ UNCHANGED Find!vars
  <2>1. UNCHANGED <<world, packages, recipe_info>> /\ ((findPc = "done") <=> (findPc' = "done"))
    BY <1>5 DEF Find!NothingToDo, Find!ProjectFails, Find!Known, Find!AllAdded, Find!Descend, Find!Return,
                Find!PrintPackage, Find!PackageFails, Find!vars, Find!Pending
  <2> QED BY <2>1, Collected
<1> QED BY <1>1, <1>2, <1>3, <1>4, <1>5 DEF Find!Next

\* For any graph, with or without cycles, each name is discovered through one that was, and the file is
\* finished only when nothing that a recipe in it needs is missing (find_dependencies).
THEOREM ListImplementsClosure == BuildSpec => FindsClosure
BY ClosureInit, ClosureStep, FindInvariant, Parts, PTL
   DEF FindsClosure, Find!FindsClosure, Find!Closure!Spec, Graph, Gathered

\* What every complete set of names holds, and what is in the file already.
Full(w, S) == Needed(w, Root) \subseteq S /\ \A n \in S : Needed(w, n) \subseteq S

PackagesInv ==
  /\ IsInjective(packages)
  /\ \A S \in SUBSET Names : Full(world, S) => ToSet(packages) \subseteq S
  /\ listed \in Seq(Recipes \union {NoRecipe}) /\ Len(listed) <= Len(packages)
  /\ findPc \in {"start", "nothing", "walk"} => listed = <<>>
  /\ \A i \in DOMAIN listed : listed[i] = world.provider[packages[i]]
  /\ findPc = "done" => Len(listed) = Len(packages)

\* A name that is not in the list is appended.
LEMMA NewName ==
  ASSUME FindInv, PackagesInv, findPc = "walk", stack # <<>>, TopFrame.at <= Len(Deps(world, TopFrame.rn)), TopDep \notin ToSet(packages)
  PROVE  /\ IsInjective(Append(packages, TopDep)) /\ Len(packages) <= Len(Append(packages, TopDep))
         /\ \A S \in SUBSET Names : Full(world, S) => ToSet(Append(packages, TopDep)) \subseteq S
         /\ listed = <<>>
<1>1. packages \in Seq(Names) /\ TopDep \in Names /\ listed = <<>> /\ TopDep \in Needed(world, TopFrame.rn) /\ TopFrame.rn \in Met(packages)
  BY Running DEF FindInv, PackagesInv
<1>2. ToSet(Append(packages, TopDep)) = ToSet(packages) \union {TopDep}
  BY <1>1, MoreNames
<1>3. /\ Len(packages) \in Nat /\ DOMAIN Append(packages, TopDep) = 1 .. Len(packages) + 1 /\ DOMAIN packages = 1 .. Len(packages)
      /\ Append(packages, TopDep)[Len(packages) + 1] = TopDep
      /\ \A i \in 1 .. Len(packages) : Append(packages, TopDep)[i] = packages[i]
      /\ Len(Append(packages, TopDep)) = Len(packages) + 1
  BY <1>1, AppendProperties
<1>4. IsInjective(Append(packages, TopDep))
  <2>1. \A i \in 1 .. Len(packages) : packages[i] # TopDep
    BY <1>3 DEF ToSet
  <2>2. \A a, b \in 1 .. Len(packages) : packages[a] = packages[b] => a = b
    BY <1>3 DEF PackagesInv, IsInjective
  <2>3. \A a \in 1 .. Len(packages) + 1 : a \in 1 .. Len(packages) \/ a = Len(packages) + 1
    BY <1>3
  <2> QED BY <1>3, <2>1, <2>2, <2>3 DEF IsInjective
<1>5. \A S \in SUBSET Names : Full(world, S) => TopDep \in S
  BY <1>1 DEF PackagesInv, Full, Met
<1>6. Len(packages) <= Len(Append(packages, TopDep))
  BY <1>3
<1> QED BY <1>1, <1>2, <1>4, <1>5, <1>6 DEF PackagesInv

LEMMA PackagesStep == FindInv /\ PackagesInv /\ [Find!Next]_(Find!vars) => PackagesInv'
<1> SUFFICES ASSUME FindInv, PackagesInv, [Find!Next]_(Find!vars) PROVE PackagesInv'
    OBVIOUS
<1>1. CASE UNCHANGED Find!vars
  BY <1>1 DEF Find!vars, PackagesInv
<1>2. CASE \/ Find!NothingToDo \/ Find!PrintProject \/ Find!ProjectFails \/ Find!Known \/ Find!AllAdded \/ Find!Descend
           \/ Find!Return \/ Find!PackageFails
  <2>1. /\ UNCHANGED <<world, packages, listed>> /\ findPc' # "done"
        /\ findPc \in {"start", "nothing", "walk"} \/ findPc' \notin {"start", "nothing", "walk"}
    BY <1>2 DEF Find!NothingToDo, Find!PrintProject, Find!ProjectFails, Find!Known, Find!AllAdded, Find!Descend,
                Find!Return, Find!PackageFails, Find!Pending
  <2> QED BY <2>1 DEF PackagesInv
<1>3. CASE Find!Lookup \/ Find!LookupFails
  <2>1. /\ findPc = "walk" /\ stack # <<>> /\ TopFrame.at <= Len(Deps(world, TopFrame.rn)) /\ TopDep \notin ToSet(packages)
        /\ packages' = Append(packages, TopDep) /\ UNCHANGED <<world, listed>> /\ findPc' # "done"
    BY <1>3, Running, Translated DEF Find!Lookup, Find!LookupFails, Find!Pending
  <2>2. Len(packages') \in Nat /\ DOMAIN listed = {} /\ Len(listed) = 0
    BY <2>1, NewName, Running, AppendProperties DEF FindInv
  <2> QED BY <2>1, <2>2, NewName DEF PackagesInv
<1>4. CASE Find!PrintPackage
  <2> DEFINE r == world.provider[packages[Len(listed) + 1]]
  <2>1. /\ findPc = "print" /\ SubSeq(packages, Len(listed) + 1, Len(packages)) # <<>>
        /\ listed' = Append(listed, world.provider[Head(SubSeq(packages, Len(listed) + 1, Len(packages)))])
        /\ UNCHANGED <<world, packages, findPc>>
    BY <1>4 DEF Find!PrintPackage, Find!Unlisted, Find!pn
  <2>2. packages \in Seq(Names) /\ Len(packages) \in Nat /\ Len(listed) \in Nat /\ listed \in Seq(Recipes \union {NoRecipe})
    BY DEF FindInv, PackagesInv
  <2>3. Len(listed) + 1 <= Len(packages)
    BY <2>1, <2>2, SubSeqEmpty
  <2>4. Head(SubSeq(packages, Len(listed) + 1, Len(packages))) = packages[Len(listed) + 1]
    BY <2>2, <2>3
  <2>5. packages[Len(listed) + 1] \in Names /\ r \in Recipes \union {NoRecipe}
    <3>1. packages[Len(listed) + 1] \in Names
      BY <2>2, <2>3
    <3> QED BY <3>1, FindAssumption DEF FindInv, Find!DependsAssumption
  <2>6. listed' = Append(listed, r)
    BY <2>1, <2>4
  <2> HIDE DEF r
  <2>7. /\ listed' \in Seq(Recipes \union {NoRecipe}) /\ Len(listed') = Len(listed) + 1
        /\ DOMAIN listed' = 1 .. Len(listed) + 1 /\ DOMAIN listed = 1 .. Len(listed)
        /\ listed'[Len(listed) + 1] = r /\ \A i \in 1 .. Len(listed) : listed'[i] = listed[i]
    BY <2>2, <2>5, <2>6, AppendProperties
  <2>8. \A i \in DOMAIN listed' : listed'[i] = world.provider[packages[i]]
    <3>1. \A i \in 1 .. Len(listed) + 1 : i \in 1 .. Len(listed) \/ i = Len(listed) + 1
      BY <2>2
    <3> QED BY <2>7, <3>1 DEF r, PackagesInv
  <2> QED BY <2>1, <2>3, <2>7, <2>8 DEF PackagesInv
<1>5. CASE Find!Close
  <2>1. /\ findPc = "print" /\ SubSeq(packages, Len(listed) + 1, Len(packages)) = <<>> /\ findPc' = "done"
        /\ UNCHANGED <<world, packages, listed>>
    BY <1>5 DEF Find!Close, Find!Unlisted
  <2>2. packages \in Seq(Names) /\ Len(packages) \in Nat /\ Len(listed) \in Nat
    BY DEF FindInv, PackagesInv
  <2>3. Len(listed) = Len(packages)
    <3>1. ASSUME Len(listed) + 1 <= Len(packages) PROVE FALSE
      <4>1. \A i \in Len(listed) + 1 .. Len(packages) : packages[i] \in Names
        BY <2>2
      <4>2. Len(SubSeq(packages, Len(listed) + 1, Len(packages))) = Len(packages) - (Len(listed) + 1) + 1
        BY <2>2, <3>1, <4>1, SubSeqProperties
      <4>3. Len(SubSeq(packages, Len(listed) + 1, Len(packages))) = 0
        BY <2>1, EmptySeq
      <4>4. Len(packages) - (Len(listed) + 1) + 1 > 0
        BY <2>2, <3>1
      <4> QED BY <4>2, <4>3, <4>4
    <3> QED BY <2>2, <3>1 DEF PackagesInv
  <2> QED BY <2>1, <2>3 DEF PackagesInv
<1> QED
  BY <1>1, <1>2, <1>3, <1>4, <1>5 DEF Find!Next

LEMMA PackagesInit == Find!Init => PackagesInv
<1> SUFFICES ASSUME Find!Init PROVE PackagesInv
    OBVIOUS
<1>1. packages = <<>> /\ listed = <<>> /\ findPc = "start"
  BY DEF Find!Init
<1> QED BY <1>1, EmptySeq DEF PackagesInv, IsInjective, ToSet

\* A complete set of names holds every name of the list, and the list of a finished file is complete.
LEMMA PackagesReached == FindInv /\ PackagesInv => ListComplete
<1> SUFFICES ASSUME FindInv, PackagesInv, findPc = "done" PROVE ListComplete
    BY DEF ListComplete, Find!ListComplete
<1>1. \A S \in SUBSET Names : Find!Complete(S) <=> Full(world, S)
  BY Translated DEF Find!Complete, Full
<1>2. Full(world, ToSet(packages)) /\ ToSet(packages) \in SUBSET Names
  BY DEF FindInv, Met, Satisfied, Full, ToSet
<1>3. ToSet(packages) = Find!Reached
  <2>1. ToSet(packages) \subseteq Find!Reached
    BY <1>1, <1>2 DEF PackagesInv, Find!Reached
  <2>2. Find!Reached \subseteq ToSet(packages)
    BY <1>1, <1>2 DEF Find!Reached
  <2> QED BY <2>1, <2>2
<1>4. listed = [i \in DOMAIN packages |-> Find!pn(packages[i])]
  <2>1. packages \in Seq(Names) /\ listed \in Seq(Recipes \union {NoRecipe}) /\ Len(listed) = Len(packages)
    BY DEF FindInv, PackagesInv
  <2>2. DOMAIN listed = DOMAIN packages
    BY <2>1, LenProperties
  <2>3. \A i \in DOMAIN packages : listed[i] = Find!pn(packages[i])
    BY <2>2 DEF PackagesInv, Find!pn
  <2> QED BY <2>1, <2>2, <2>3
<1>5. Find!IsInjective(packages)
  BY DEF PackagesInv, IsInjective, Find!IsInjective
<1> QED BY <1>3, <1>4, <1>5, Translated DEF ListComplete, Find!ListComplete

\* The list of a finished file has each name that the project needs, directly or not, once, with its recipe,
\* for any graph of recipes (find_dependencies, print_package).
THEOREM ListIsComplete == BuildSpec => []ListComplete
BY FindInvariant, PackagesInit, PackagesStep, PackagesReached, Parts, PTL

-----------------------------------------------------------------------------
(* Part 5.  The tree.  What was written when each activation was entered is  *)
(* kept beside the stack: a return adds one whole subtree to what its caller *)
(* wrote.                                                                    *)

\* What was written, what its caller added, and a subtree, regrouped.
Regrouped(a1, a2, a3, a4, a5) == (((a1 \o a2) \o a3) \o a4) \o a5 = a1 \o (a2 \o ((a3 \o a4) \o a5))

LEMMA Regroup ==
  ASSUME NEW X, NEW a1 \in Seq(X), NEW a2 \in Seq(X), NEW a3 \in Seq(X), NEW a4 \in Seq(X), NEW a5 \in Seq(X)
  PROVE  Regrouped(a1, a2, a3, a4, a5)
<1> DEFINE x == a1 \o a2
           y == a3 \o a4
           z == y \o a5
<1>1. x \in Seq(X) /\ y \in Seq(X) /\ z \in Seq(X)
  OBVIOUS
<1>2. x \o z = a1 \o (a2 \o z)
  <2> HIDE DEF z
  <2> QED BY <1>1
<1> HIDE DEF x
<1>3. (x \o a3) \o a4 = x \o y
  BY <1>1
<1> HIDE DEF y
<1>4. (x \o y) \o a5 = x \o z
  BY <1>1
<1> HIDE DEF z
<1>5. ((x \o a3) \o a4) \o a5 = a1 \o (a2 \o z)
  BY <1>2, <1>3, <1>4, Zenon
<1> QED BY <1>5, Zenon DEF x, y, z, Regrouped

\* FlattenSeq of the community modules adds up its argument.
LEMMA Flattened ==
  ASSUME NEW E, NEW s \in Seq(Seq(E))
  PROVE  \E b \in [0 .. Len(s) -> Seq(E)] :
            /\ b[0] = <<>> /\ \A i \in 1 .. Len(s) : b[i] = b[i - 1] \o s[i]
            /\ Find!FlattenSeq(s) = b[Len(s)]
<1>0. Len(s) \in Nat /\ \A i \in 1 .. Len(s) : s[i] \in Seq(E)
  OBVIOUS
<1>1. CASE Len(s) = 0
  <2>1. s = <<>> /\ Find!FlattenSeq(s) = s
    BY <1>1 DEF Find!FlattenSeq
  <2>2. <<>> \in Seq(E)
    OBVIOUS
  <2> DEFINE b == [i \in 0 .. Len(s) |-> <<>>]
  <2>3. b \in [0 .. Len(s) -> Seq(E)] /\ b[0] = <<>> /\ b[Len(s)] = <<>>
    BY <1>1, <2>2
  <2>4. \A i \in 1 .. Len(s) : FALSE
    BY <1>1
  <2> HIDE DEF b
  <2> QED
    BY <2>1, <2>3, <2>4
<1>2. CASE Len(s) # 0
  <2> DEFINE K(g, i) == IF i = 1 THEN s[i] ELSE g[i - 1] \o s[i]
             Prefix(m) == \E g \in [1 .. m -> Seq(E)] : \A i \in 1 .. m : g[i] = K(g, i)
             Good == {m \in Nat : m <= Len(s) => Prefix(m)}
             flatten == CHOOSE g : g = [i \in 1 .. Len(s) |-> K(g, i)]
  <2>1. 0 \in Good
    <3>1. [i \in 1 .. 0 |-> <<>>] \in [1 .. 0 -> Seq(E)] /\ \A i \in 1 .. 0 : FALSE
      OBVIOUS
    <3> HIDE DEF K
    <3> QED
      BY <3>1
  <2>2. ASSUME NEW m \in Nat, m \in Good PROVE m + 1 \in Good
    <3> SUFFICES ASSUME m + 1 <= Len(s) PROVE Prefix(m + 1)
      <4> HIDE DEF Prefix
      <4> QED OBVIOUS
    <3>0. m <= Len(s)
      BY <1>0
    <3>1. PICK g \in [1 .. m -> Seq(E)] : \A i \in 1 .. m : g[i] = K(g, i)
      <4> HIDE DEF K
      <4> QED BY <2>2, <3>0
    <3> DEFINE h == [i \in 1 .. m + 1 |-> IF i = m + 1 THEN K(g, i) ELSE g[i]]
    <3>2. K(g, m + 1) \in Seq(E)
      <4>1. s[m + 1] \in Seq(E)
        BY <1>0
      <4>2. m # 0 => g[m] \in Seq(E) /\ m + 1 - 1 = m
        BY <3>1
      <4>3. m # 0 => g[m] \o s[m + 1] \in Seq(E)
        BY <4>1, <4>2, ConcatProperties
      <4> QED BY <4>1, <4>2, <4>3
    <3>3. h \in [1 .. m + 1 -> Seq(E)]
      <4> HIDE DEF K
      <4> QED BY <3>1, <3>2
    <3>4. \A i \in 1 .. m + 1 : h[i] = K(h, i)
      <4> SUFFICES ASSUME NEW i \in 1 .. m + 1 PROVE h[i] = K(h, i)
          OBVIOUS
      <4>1. i # 1 => h[i - 1] = g[i - 1]
        OBVIOUS
      <4>2. K(h, i) = K(g, i)
        BY <4>1
      <4>3. h[i] = K(g, i)
        <5>1. h[i] = IF i = m + 1 THEN K(g, i) ELSE g[i]
          <6> HIDE DEF K
          <6> QED OBVIOUS
        <5>2. i # m + 1 => i \in 1 .. m
          OBVIOUS
        <5> HIDE DEF K, h
        <5> QED BY <3>1, <5>1, <5>2
      <4> HIDE DEF K, h
      <4> QED BY <4>2, <4>3
    <3> HIDE DEF K, h
    <3> QED BY <3>3, <3>4
  <2>3. Len(s) \in Good
    <3> HIDE DEF Good
    <3> QED BY <1>0, <2>1, <2>2, Inductive
  <2>4. PICK g \in [1 .. Len(s) -> Seq(E)] : \A i \in 1 .. Len(s) : g[i] = K(g, i)
    <3> HIDE DEF K
    <3> QED BY <1>0, <2>3
  <2>5. g = [i \in 1 .. Len(s) |-> K(g, i)]
    <3> HIDE DEF K
    <3> QED BY <2>4
  <2>6. flatten = [i \in 1 .. Len(s) |-> K(flatten, i)]
    BY <2>5
  <2>7. Find!FlattenSeq(s) = flatten[Len(s)]
    BY <1>2 DEF Find!FlattenSeq
  <2> DEFINE Typed == {m \in Nat : m + 1 <= Len(s) => flatten[m + 1] \in Seq(E)}
  <2> HIDE DEF flatten
  <2>8. \A i \in 1 .. Len(s) : flatten[i] = K(flatten, i)
    <3> HIDE DEF K
    <3> QED BY <2>6
  <2>9. 0 \in Typed
    <3>1. 1 <= Len(s) => flatten[1] = s[1] /\ s[1] \in Seq(E)
      BY <1>0, <2>8
    <3> QED BY <3>1
  <2>10. ASSUME NEW m \in Nat, m \in Typed PROVE m + 1 \in Typed
    <3> SUFFICES ASSUME m + 2 <= Len(s) PROVE flatten[m + 2] \in Seq(E)
        BY <1>0
    <3>1. flatten[m + 2] = K(flatten, m + 2) /\ m + 2 # 1 /\ m + 2 - 1 = m + 1 /\ m + 2 \in 1 .. Len(s)
      <4>1. m + 2 \in 1 .. Len(s) /\ m + 2 # 1 /\ m + 2 - 1 = m + 1
        BY <1>0
      <4> HIDE DEF K
      <4> QED BY <2>8, <4>1
    <3>2. flatten[m + 1] \in Seq(E) /\ s[m + 2] \in Seq(E)
      BY <1>0, <2>10, <3>1
    <3>3. flatten[m + 1] \o s[m + 2] \in Seq(E)
      BY <3>2, ConcatProperties
    <3> QED BY <3>1, <3>3
  <2>11. \A i \in 1 .. Len(s) : flatten[i] \in Seq(E)
    <3>1. \A m \in Nat : m \in Typed
      <4> HIDE DEF Typed
      <4> QED BY <2>9, <2>10, Inductive
    <3>2. ASSUME NEW i \in 1 .. Len(s) PROVE flatten[i] \in Seq(E)
      <4>1. i - 1 \in Nat /\ (i - 1) + 1 = i /\ i <= Len(s)
        BY <1>0
      <4>2. i - 1 \in Typed
        BY <3>1, <4>1
      <4> QED BY <4>1, <4>2
    <3> QED BY <3>2
  <2> DEFINE b == [i \in 0 .. Len(s) |-> IF i = 0 THEN <<>> ELSE flatten[i]]
  <2>12. b \in [0 .. Len(s) -> Seq(E)] /\ b[0] = <<>> /\ b[Len(s)] = flatten[Len(s)]
    <3>1. <<>> \in Seq(E)
      OBVIOUS
    <3>2. \A i \in 0 .. Len(s) : i # 0 => i \in 1 .. Len(s)
      BY <1>0
    <3> QED BY <1>0, <1>2, <2>11, <3>1, <3>2
  <2>13. ASSUME NEW i \in 1 .. Len(s) PROVE b[i] = b[i - 1] \o s[i]
    <3>1. b[i] = K(flatten, i) /\ i \in Nat
      <4>1. b[i] = flatten[i] /\ i \in Nat
        BY <1>0
      <4> HIDE DEF K, b
      <4> QED BY <2>8, <4>1
    <3>2. CASE i = 1
      <4>1. b[i - 1] = <<>> /\ b[i] = s[i] /\ s[i] \in Seq(E)
        BY <1>0, <3>1, <3>2
      <4> HIDE DEF b
      <4> QED BY <4>1, ConcatEmptySeq
    <3>3. CASE i # 1
      <4>1. b[i - 1] = flatten[i - 1]
        BY <1>0, <3>3
      <4> HIDE DEF b
      <4> QED BY <3>1, <3>3, <4>1
    <3> QED BY <3>2, <3>3
  <2> HIDE DEF b
  <2> QED
    BY <2>7, <2>12, <2>13
<1> QED
  BY <1>1, <1>2

\* The sum of the first i members, and how it grows.
Sum(s, i) == Find!FlattenSeq([j \in 1 .. i |-> s[j]])

LEMMA SumOf ==
  ASSUME NEW E, NEW s \in Seq(Seq(E)), NEW m \in 0 .. Len(s)
  PROVE  \E b \in [0 .. m -> Seq(E)] :
            /\ b[0] = <<>> /\ \A i \in 1 .. m : b[i] = b[i - 1] \o s[i]
            /\ Sum(s, m) = b[m]
<1> DEFINE p == [j \in 1 .. m |-> s[j]]
<1>1. m \in Nat /\ p \in Seq(Seq(E)) /\ Len(p) = m /\ \A j \in 1 .. m : p[j] = s[j]
  OBVIOUS
<1>2. Sum(s, m) = Find!FlattenSeq(p)
  BY DEF Sum
<1> HIDE DEF p
<1>3. PICK b \in [0 .. Len(p) -> Seq(E)] :
            /\ b[0] = <<>> /\ \A i \in 1 .. Len(p) : b[i] = b[i - 1] \o p[i]
            /\ Find!FlattenSeq(p) = b[Len(p)]
  BY <1>1, Flattened
<1> QED BY <1>1, <1>2, <1>3

LEMMA SumGrows ==
  ASSUME NEW E, NEW s \in Seq(Seq(E)), NEW i \in 1 .. Len(s), NEW m \in Nat, i = m + 1
  PROVE  Sum(s, i) = Sum(s, m) \o s[i]
<1>1. i \in 0 .. Len(s) /\ m \in 0 .. Len(s) /\ i \in 1 .. i /\ i - 1 = m /\ m \in 0 .. m
  <2>1. Len(s) \in Nat
    OBVIOUS
  <2> QED BY <2>1
<1>2. /\ \E b : b[0] = <<>> /\ (\A j \in 1 .. i : b[j] = b[j - 1] \o s[j]) /\ Sum(s, i) = b[i]
      /\ \E b : b[0] = <<>> /\ (\A j \in 1 .. m : b[j] = b[j - 1] \o s[j]) /\ Sum(s, m) = b[m]
  <2> SUFFICES ASSUME NEW k \in 0 .. Len(s)
               PROVE  \E b : b[0] = <<>> /\ (\A j \in 1 .. k : b[j] = b[j - 1] \o s[j]) /\ Sum(s, k) = b[k]
      BY <1>1
  <2>1. PICK b \in [0 .. k -> Seq(E)] :
           b[0] = <<>> /\ (\A j \in 1 .. k : b[j] = b[j - 1] \o s[j]) /\ Sum(s, k) = b[k]
    BY SumOf
  <2> QED BY <2>1, Zenon
<1>3. PICK b : b[0] = <<>> /\ (\A j \in 1 .. i : b[j] = b[j - 1] \o s[j]) /\ Sum(s, i) = b[i]
  BY <1>2, Zenon
<1>4. PICK c : c[0] = <<>> /\ (\A j \in 1 .. m : c[j] = c[j - 1] \o s[j]) /\ Sum(s, m) = c[m]
  BY <1>2, Zenon
<1>5. \A j \in 1 .. m : b[j] = b[j - 1] \o s[j]
  <2>1. \A j \in 1 .. m : j \in 1 .. i
    BY <1>1
  <2> QED BY <1>3, <2>1, Zenon
<1>6. b[m] = c[m]
  <2> DEFINE Good == {k \in Nat : k <= m => b[k] = c[k]}
  <2>1. 0 \in Good
    BY <1>3, <1>4
  <2>2. ASSUME NEW k \in Nat, k \in Good PROVE k + 1 \in Good
    <3> SUFFICES ASSUME k + 1 <= m PROVE b[k + 1] = c[k + 1]
        OBVIOUS
    <3> DEFINE j == k + 1
    <3>1. j \in 1 .. m /\ j - 1 = k /\ b[k] = c[k]
      BY <2>2
    <3> HIDE DEF j
    <3>2. b[j] = b[j - 1] \o s[j] /\ c[j] = c[j - 1] \o s[j]
      BY <1>4, <1>5, <3>1, Zenon
    <3> QED BY <3>1, <3>2, Zenon DEF j
  <2>3. m \in Good
    <3> HIDE DEF Good
    <3> QED BY <2>1, <2>2, Inductive
  <2> QED BY <2>3
<1>7. b[i] = b[i - 1] \o s[i]
  BY <1>1, <1>3, Zenon
<1> QED BY <1>1, <1>3, <1>4, <1>6, <1>7, Zenon

LEMMA Sums ==
  ASSUME NEW E, NEW s \in Seq(Seq(E))
  PROVE  /\ Sum(s, 0) = <<>> /\ \A i \in 0 .. Len(s) : Sum(s, i) \in Seq(E)
         /\ \A i \in 1 .. Len(s) : Sum(s, i) = Sum(s, i - 1) \o s[i]
<1>0. Len(s) \in Nat
  OBVIOUS
<1>1. ASSUME NEW i \in 0 .. Len(s) PROVE Sum(s, i) \in Seq(E) /\ (i = 0 => Sum(s, i) = <<>>)
  <2>1. PICK b \in [0 .. i -> Seq(E)] :
            /\ b[0] = <<>> /\ \A j \in 1 .. i : b[j] = b[j - 1] \o s[j]
            /\ Sum(s, i) = b[i]
    BY SumOf
  <2> QED BY <2>1
<1>2. ASSUME NEW i \in 1 .. Len(s) PROVE Sum(s, i) = Sum(s, i - 1) \o s[i]
  <2> DEFINE m == i - 1
  <2>1. m \in Nat /\ i = m + 1
    BY <1>0
  <2> HIDE DEF m
  <2>2. Sum(s, i) = Sum(s, m) \o s[i]
    BY <2>1, SumGrows
  <2> QED BY <2>2 DEF m
<1>3. 0 \in 0 .. Len(s)
  BY <1>0
<1> QED BY <1>1, <1>2, <1>3

\* The entry of an activation, its last line, and all of them; what a name is written as, for each order it is
\* entered at, when G is what the names below it are written as.
OpenedIn(w, n, k) == [order |-> k, pn |-> w.provider[n], leaf |-> Deps(w, n) = <<>>, errors |-> FALSE]
ClosedIn(w, n, k) == [OpenedIn(w, n, k) EXCEPT !.errors = TRUE]
Entries(w) == {OpenedIn(w, n, k) : n \in Names, k \in Nat} \union {ClosedIn(w, n, k) : n \in Names, k \in Nat}
Scopes(w) == [Nat -> Seq(Entries(w))]
Row(w, G, n) ==
  [k \in Nat |-> IF Lost(w, n) THEN <<>>
     ELSE LET below == Find!FlattenSeq([i \in DOMAIN Deps(w, n) |-> G[Deps(w, n)[i]][k + 1]])
          IN <<OpenedIn(w, n, k)>> \o below \o <<ClosedIn(w, n, k)>>]
TreeOf(w) == CHOOSE T : T = [n \in Names |-> Row(w, T, n)]

\* The first i of the subtrees below n.
Below(w, G, n, k, i) == Find!FlattenSeq([j \in 1 .. i |-> G[Deps(w, n)[j]][k]])

LEMMA BelowIs ==
  ASSUME NEW w \in Worlds, NEW n \in Names, ~Lost(w, n), NEW k \in Nat,
         NEW G, \A d \in Needed(w, n) : G[d] \in Scopes(w)
  PROVE  /\ Below(w, G, n, k, 0) = <<>> /\ \A i \in 0 .. Len(Deps(w, n)) : Below(w, G, n, k, i) \in Seq(Entries(w))
         /\ \A i \in 1 .. Len(Deps(w, n)) : Below(w, G, n, k, i) = Below(w, G, n, k, i - 1) \o G[Deps(w, n)[i]][k]
<1> DEFINE d == Deps(w, n)
           s == [j \in 1 .. Len(d) |-> G[d[j]][k]]
<1>1. d \in Seq(Names) /\ Len(d) \in Nat
  BY DepsType
<1>2. \A j \in 1 .. Len(d) : G[d[j]][k] \in Seq(Entries(w))
  <2>1. \A j \in 1 .. Len(d) : d[j] \in Needed(w, n)
    BY <1>1 DEF Needed, ToSet
  <2> QED BY <2>1 DEF Scopes
<1>3. s \in Seq(Seq(Entries(w))) /\ Len(s) = Len(d) /\ \A j \in 1 .. Len(d) : s[j] = G[d[j]][k]
  BY <1>1, <1>2
<1>4. \A i \in 0 .. Len(d) : Sum(s, i) = Below(w, G, n, k, i)
  <2> SUFFICES ASSUME NEW i \in 0 .. Len(d) PROVE [j \in 1 .. i |-> s[j]] = [j \in 1 .. i |-> G[d[j]][k]]
      BY DEF Sum, Below
  <2>1. \A j \in 1 .. i : j \in 1 .. Len(d)
    BY <1>1
  <2> HIDE DEF s
  <2> QED BY <1>3, <2>1
<1> HIDE DEF s
<1>5. /\ Sum(s, 0) = <<>> /\ \A i \in 0 .. Len(s) : Sum(s, i) \in Seq(Entries(w))
      /\ \A i \in 1 .. Len(s) : Sum(s, i) = Sum(s, i - 1) \o s[i]
  BY <1>3, Sums
<1>6. 0 \in 0 .. Len(d) /\ \A i \in 1 .. Len(d) : i \in 0 .. Len(d) /\ i - 1 \in 0 .. Len(d)
  BY <1>1
<1> QED BY <1>3, <1>4, <1>5, <1>6

LEMMA EntriesOf ==
  ASSUME NEW w, NEW n \in Names, NEW k \in Nat
  PROVE  <<OpenedIn(w, n, k)>> \in Seq(Entries(w)) /\ <<ClosedIn(w, n, k)>> \in Seq(Entries(w))
<1>1. OpenedIn(w, n, k) \in Entries(w) /\ ClosedIn(w, n, k) \in Entries(w)
  BY DEF Entries
<1> QED BY <1>1

LEMMA RowIs ==
  ASSUME NEW w \in Worlds, NEW n \in Names, NEW G, \A d \in Needed(w, n) : G[d] \in Scopes(w)
  PROVE  /\ Row(w, G, n) \in Scopes(w)
         /\ ~Lost(w, n) => \A k \in Nat :
              Row(w, G, n)[k] = <<OpenedIn(w, n, k)>> \o Below(w, G, n, k + 1, Len(Deps(w, n))) \o <<ClosedIn(w, n, k)>>
<1>1. CASE Lost(w, n)
  <2>1. Row(w, G, n) = [k \in Nat |-> <<>>]
    BY <1>1 DEF Row
  <2>2. <<>> \in Seq(Entries(w))
    BY EmptySeq
  <2> QED BY <1>1, <2>1, <2>2 DEF Scopes
<1>2. CASE ~Lost(w, n)
  <2> DEFINE F(k) == <<OpenedIn(w, n, k)>> \o Below(w, G, n, k + 1, Len(Deps(w, n))) \o <<ClosedIn(w, n, k)>>
  <2>1. DOMAIN Deps(w, n) = 1 .. Len(Deps(w, n)) /\ Len(Deps(w, n)) \in 0 .. Len(Deps(w, n))
    BY <1>2, DepsType
  <2>2. Row(w, G, n) = [k \in Nat |-> F(k)]
    BY <1>2, <2>1 DEF Row, Below
  <2>3. ASSUME NEW k \in Nat PROVE F(k) \in Seq(Entries(w))
    <3>1. k + 1 \in Nat
      OBVIOUS
    <3>2. Below(w, G, n, k + 1, Len(Deps(w, n))) \in Seq(Entries(w))
      BY <1>2, <2>1, <3>1, BelowIs
    <3> QED BY <3>2, EntriesOf, ConcatProperties
  <2> HIDE DEF F
  <2>4. Row(w, G, n) \in Scopes(w) /\ \A k \in Nat : Row(w, G, n)[k] = F(k)
    BY <2>2, <2>3 DEF Scopes
  <2> QED BY <2>4 DEF F
<1> QED BY <1>1, <1>2

\* No recipe is built before itself: bitbake refuses a cycle.
NoCycles == \A w \in Worlds : \E top \in Nat : \E height \in [Names -> 0 .. top] : Find!Acyclic(w, height)

LEMMA Downwards ==
  ASSUME NEW w \in Worlds, NEW height, Find!Acyclic(w, height), NEW n \in Names
  PROVE  \A d \in Needed(w, n) : d \in Names /\ height[d] < height[n]
<1> SUFFICES ASSUME NEW d \in Needed(w, n) PROVE d \in Names /\ height[d] < height[n]
    OBVIOUS
<1>1. ~Lost(w, n) /\ d \in ToSet(Deps(w, n))
  BY DEF Needed
<1>2. w.DEPENDS[w.provider[n]] \in Seq(Names)
  BY <1>1, FindAssumption DEF Find!DependsAssumption, Lost
<1>3. d \in ToSet(w.DEPENDS[w.provider[n]]) \ Find!assume_provided
  BY <1>1, <1>2, KeptType DEF Deps
<1>4. height[d] < height[n]
  BY <1>1, <1>3, Translated DEF Find!Acyclic, Lost
<1> QED BY <1>4, DepsType

LEMMA SameRow ==
  ASSUME NEW w \in Worlds, NEW n \in Names, NEW G, NEW H, \A d \in Needed(w, n) : H[d] = G[d]
  PROVE  Row(w, H, n) = Row(w, G, n)
<1>1. CASE Lost(w, n)
  BY <1>1 DEF Row
<1>2. CASE ~Lost(w, n)
  <2>1. \A i \in DOMAIN Deps(w, n) : H[Deps(w, n)[i]] = G[Deps(w, n)[i]]
    BY <1>2 DEF Needed, ToSet
  <2>2. \A k : [i \in DOMAIN Deps(w, n) |-> H[Deps(w, n)[i]][k + 1]] = [i \in DOMAIN Deps(w, n) |-> G[Deps(w, n)[i]][k + 1]]
    BY <2>1
  <2> QED BY <1>2, <2>2 DEF Row
<1> QED BY <1>1, <1>2

\* Names of a height below m have a tree: a row for each name that is made of the rows below it.
LEMMA TreeExists ==
  ASSUME NEW w \in Worlds, NEW top \in Nat, NEW height \in [Names -> 0 .. top], Find!Acyclic(w, height)
  PROVE  TreeOf(w) = [n \in Names |-> Row(w, TreeOf(w), n)]
<1> DEFINE Rows(G, m) == \A n \in Names : height[n] < m => G[n] = Row(w, G, n)
           Good == {m \in Nat : \E G \in [Names -> Scopes(w)] : Rows(G, m)}
<1>1. 0 \in Good
  <2> DEFINE G == [n \in Names |-> [k \in Nat |-> <<>>]]
  <2>1. G \in [Names -> Scopes(w)]
    <3>1. <<>> \in Seq(Entries(w))
      BY EmptySeq
    <3> QED BY <3>1 DEF Scopes
  <2>2. Rows(G, 0)
    <3>1. \A n \in Names : ~(height[n] < 0)
      OBVIOUS
    <3> HIDE DEF G
    <3> QED BY <3>1
  <2> HIDE DEF Rows, G
  <2> QED BY <2>1, <2>2
<1>2. ASSUME NEW m \in Nat, m \in Good PROVE m + 1 \in Good
  <2>1. PICK G \in [Names -> Scopes(w)] : Rows(G, m)
    <3> HIDE DEF Rows
    <3> QED BY <1>2
  <2> DEFINE H == [n \in Names |-> IF height[n] = m THEN Row(w, G, n) ELSE G[n]]
  <2>2. \A n \in Names : Row(w, G, n) \in Scopes(w)
    <3> SUFFICES ASSUME NEW n \in Names PROVE Row(w, G, n) \in Scopes(w)
        OBVIOUS
    <3>1. \A d \in Needed(w, n) : G[d] \in Scopes(w)
      BY DepsType
    <3> QED BY <3>1, RowIs
  <2>3. H \in [Names -> Scopes(w)] /\ \A n \in Names : H[n] = IF height[n] = m THEN Row(w, G, n) ELSE G[n]
    BY <2>2
  <2> HIDE DEF H
  <2>4. ASSUME NEW n \in Names, height[n] < m + 1 PROVE H[n] = Row(w, H, n)
    <3>1. \A d \in Needed(w, n) : H[d] = G[d]
      <4>1. \A d \in Needed(w, n) : d \in Names /\ height[d] < height[n]
        BY Downwards
      <4>2. \A d \in Names : height[d] < height[n] => height[d] # m
        BY <2>4
      <4> QED BY <2>3, <4>1, <4>2
    <3>2. Row(w, H, n) = Row(w, G, n)
      BY <3>1, SameRow
    <3>3. height[n] # m => G[n] = Row(w, G, n)
      <4>1. height[n] # m => height[n] < m
        BY <2>4
      <4> QED BY <2>1, <4>1
    <3> QED BY <2>3, <3>2, <3>3
  <2>5. Rows(H, m + 1)
    BY <2>4
  <2> HIDE DEF Rows
  <2> QED BY <2>3, <2>5
<1>3. top + 1 \in Good
  <2> HIDE DEF Good
  <2> QED BY <1>1, <1>2, Inductive
<1>4. PICK G \in [Names -> Scopes(w)] : Rows(G, top + 1)
  <2> HIDE DEF Rows
  <2> QED BY <1>3
<1>5. G = [n \in Names |-> Row(w, G, n)]
  <2>1. \A n \in Names : height[n] < top + 1
    OBVIOUS
  <2> QED BY <1>4, <2>1
<1> QED BY <1>5 DEF TreeOf

\* The rows of the tree are sequences of entries.
LEMMA TreeIs ==
  ASSUME NoCycles, NEW w \in Worlds
  PROVE  \A n \in Names : TreeOf(w)[n] \in Scopes(w) /\ TreeOf(w)[n] = Row(w, TreeOf(w), n)
<1> DEFINE T == TreeOf(w)
<1>0. PICK top \in Nat : \E height \in [Names -> 0 .. top] : Find!Acyclic(w, height)
  BY DEF NoCycles
<1>1. PICK height \in [Names -> 0 .. top] : Find!Acyclic(w, height)
  BY <1>0
<1>2. T = [n \in Names |-> Row(w, T, n)]
  BY <1>1, TreeExists
<1> HIDE DEF T
<1> DEFINE Typed == {m \in Nat : \A n \in Names : height[n] < m => T[n] \in Scopes(w)}
<1>3. 0 \in Typed
  <2>1. \A n \in Names : ~(height[n] < 0)
    OBVIOUS
  <2> QED BY <2>1
<1>4. ASSUME NEW m \in Nat, m \in Typed PROVE m + 1 \in Typed
  <2> SUFFICES ASSUME NEW n \in Names, height[n] < m + 1 PROVE T[n] \in Scopes(w)
      OBVIOUS
  <2>1. \A d \in Needed(w, n) : T[d] \in Scopes(w)
    <3>1. \A d \in Needed(w, n) : d \in Names /\ height[d] < height[n]
      BY <1>1, Downwards
    <3>2. \A d \in Names : height[d] < height[n] => height[d] < m
      OBVIOUS
    <3> QED BY <1>4, <3>1, <3>2
  <2> QED BY <1>2, <2>1, RowIs
<1>5. top + 1 \in Typed
  <2> HIDE DEF Typed
  <2> QED BY <1>3, <1>4, Inductive
<1>6. \A n \in Names : T[n] \in Scopes(w)
  <2>1. \A n \in Names : height[n] < top + 1
    OBVIOUS
  <2> QED BY <1>5, <2>1
<1> QED BY <1>2, <1>6 DEF T

Sub(w, n, k, i) == Below(w, TreeOf(w), n, k, i)

LEMMA SubIs ==
  ASSUME NoCycles, NEW w \in Worlds, NEW n \in Names, ~Lost(w, n), NEW k \in Nat
  PROVE  /\ Sub(w, n, k, 0) = <<>> /\ \A i \in 0 .. Len(Deps(w, n)) : Sub(w, n, k, i) \in Seq(Entries(w))
         /\ \A i \in 1 .. Len(Deps(w, n)) : Sub(w, n, k, i) = Sub(w, n, k, i - 1) \o TreeOf(w)[Deps(w, n)[i]][k]
         /\ TreeOf(w)[n][k] = <<OpenedIn(w, n, k)>> \o Sub(w, n, k + 1, Len(Deps(w, n))) \o <<ClosedIn(w, n, k)>>
<1>1. \A d \in Needed(w, n) : TreeOf(w)[d] \in Scopes(w)
  BY TreeIs, DepsType
<1>2. TreeOf(w)[n] = Row(w, TreeOf(w), n)
  BY TreeIs
<1>3. \A j \in Nat : Row(w, TreeOf(w), n)[j] =
        <<OpenedIn(w, n, j)>> \o Below(w, TreeOf(w), n, j + 1, Len(Deps(w, n))) \o <<ClosedIn(w, n, j)>>
  BY <1>1, RowIs
<1>4. /\ Sub(w, n, k, 0) = <<>> /\ \A i \in 0 .. Len(Deps(w, n)) : Sub(w, n, k, i) \in Seq(Entries(w))
      /\ \A i \in 1 .. Len(Deps(w, n)) : Sub(w, n, k, i) = Sub(w, n, k, i - 1) \o TreeOf(w)[Deps(w, n)[i]][k]
  BY <1>1, BelowIs DEF Sub
<1> QED BY <1>2, <1>3, <1>4 DEF Sub

LEMMA SubtreeIs ==
  ASSUME world \in Worlds, ~Lost(world, Root)
  PROVE  Find!Subtree = Sub(world, Root, 2, Len(Deps(world, Root)))
<1>1. DOMAIN Deps(world, Root) = 1 .. Len(Deps(world, Root))
  BY DepsType, FindAssumption DEF Find!DependsAssumption
<1>2. Find!Subtree = Find!FlattenSeq([i \in DOMAIN Deps(world, Root) |-> TreeOf(world)[Deps(world, Root)[i]][2]])
  BY DEF Find!Subtree, Find!Depends, Find!Fails, Find!pn, Find!Opened, Find!Closed, TreeOf, Row, Deps, Kept, Lost, OpenedIn, ClosedIn
<1> QED BY <1>1, <1>2 DEF Sub, Below

\* Every activation but the last is in its second pass, one further than the call it waits for.
Nested(w, st) ==
  /\ st # <<>> /\ st[1].rn = Root
  /\ \A j \in DOMAIN st : st[j].pass = "descend" => st[j].at <= Len(Deps(w, st[j].rn)) + 1
  /\ \A j \in DOMAIN st : j # Len(st) =>
       st[j].pass = "descend" /\ st[j].at >= 2 /\ st[j + 1].rn = Deps(w, st[j].rn)[st[j].at - 1]

Written(f) == IF f.pass = "add" THEN 0 ELSE f.at - 1

\* What was written when each activation was entered, with its own entry, and what the running one added.
Spelled(w, st, sc, W) ==
  /\ W \in Seq(Seq(Entries(w))) /\ Len(W) = Len(st) /\ W[1] = <<>>
  /\ \A j \in DOMAIN st : j # Len(st) =>
       W[j + 1] = (W[j] \o Sub(w, st[j].rn, j + 1, st[j].at - 2)) \o <<OpenedIn(w, st[j + 1].rn, j + 1)>>
  /\ sc = W[Len(st)] \o Sub(w, st[Len(st)].rn, Len(st) + 1, Written(st[Len(st)]))

TreeInv ==
  /\ findPc = "start" => scopes = <<>>
  /\ findPc = "walk" => Nested(world, stack) /\ \E W : Spelled(world, stack, scopes, W)
  /\ findPc \in {"print", "done"} => scopes = Sub(world, Root, 2, Len(Deps(world, Root)))

\* The running activation goes on as x, and writes nothing.
LEMMA SpelledOn ==
  ASSUME NEW w, NEW st \in Seq(Frames), NEW x \in Frames, NEW sc, NEW W, Nested(w, st), Spelled(w, st, sc, W),
         x.rn = st[Len(st)].rn, Written(x) = Written(st[Len(st)]), x.pass = "descend" => x.at <= Len(Deps(w, x.rn)) + 1
  PROVE  Nested(w, [st EXCEPT ![Len(st)] = x]) /\ Spelled(w, [st EXCEPT ![Len(st)] = x], sc, W)
<1> DEFINE s == [st EXCEPT ![Len(st)] = x]
<1>1. /\ Len(st) \in Nat \ {0} /\ Len(st) \in DOMAIN st /\ DOMAIN st = 1 .. Len(st)
      /\ s \in Seq(Frames) /\ DOMAIN s = DOMAIN st /\ Len(s) = Len(st) /\ s[Len(st)] = x
      /\ \A k \in DOMAIN st : k # Len(st) => s[k] = st[k]
  BY TopIs DEF Nested
<1> HIDE DEF s
<1>2. \A k \in DOMAIN st : s[k].rn = st[k].rn
  BY <1>1
<1>3. \A k \in DOMAIN st : k # Len(st) => k + 1 \in DOMAIN st
  BY <1>1
<1>4. s # <<>> /\ 1 \in DOMAIN st
  BY <1>1
<1>5. Nested(w, s)
  <2>1. \A j \in DOMAIN s : s[j].pass = "descend" => s[j].at <= Len(Deps(w, s[j].rn)) + 1
    BY <1>1 DEF Nested
  <2>2. ASSUME NEW j \in DOMAIN s, j # Len(s)
        PROVE  s[j].pass = "descend" /\ s[j].at >= 2 /\ s[j + 1].rn = Deps(w, s[j].rn)[s[j].at - 1]
    BY <1>1, <1>2, <1>3, <2>2 DEF Nested
  <2> QED BY <1>2, <1>4, <2>1, <2>2 DEF Nested
<1>6. Spelled(w, s, sc, W)
  <2>1. ASSUME NEW j \in DOMAIN s, j # Len(s)
        PROVE  W[j + 1] = (W[j] \o Sub(w, s[j].rn, j + 1, s[j].at - 2)) \o <<OpenedIn(w, s[j + 1].rn, j + 1)>>
    <3>1. s[j] = st[j] /\ s[j + 1].rn = st[j + 1].rn /\ j \in DOMAIN st /\ j # Len(st)
      BY <1>1, <1>2, <1>3, <2>1
    <3> QED BY <3>1 DEF Spelled
  <2> QED BY <1>1, <2>1 DEF Spelled
<1> QED BY <1>5, <1>6 DEF s

LEMMA SameEntries ==
  \A n, k : Find!Opened(n, k) = OpenedIn(world, n, k) /\ Find!Closed(n, k) = ClosedIn(world, n, k)
BY Translated DEF Find!Opened, Find!Closed, Find!pn, OpenedIn, ClosedIn

\* The running activation goes on to its next dependency or its second pass.
LEMMA TreeGoesOn == FindInv /\ TreeInv /\ (Find!Known \/ Find!Lookup \/ Find!AllAdded) => TreeInv'
<1> SUFFICES ASSUME FindInv, TreeInv, Find!Known \/ Find!Lookup \/ Find!AllAdded PROVE TreeInv'
    OBVIOUS
<1>1. /\ findPc = "walk" /\ stack # <<>> /\ stack \in Seq(Frames) /\ TopFrame.pass = "add"
      /\ Nested(world, stack) /\ UNCHANGED <<world, findPc, scopes>>
  BY Running DEF FindInv, TreeInv, Find!Known, Find!Lookup, Find!AllAdded, Find!Pending
<1>2. PICK W : Spelled(world, stack, scopes, W)
  BY <1>1 DEF TreeInv
<1>3. \E x \in Frames : /\ stack' = [stack EXCEPT ![Len(stack)] = x] /\ x.rn = TopFrame.rn
                        /\ x.pass = "add" \/ (x.pass = "descend" /\ x.at = 1)
  <2>1. CASE Find!Known \/ Find!Lookup
    <3>1. stack' = [stack EXCEPT ![Len(stack)] = Advanced]
      BY <1>1, <2>1, Running DEF Find!Known, Find!Lookup, Find!Advance, Find!SetTop, Advanced
    <3>2. Advanced \in Frames /\ Advanced.rn = TopFrame.rn /\ Advanced.pass = "add"
      BY <1>1, Running, FrameFields DEF Advanced
    <3> QED BY <3>1, <3>2
  <2>2. CASE Find!AllAdded
    <3> DEFINE x == [TopFrame EXCEPT !.pass = "descend", !.at = 1]
    <3>1. stack' = [stack EXCEPT ![Len(stack)] = x]
      BY <1>1, <2>2, Running DEF Find!AllAdded, Find!SetTop
    <3>2. x \in Frames /\ x.rn = TopFrame.rn /\ x.pass = "descend" /\ x.at = 1
      BY <1>1, Running, FrameFields
    <3> HIDE DEF x
    <3> QED BY <3>1, <3>2
  <2> QED BY <2>1, <2>2
<1>4. PICK x \in Frames : /\ stack' = [stack EXCEPT ![Len(stack)] = x] /\ x.rn = TopFrame.rn
                          /\ x.pass = "add" \/ (x.pass = "descend" /\ x.at = 1)
  BY <1>3
<1>5. Written(x) = Written(TopFrame) /\ (x.pass = "descend" => x.at <= Len(Deps(world, x.rn)) + 1)
  <2>1. Deps(world, TopFrame.rn) \in Seq(Names)
    BY <1>1, Running
  <2> QED BY <1>1, <1>4, <2>1 DEF Written
<1>6. Nested(world, stack') /\ Spelled(world, stack', scopes, W)
  BY <1>1, <1>2, <1>4, <1>5, SpelledOn DEF TopFrame
<1> QED BY <1>1, <1>6 DEF TreeInv

\* A call: its entry is written.
LEMMA TreeDescends == ASSUME NoCycles PROVE FindInv /\ TreeInv /\ Find!Descend => TreeInv'
<1> SUFFICES ASSUME FindInv, TreeInv, Find!Descend PROVE TreeInv'
    OBVIOUS
<1> DEFINE y == [rn |-> TopDep, pass |-> "add", at |-> 1]
           st == [stack EXCEPT ![Len(stack)] = Advanced]
           L == Len(stack)
           o == OpenedIn(world, TopDep, L + 1)
           sc == Append(scopes, o)
<1>1. /\ findPc = "walk" /\ stack # <<>> /\ TopFrame.pass = "descend" /\ TopFrame.at <= Len(Deps(world, TopFrame.rn))
      /\ stack' = Append([stack EXCEPT ![Len(stack)].at = @ + 1], y)
      /\ scopes' = sc
      /\ UNCHANGED <<world, findPc>>
  BY Running, Translated, SameEntries DEF Find!Descend, Find!Pending, Find!Frame
<1>2. Advanced \in Frames /\ Advanced.rn = TopFrame.rn /\ Advanced.pass = "descend" /\ Advanced.at = TopFrame.at + 1 /\ TopFrame.at \in Nat \ {0}
  BY <1>1, Running, FrameFields DEF Advanced, Frames
<1>3. stack \in Seq(Frames) /\ Walk(world, packages, stack) /\ Nested(world, stack) /\ world \in Worlds
  BY <1>1 DEF FindInv, TreeInv
<1>4. [stack EXCEPT ![Len(stack)].at = @ + 1] = st
  BY DEF TopFrame, Advanced
<1>5. /\ st \in Seq(Frames) /\ Len(st) = L /\ st[L] = Advanced
      /\ \A k \in DOMAIN stack : k # L => st[k] = stack[k]
      /\ DOMAIN st = 1 .. L /\ DOMAIN stack = 1 .. L /\ L \in Nat \ {0}
  BY <1>1, <1>2, <1>3, TopIs
<1>6. y \in Frames /\ y.rn = TopDep /\ y.pass = "add" /\ y.at = 1 /\ TopDep \in Names
  BY <1>1, Running DEF Frames
<1>7. ~Lost(world, TopDep) /\ ~Lost(world, TopFrame.rn) /\ TopFrame.rn \in Names /\ Deps(world, TopFrame.rn) \in Seq(Names)
  <2>1. TopDep \in Met(packages) /\ TopFrame.rn \in Met(packages)
    BY <1>1, Running DEF FrameInv, Satisfied, Met
  <2> QED BY <1>1, <1>3, <2>1, Running DEF Walk
<1>8. PICK W : Spelled(world, stack, scopes, W)
  BY <1>1 DEF TreeInv
<1> DEFINE V == Append(W, sc)
           s == Append(st, y)
<1>9. /\ TopFrame.at - 1 \in 0 .. Len(Deps(world, TopFrame.rn)) /\ Written(TopFrame) = TopFrame.at - 1
      /\ scopes = W[L] \o Sub(world, TopFrame.rn, L + 1, TopFrame.at - 1)
  BY <1>1, <1>2, <1>7, <1>8 DEF Spelled, Written, TopFrame
<1>10. /\ W \in Seq(Seq(Entries(world))) /\ Len(W) = L /\ W[L] \in Seq(Entries(world))
       /\ Sub(world, TopFrame.rn, L + 1, TopFrame.at - 1) \in Seq(Entries(world))
  <2>1. W \in Seq(Seq(Entries(world))) /\ Len(W) = L
    BY <1>8 DEF Spelled
  <2>2. W[L] \in Seq(Entries(world))
    BY <1>5, <2>1
  <2>3. L + 1 \in Nat
    BY <1>5
  <2>4. \A i \in 0 .. Len(Deps(world, TopFrame.rn)) : Sub(world, TopFrame.rn, L + 1, i) \in Seq(Entries(world))
    <3> HIDE DEF L
    <3> QED BY <1>3, <1>7, <2>3, SubIs
  <2> QED BY <1>9, <2>1, <2>2, <2>4
<1>11. scopes \in Seq(Entries(world)) /\ <<o>> \in Seq(Entries(world)) /\ o \in Entries(world)
  <2>1. scopes \in Seq(Entries(world))
    BY <1>9, <1>10, ConcatProperties
  <2>2. L + 1 \in Nat
    BY <1>5
  <2>3. <<o>> \in Seq(Entries(world)) /\ o \in Entries(world)
    <3> HIDE DEF L
    <3> QED BY <1>6, <2>2, EntriesOf DEF Entries
  <2> QED BY <2>1, <2>3
<1> HIDE DEF o
<1>12. sc = scopes \o <<o>> /\ sc \in Seq(Entries(world)) /\ sc \o <<>> = sc
  <2>1. sc = scopes \o <<o>> /\ sc \in Seq(Entries(world))
    BY <1>11
  <2> HIDE DEF sc
  <2> QED BY <2>1, ConcatEmptySeq
<1> HIDE DEF y, st, sc
<1>13. /\ V \in Seq(Seq(Entries(world))) /\ Len(V) = L + 1 /\ V[L + 1] = sc /\ \A k \in 1 .. L : V[k] = W[k]
  BY <1>10, <1>12, AppendProperties
<1>14. /\ s \in Seq(Frames) /\ Len(s) = L + 1 /\ DOMAIN s = 1 .. L + 1 /\ s[L + 1] = y
       /\ \A k \in 1 .. L : s[k] = st[k]
  BY <1>5, <1>6, AppendProperties
<1> HIDE DEF V, s
<1>15. /\ 1 \in 1 .. L /\ s[L] = Advanced /\ stack[L] = TopFrame
       /\ \A k \in 1 .. L : k # L => s[k] = stack[k] /\ k + 1 \in 1 .. L
       /\ \A k \in 1 .. L : s[k].rn = stack[k].rn
       /\ \A k \in 1 .. L + 1 : k = L + 1 \/ k \in 1 .. L
  <2>0. L \in Nat \ {0}
    BY <1>5
  <2>1. 1 \in 1 .. L /\ L \in 1 .. L /\ \A k \in 1 .. L : k # L => k + 1 \in 1 .. L
    <3> HIDE DEF L
    <3> QED BY <2>0
  <2>2. \A k \in 1 .. L + 1 : k = L + 1 \/ k \in 1 .. L
    <3> HIDE DEF L
    <3> QED BY <2>0
  <2>3. s[L] = Advanced /\ stack[L] = TopFrame
    BY <1>5, <1>14, <2>1 DEF TopFrame
  <2>4. \A k \in 1 .. L : k # L => s[k] = stack[k]
    BY <1>5, <1>14
  <2> QED BY <1>2, <2>1, <2>2, <2>3, <2>4
<1>16. Nested(world, s)
  <2>1. s # <<>> /\ s[1].rn = Root
    BY <1>3, <1>14, <1>15 DEF Nested
  <2>2. ASSUME NEW j \in DOMAIN s, s[j].pass = "descend" PROVE s[j].at <= Len(Deps(world, s[j].rn)) + 1
    <3>1. CASE j = L + 1
      BY <1>6, <1>14, <2>2, <3>1
    <3>2. CASE j = L
      BY <1>1, <1>2, <1>7, <1>15, <3>2
    <3>3. CASE j \in 1 .. L /\ j # L
      BY <1>3, <1>5, <1>15, <2>2, <3>3 DEF Nested
    <3> QED BY <1>14, <1>15, <3>1, <3>2, <3>3
  <2>3. ASSUME NEW j \in DOMAIN s, j # Len(s)
        PROVE  s[j].pass = "descend" /\ s[j].at >= 2 /\ s[j + 1].rn = Deps(world, s[j].rn)[s[j].at - 1]
    <3>1. CASE j = L
      <4>1. s[j + 1].rn = TopDep /\ s[j] = Advanced /\ TopFrame.at + 1 - 1 = TopFrame.at /\ TopFrame.at + 1 >= 2
        BY <1>2, <1>6, <1>14, <1>15, <3>1
      <4> QED BY <1>2, <4>1 DEF TopDep
    <3>2. CASE j \in 1 .. L /\ j # L
      BY <1>3, <1>5, <1>15, <3>2 DEF Nested
    <3> QED BY <1>14, <1>15, <2>3, <3>1, <3>2
  <2> QED BY <2>1, <2>2, <2>3 DEF Nested
<1>17. Spelled(world, s, sc, V)
  <2>1. V \in Seq(Seq(Entries(world))) /\ Len(V) = Len(s) /\ V[1] = <<>>
    BY <1>8, <1>13, <1>14, <1>15 DEF Spelled
  <2>2. ASSUME NEW j \in DOMAIN s, j # Len(s)
        PROVE  V[j + 1] = (V[j] \o Sub(world, s[j].rn, j + 1, s[j].at - 2)) \o <<OpenedIn(world, s[j + 1].rn, j + 1)>>
    <3>1. CASE j = L
      <4>1. s[j] = Advanced /\ Advanced.rn = TopFrame.rn /\ Advanced.at - 2 = TopFrame.at - 1 /\ s[j + 1].rn = TopDep
        BY <1>2, <1>6, <1>14, <1>15, <3>1
      <4>2. V[j + 1] = sc /\ V[j] = W[L]
        BY <1>5, <1>13, <3>1
      <4> QED BY <1>9, <1>12, <3>1, <4>1, <4>2 DEF o
    <3>2. CASE j \in 1 .. L /\ j # L
      <4>1. V[j + 1] = W[j + 1] /\ V[j] = W[j] /\ s[j] = stack[j] /\ s[j + 1].rn = stack[j + 1].rn
        BY <1>13, <1>15, <3>2
      <4>2. j \in DOMAIN stack /\ j # Len(stack)
        BY <1>5, <3>2
      <4> QED BY <1>8, <4>1, <4>2 DEF Spelled
    <3> QED BY <1>14, <1>15, <2>2, <3>1, <3>2
  <2>3. sc = V[Len(s)] \o Sub(world, s[Len(s)].rn, Len(s) + 1, Written(s[Len(s)]))
    <3>1. L + 1 + 1 \in Nat
      BY <1>5
    <3>2. Sub(world, TopDep, L + 1 + 1, 0) = <<>>
      <4> HIDE DEF L
      <4> QED BY <1>3, <1>6, <1>7, <3>1, SubIs
    <3>3. Written(y) = 0
      BY <1>6 DEF Written
    <3> QED BY <1>6, <1>12, <1>13, <1>14, <3>2, <3>3
  <2> QED BY <2>1, <2>2, <2>3 DEF Spelled
<1>18. stack' = s
  BY <1>1, <1>4 DEF s
<1> QED BY <1>1, <1>16, <1>17, <1>18 DEF TreeInv

\* The end of an activation: its subtree is closed, and what the caller wrote is one subtree longer.
LEMMA TreeReturns == ASSUME NoCycles PROVE FindInv /\ TreeInv /\ Find!Return => TreeInv'
<1> SUFFICES ASSUME FindInv, TreeInv, Find!Return PROVE TreeInv'
    OBVIOUS
<1> DEFINE L == Len(stack)
           M == L - 1
           s == SubSeq(stack, 1, Len(stack) - 1)
           n == TopFrame.rn
           E == Entries(world)
<1>1. /\ findPc = "walk" /\ stack # <<>> /\ TopFrame.pass = "descend" /\ TopFrame.at > Len(Deps(world, n))
      /\ stack' = s /\ UNCHANGED world
      /\ L > 1 => findPc' = "walk" /\ scopes' = Append(scopes, ClosedIn(world, n, L))
      /\ ~(L > 1) => findPc' = "print" /\ scopes' = scopes
  BY Running, Translated, SameEntries DEF Find!Return, Find!Front
<1>2. /\ stack \in Seq(Frames) /\ Walk(world, packages, stack) /\ Nested(world, stack) /\ world \in Worlds
      /\ L \in Nat \ {0} /\ DOMAIN stack = 1 .. L /\ L \in 1 .. L
  BY <1>1, TopIs DEF FindInv, TreeInv
<1>3. PICK W : Spelled(world, stack, scopes, W)
  BY <1>1 DEF TreeInv
<1>4. /\ ~Lost(world, n) /\ n \in Names /\ Deps(world, n) \in Seq(Names) /\ TopFrame \in Frames
      /\ Len(Deps(world, n)) \in 0 .. Len(Deps(world, n)) /\ TopFrame.at - 1 = Len(Deps(world, n))
  <2>1. ~Lost(world, n) /\ n \in Names /\ Deps(world, n) \in Seq(Names) /\ TopFrame \in Frames
    BY <1>1, <1>2, Running DEF Walk
  <2>2. TopFrame.at <= Len(Deps(world, n)) + 1
    BY <1>1, <1>2 DEF Nested, TopFrame
  <2> QED BY <1>1, <2>1, <2>2 DEF Frames
<1>5. /\ scopes = W[L] \o Sub(world, n, L + 1, Len(Deps(world, n)))
      /\ W \in Seq(Seq(E)) /\ Len(W) = L /\ \A k \in 1 .. L : W[k] \in Seq(E)
  <2>1. Written(TopFrame) = Len(Deps(world, n))
    BY <1>1, <1>4 DEF Written
  <2>2. scopes = W[L] \o Sub(world, n, L + 1, Len(Deps(world, n)))
    BY <1>3, <2>1 DEF Spelled, TopFrame
  <2>3. W \in Seq(Seq(E)) /\ Len(W) = L
    BY <1>3 DEF Spelled
  <2> QED BY <2>2, <2>3
<1>6. L + 1 \in Nat /\ L \in Nat
  BY <1>2
<1> HIDE DEF L, n, E
<1>7. Sub(world, n, L + 1, Len(Deps(world, n))) \in Seq(E)
  BY <1>2, <1>4, <1>6, SubIs DEF E
<1>8. CASE ~(L > 1)
  <2>1. L = 1 /\ n = Root /\ W[1] = <<>> /\ L + 1 = 2
    BY <1>2, <1>3, <1>8 DEF Nested, Spelled, TopFrame, L, n
  <2>2. scopes = Sub(world, Root, 2, Len(Deps(world, Root)))
    BY <1>5, <1>7, <2>1, ConcatEmptySeq
  <2> QED BY <1>1, <1>8, <2>2 DEF TreeInv
<1>9. CASE L > 1
  <2> DEFINE f == stack[M]
             d == Deps(world, f.rn)
             i == f.at - 1
             p == Sub(world, f.rn, L, f.at - 2)
             o == <<OpenedIn(world, n, L)>>
             b == Sub(world, n, L + 1, Len(Deps(world, n)))
             c == <<ClosedIn(world, n, L)>>
             V == SubSeq(W, 1, M)
  <2>1. M \in 1 .. L /\ M # L /\ M + 1 = L /\ M \in Nat /\ M \in 1 .. M /\ 1 \in 1 .. M
    BY <1>2, <1>9
  <2> HIDE DEF M
  <2>2. f \in Frames /\ f.rn \in Names /\ ~Lost(world, f.rn) /\ d \in Seq(Names)
    <3>1. f \in Frames /\ FrameInv(world, packages, f)
      BY <1>2, <2>1 DEF Walk
    <3>2. f.rn \in Names /\ ~Lost(world, f.rn)
      BY <1>2, <3>1 DEF FrameInv, Walk, Frames
    <3> QED BY <1>2, <3>1, <3>2, DepsType
  <2>3. f.pass = "descend" /\ i \in 1 .. Len(d) /\ n = d[i] /\ i - 1 = f.at - 2 /\ i - 1 \in 0 .. Len(d)
    <3>1. f.pass = "descend" /\ f.at >= 2 /\ stack[M + 1].rn = d[i] /\ f.at <= Len(d) + 1
      BY <1>2, <2>1 DEF Nested, L
    <3>2. f.at \in Nat /\ Len(d) \in Nat
      BY <2>2 DEF Frames
    <3> QED BY <2>1, <3>1, <3>2 DEF TopFrame, L, n
  <2>4. W[L] = (W[M] \o p) \o o
    <3>1. W[M + 1] = (W[M] \o Sub(world, f.rn, M + 1, f.at - 2)) \o <<OpenedIn(world, stack[M + 1].rn, M + 1)>>
      BY <1>2, <1>3, <2>1 DEF Spelled, L
    <3> QED BY <2>1, <3>1 DEF TopFrame, L, n
  <2>5. /\ p \in Seq(E) /\ Sub(world, f.rn, L, i) = p \o TreeOf(world)[n][L]
        /\ TreeOf(world)[n][L] = o \o b \o c
    <3>1. /\ \A j \in 0 .. Len(d) : Sub(world, f.rn, L, j) \in Seq(E)
          /\ \A j \in 1 .. Len(d) : Sub(world, f.rn, L, j) = Sub(world, f.rn, L, j - 1) \o TreeOf(world)[d[j]][L]
      BY <1>2, <1>6, <2>2, SubIs DEF E
    <3>2. TreeOf(world)[n][L] = o \o b \o c
      BY <1>2, <1>4, <1>6, SubIs
    <3> QED BY <2>3, <3>1, <3>2
  <2>6. o \in Seq(E) /\ c \in Seq(E) /\ b \in Seq(E) /\ W[M] \in Seq(E)
    BY <1>4, <1>5, <1>6, <1>7, <2>1, EntriesOf DEF E
  <2>7. scopes' = scopes \o c
    <3>1. scopes \in Seq(E)
      BY <1>5, <1>7, <2>1, ConcatProperties
    <3>2. ClosedIn(world, n, L) \in E
      BY <1>4, <1>6 DEF E, Entries
    <3>3. \A q \in Seq(E), x \in E : Append(q, x) = q \o <<x>>
      OBVIOUS
    <3>4. scopes' = Append(scopes, ClosedIn(world, n, L))
      BY <1>1, <1>9
    <3> QED BY <3>1, <3>2, <3>3, <3>4
  <2> HIDE DEF o, b, c, p
  <2>8. scopes' = W[M] \o Sub(world, f.rn, L, i)
    <3> DEFINE v == W[M]
    <3>1. scopes' = (((v \o p) \o o) \o b) \o c
      BY <1>5, <2>4, <2>7 DEF b
    <3>2. Sub(world, f.rn, L, i) = p \o ((o \o b) \o c)
      BY <2>5
    <3>3. v \in Seq(E) /\ p \in Seq(E) /\ o \in Seq(E) /\ b \in Seq(E) /\ c \in Seq(E)
      BY <2>5, <2>6
    <3> HIDE DEF v
    <3>4. Regrouped(v, p, o, b, c)
      BY <3>3, Regroup, Zenon
    <3>5. (((v \o p) \o o) \o b) \o c = v \o (p \o ((o \o b) \o c))
      BY <3>4, Zenon DEF Regrouped
    <3> QED BY <3>1, <3>2, <3>5, Zenon DEF v
  <2>9. /\ s \in Seq(Frames) /\ Len(s) = M /\ DOMAIN s = 1 .. M /\ \A k \in 1 .. M : s[k] = stack[k]
        /\ V \in Seq(Seq(E)) /\ Len(V) = M /\ \A k \in 1 .. M : V[k] = W[k]
    <3>1. ASSUME NEW S, NEW t \in Seq(S), Len(t) = M + 1
          PROVE  /\ SubSeq(t, 1, M) \in Seq(S) /\ Len(SubSeq(t, 1, M)) = M
                 /\ DOMAIN SubSeq(t, 1, M) = 1 .. M /\ \A k \in 1 .. M : SubSeq(t, 1, M)[k] = t[k]
      BY <2>1, <3>1
    <3>2. s = SubSeq(stack, 1, M) /\ Len(stack) = M + 1
      BY <2>1 DEF M, L
    <3>3. Len(W) = M + 1 /\ W \in Seq(Seq(E))
      BY <1>5, <2>1
    <3> HIDE DEF s
    <3>4. s \in Seq(Frames) /\ Len(s) = M /\ DOMAIN s = 1 .. M /\ \A k \in 1 .. M : s[k] = stack[k]
      BY <1>2, <3>1, <3>2
    <3>5. V \in Seq(Seq(E)) /\ Len(V) = M /\ \A k \in 1 .. M : V[k] = W[k]
      BY <3>1, <3>3
    <3> QED BY <3>4, <3>5
  <2> HIDE DEF s, V
  <2>10. \A k \in 1 .. M : k \in 1 .. L /\ k # L /\ (k # M => k + 1 \in 1 .. M)
    BY <1>2, <2>1
  <2>11. Nested(world, s)
    <3>1. s # <<>> /\ s[1].rn = Root
      BY <1>2, <2>1, <2>9 DEF Nested
    <3>2. ASSUME NEW j \in DOMAIN s, s[j].pass = "descend" PROVE s[j].at <= Len(Deps(world, s[j].rn)) + 1
      BY <1>2, <2>9, <2>10, <3>2 DEF Nested
    <3>3. ASSUME NEW j \in DOMAIN s, j # Len(s)
          PROVE  s[j].pass = "descend" /\ s[j].at >= 2 /\ s[j + 1].rn = Deps(world, s[j].rn)[s[j].at - 1]
      <4>1. s[j] = stack[j] /\ s[j + 1] = stack[j + 1] /\ j \in DOMAIN stack /\ j # Len(stack)
        BY <1>2, <2>9, <2>10, <3>3 DEF L
      <4> QED BY <1>2, <4>1 DEF Nested
    <3> QED BY <3>1, <3>2, <3>3 DEF Nested
  <2>12. Spelled(world, s, scopes', V)
    <3>1. V[1] = <<>>
      BY <1>3, <2>1, <2>9 DEF Spelled
    <3>2. ASSUME NEW j \in DOMAIN s, j # Len(s)
          PROVE  V[j + 1] = (V[j] \o Sub(world, s[j].rn, j + 1, s[j].at - 2)) \o <<OpenedIn(world, s[j + 1].rn, j + 1)>>
      <4>1. s[j] = stack[j] /\ s[j + 1] = stack[j + 1] /\ j \in DOMAIN stack /\ j # Len(stack) /\ V[j + 1] = W[j + 1] /\ V[j] = W[j]
        BY <1>2, <2>9, <2>10, <3>2 DEF L
      <4> QED BY <1>3, <4>1 DEF Spelled
    <3>3. Written(s[M]) = i /\ s[M] = f
      BY <2>1, <2>3, <2>9 DEF Written
    <3>4. scopes' = V[Len(s)] \o Sub(world, s[Len(s)].rn, Len(s) + 1, Written(s[Len(s)]))
      BY <2>1, <2>8, <2>9, <3>3
    <3> QED BY <2>9, <3>1, <3>2, <3>4 DEF Spelled, E
  <2> QED BY <1>1, <1>9, <2>11, <2>12 DEF TreeInv
<1> QED BY <1>8, <1>9

LEMMA TreeStep == ASSUME NoCycles PROVE FindInv /\ TreeInv /\ [Find!Next]_(Find!vars) => TreeInv'
<1> SUFFICES ASSUME FindInv, TreeInv, [Find!Next]_(Find!vars) PROVE TreeInv'
    OBVIOUS
<1>1. CASE UNCHANGED Find!vars
  BY <1>1 DEF Find!vars, TreeInv
<1>2. CASE Find!NothingToDo \/ Find!ProjectFails \/ Find!LookupFails \/ Find!PackageFails
  BY <1>2 DEF Find!NothingToDo, Find!ProjectFails, Find!LookupFails, Find!PackageFails, TreeInv
<1>3. CASE Find!PrintPackage \/ Find!Close
  BY <1>3 DEF Find!PrintPackage, Find!Close, TreeInv
<1>4. CASE Find!PrintProject
  <2> DEFINE f == [rn |-> Root, pass |-> "add", at |-> 1]
  <2>1. /\ findPc = "start" /\ findPc' = "walk" /\ ~Lost(world, Root) /\ scopes = <<>> /\ world \in Worlds /\ Root \in Names
        /\ stack' = <<f>> /\ UNCHANGED <<world, scopes>>
    BY <1>4, Translated, FindAssumption DEF Find!PrintProject, Find!Frame, FindInv, TreeInv, Find!DependsAssumption
  <2>2. f.rn = Root /\ f.pass = "add" /\ Written(f) = 0
    BY DEF Written
  <2> HIDE DEF f
  <2>3. stack' # <<>> /\ Len(stack') = 1 /\ DOMAIN stack' = {1} /\ stack'[1] = f
    BY <2>1
  <2>4. Nested(world, stack')
    BY <2>2, <2>3 DEF Nested
  <2>5. <<<<>>>> \in Seq(Seq(Entries(world))) /\ Len(<<<<>>>>) = 1 /\ <<<<>>>>[1] = <<>>
    BY EmptySeq
  <2>6. Sub(world, Root, 2, 0) = <<>>
    BY <2>1, SubIs
  <2>7. Spelled(world, stack', <<>>, <<<<>>>>)
    BY <2>2, <2>3, <2>5, <2>6 DEF Spelled
  <2> QED BY <2>1, <2>4, <2>7 DEF TreeInv
<1> QED
  BY <1>1, <1>2, <1>3, <1>4, TreeGoesOn, TreeDescends, TreeReturns DEF Find!Next

LEMMA TreeInit == Find!Init => TreeInv
BY DEF Find!Init, TreeInv

LEMMA TreeWritten == FindInv /\ TreeInv /\ ListComplete => FileComplete
<1> SUFFICES ASSUME FindInv, TreeInv, ListComplete, findPc = "done" PROVE scopes = Find!Subtree
    BY DEF FileComplete, Find!FileComplete, ListComplete
<1>1. world \in Worlds /\ ~Lost(world, Root)
  BY DEF FindInv, Walk, Met
<1> QED BY <1>1, SubtreeIs DEF TreeInv

\* A finished file is complete: beside the list, each path down the DEPENDS is in it, in their order, at its
\* depth and closed, for any graph of recipes without a cycle (find_dependencies, print_package).
THEOREM FileIsComplete == ASSUME NoCycles PROVE BuildSpec => []FileComplete
<1>1. FindInv /\ TreeInv /\ [Find!Next]_(Find!vars) => TreeInv'
  BY TreeStep
<1> QED BY <1>1, FindInvariant, ListIsComplete, TreeInit, TreeWritten, Parts, PTL
=============================================================================
