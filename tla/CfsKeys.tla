------------------------------- MODULE CfsKeys -------------------------------
(***************************************************************************)
(* The keys of signed composefs images: generate_cfs_keys runs before each *)
(* task that uses them, one that installs the public key in the initial    *)
(* RAM disk of a machine and those that sign the commits of its images     *)
(* with the secret key.  The tasks have no stamp: every build runs them    *)
(* all.  The files are in one directory, the lock in the deploy directory  *)
(* of the machine.  A build may be interrupted at any step, also while it  *)
(* writes a file, which then stays empty.  An openssl that fails is not    *)
(* noticed (local takes the status of the assignment), and leaves files    *)
(* that are no keys.                                                       *)
(***************************************************************************)
EXTENDS Naturals

CONSTANTS
  Machines, Images,
  MaxBuilds      \* builds, the interrupted ones included

Tasks == Machines \X (Images \union {"do_install"})
Machine(t) == t[1]
Installs(t) == t[2] = "do_install"

CfsAssumption == MaxBuilds \in Nat \ {0} /\ "do_install" \notin Images

\* A key file: the number of the pair it is half of, or Empty when it is of no use.
NoFile == 0
Empty == 1
Keys == Nat \ {NoFile, Empty}

VARIABLES
  seckey, pubkey,     \* the two files
  lock,               \* tasks that hold the lock of their machine
  pc, pem,            \* of each task: where it is, the key it has generated
  installed, signed,  \* public key of a machine, secret key of each image
  next, builds        \* number of the next key, builds started

vars == <<seckey, pubkey, lock, pc, pem, installed, signed, next, builds>>

Init ==
  /\ seckey = NoFile /\ pubkey = NoFile /\ lock = {}
  /\ pc = [t \in Tasks |-> "wait"] /\ pem = [t \in Tasks |-> NoFile]
  /\ installed = [m \in Machines |-> NoFile] /\ signed = [t \in Tasks |-> NoFile]
  /\ next = 2 /\ builds = 1

Goto(t, p) == pc' = [pc EXCEPT ![t] = p]

\* An image is committed after the initial RAM disk has been built; the function
\* waits for the lock of its machine.
Acquire(t) ==
  /\ pc[t] = "wait" /\ (~Installs(t) => pc[<<Machine(t), "do_install">>] = "done")
  /\ \A u \in lock : Machine(u) # Machine(t)
  /\ lock' = lock \union {t} /\ Goto(t, "look")
  /\ UNCHANGED <<seckey, pubkey, pem, installed, signed, next, builds>>

gen_cfs_keys_secret(t) ==
  /\ pc[t] = "look"
  /\ Goto(t, IF seckey # NoFile THEN "unlock" ELSE "generate")
  /\ UNCHANGED <<seckey, pubkey, lock, pem, installed, signed, next, builds>>

gen_cfs_keys_always(t) ==
  /\ pc[t] = "look" /\ Goto(t, "generate")
  /\ UNCHANGED <<seckey, pubkey, lock, pem, installed, signed, next, builds>>

gen_cfs_keys(t) ==
  /\ pc[t] = "look"
  /\ Goto(t, IF pubkey # NoFile /\ seckey # NoFile THEN "unlock" ELSE "generate")
  /\ UNCHANGED <<seckey, pubkey, lock, pem, installed, signed, next, builds>>

gen_cfs_keys0(t) ==
  \/ /\ pc[t] = "generate" /\ Goto(t, "secret")
     /\ pem' = [pem EXCEPT ![t] = next] /\ next' = next + 1
     /\ UNCHANGED <<seckey, pubkey>>
  \* The file of the secret key holds both halves: it is of no use if either is missing.
  \/ /\ pc[t] = "secret" /\ Goto(t, "public")
     /\ seckey' \in {pem[t], Empty} /\ UNCHANGED <<pubkey, pem, next>>
  \/ /\ pc[t] = "public" /\ Goto(t, "unlock")
     /\ pubkey' \in {pem[t], seckey} /\ UNCHANGED <<seckey, pem, next>>

Generate(t) == gen_cfs_keys0(t) /\ UNCHANGED <<lock, installed, signed, builds>>

Release(t) ==
  /\ pc[t] = "unlock" /\ Goto(t, "use") /\ lock' = lock \ {t}
  /\ UNCHANGED <<seckey, pubkey, pem, installed, signed, next, builds>>

\* The task itself, without the lock. ostree does not sign with a file that is no key.
Use(t) ==
  /\ pc[t] = "use"
  /\ IF Installs(t)
     THEN installed' = [installed EXCEPT ![Machine(t)] = pubkey] /\ Goto(t, "done") /\ UNCHANGED signed
     ELSE /\ signed' = [signed EXCEPT ![t] = IF seckey = Empty THEN @ ELSE seckey]
          /\ Goto(t, IF seckey = Empty THEN "failed" ELSE "done")
          /\ UNCHANGED installed
  /\ UNCHANGED <<seckey, pubkey, lock, pem, next, builds>>

NewBuild ==
  /\ builds < MaxBuilds /\ builds' = builds + 1
  /\ pc' = [t \in Tasks |-> "wait"] /\ lock' = {}
  /\ UNCHANGED <<pem, installed, signed, next>>

Built == \A t \in Tasks : pc[t] = "done"
BuildAgain == Built /\ NewBuild /\ UNCHANGED <<seckey, pubkey>>

Interrupted ==
  /\ ~Built /\ NewBuild
  /\ \/ UNCHANGED <<seckey, pubkey>>
     \/ (\E t \in Tasks : pc[t] = "secret") /\ seckey' = Empty /\ UNCHANGED pubkey
     \/ (\E t \in Tasks : pc[t] = "public") /\ pubkey' = Empty /\ UNCHANGED seckey

Finished == Built /\ builds = MaxBuilds /\ UNCHANGED vars

Next ==
  \/ \E t \in Tasks : Acquire(t) \/ gen_cfs_keys(t) \/ Generate(t) \/ Release(t) \/ Use(t)
  \/ BuildAgain \/ Interrupted \/ Finished

Spec == Init /\ [][Next]_vars

-----------------------------------------------------------------------------
\* Types of the variables; a lock has one holder.
TypeOK ==
  /\ {seckey, pubkey} \subseteq Keys \union {NoFile, Empty}
  /\ lock \subseteq Tasks /\ \A t, u \in lock : Machine(t) = Machine(u) => t = u
  /\ pc \in [Tasks -> {"wait", "look", "generate", "secret", "public", "unlock", "use", "done", "failed"}]
  /\ pem \in [Tasks -> Keys \union {NoFile}]
  /\ installed \in [Machines -> Keys \union {NoFile, Empty}]
  /\ signed \in [Tasks -> Keys \union {NoFile, Empty}]
  /\ next \in Keys /\ builds \in 1 .. MaxBuilds

\* The images of a finished build can be verified by the key in the initial RAM
\* disk built with them, however the builds before it ended: both tasks take their
\* file after the lock is released (do_install, do_image_ostreecommit). The exception
\* is a build that was cut short in writing the public key: the empty file "already
\* exists" for all later builds.
Verifies ==
  Built /\ pubkey # Empty =>
    \A t \in Tasks : ~Installs(t) => signed[t] = installed[Machine(t)] /\ signed[t] \in Keys

\* Keys that went into an image, in this build or in any build before it, are never
\* replaced: devices in the field trust no other ("already exists; skipping generation").
Used == (\E m \in Machines : installed[m] # NoFile) \/ (\E t \in Tasks : signed[t] # NoFile)

KeysStay == [][Used => UNCHANGED <<seckey, pubkey>>]_vars
=============================================================================
