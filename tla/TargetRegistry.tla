--------------------------- MODULE TargetRegistry ---------------------------
(***************************************************************************)
(* What the publishing pipeline promises about the Uptane targets of the   *)
(* update backend: a published target is put into targets.json in one      *)
(* indivisible step.  A put replaces the target of the same name and       *)
(* version and leaves every other target alone, whoever published it.      *)
(***************************************************************************)
CONSTANT Entries      \* target descriptions: [name, version, hash]

VARIABLE targets      \* the targets role the backend serves

SameKey(e, f) == e.name = f.name /\ e.version = f.version

Put(T, e) == {f \in T : ~SameKey(e, f)} \union {e}

Init == targets = {}

Publish(e) == targets' = Put(targets, e)

Next == \E e \in Entries : Publish(e)

Spec == Init /\ [][Next]_targets
=============================================================================
