-------------------------- MODULE VarRelabelProofs --------------------------
(***************************************************************************)
(* A boot of the stamp's policy finds no stale label unless something else *)
(* was booted since: for any number of policies, files and boots.          *)
(***************************************************************************)
EXTENDS VarRelabel, TLAPS

\* TypeOK is preserved by every step, and so holds of every reachable state.
THEOREM TypeCorrect == Spec => []TypeOK
<1>1. Init => TypeOK
  BY BootsAssumption DEF Init, TypeOK, PCs
<1>2. TypeOK /\ [Next]_vars => TypeOK'
  BY DEF TypeOK, PCs, Next, vars, Boot, Skip, StartRelabel, Relabel, Relabelled, RelabelFails,
         Truncate, WriteStamp, Use, PowerOff
<1> QED
  BY <1>1, <1>2, PTL DEF Spec

\* What the stamp knows: a label is the stamp's or of something booted since it was written; and
\* how far the relabel of the running boot has come.
StampKnows ==
  stamp # NoPolicy => \A f \in Files : label[f] = stamp \/ label[f] \in since
BootKnown == pc # "off" => policy \in since \/ (policy = stamp /\ pc = "up")
Progress ==
  /\ pc = "relabel" => \A f \in Files \ todo : label[f] = policy
  /\ pc \in {"stamp", "write"} => Labelled
  /\ pc \in {"relabel", "stamp", "write"} => policy # NoPolicy
  /\ Served => stamp = policy

IInv == TypeOK /\ StampKnows /\ BootKnown /\ Progress

\* IInv is inductive: Boot adds to since what Use, Relabel may label by, and WriteStamp empties it
\* only when all labels are the new stamp's.
LEMMA InductiveStep == IInv /\ [Next]_vars => IInv'
<1> SUFFICES ASSUME IInv, [Next]_vars PROVE IInv'
  OBVIOUS
<1> USE DEF IInv
<1>t. TypeOK'
  BY DEF TypeOK, PCs, Next, vars, Boot, Skip, StartRelabel, Relabel, Relabelled, RelabelFails,
         Truncate, WriteStamp, Use, PowerOff
<1>1. ASSUME NEW p \in Policies \union {NoPolicy}, Boot(p) PROVE IInv'
  BY <1>1, <1>t DEF TypeOK, StampKnows, BootKnown, Progress, Labelled, Served, Boot
<1>2. CASE Skip
  BY <1>2, <1>t DEF TypeOK, StampKnows, BootKnown, Progress, Labelled, Served, Skip, Skips
<1>3. CASE StartRelabel
  BY <1>3, <1>t DEF TypeOK, StampKnows, BootKnown, Progress, Labelled, Served, StartRelabel, Skips
<1>4. ASSUME NEW f \in Files, Relabel(f) PROVE IInv'
  BY <1>4, <1>t DEF TypeOK, StampKnows, BootKnown, Progress, Labelled, Served, Relabel
<1>5. CASE Relabelled
  BY <1>5, <1>t DEF TypeOK, StampKnows, BootKnown, Progress, Labelled, Served, Relabelled
<1>6. CASE RelabelFails
  BY <1>6, <1>t DEF TypeOK, StampKnows, BootKnown, Progress, Labelled, Served, RelabelFails
<1>7. CASE Truncate
  BY <1>7, <1>t DEF TypeOK, StampKnows, BootKnown, Progress, Labelled, Served, Truncate
<1>8. CASE WriteStamp
  BY <1>8, <1>t DEF TypeOK, StampKnows, BootKnown, Progress, Labelled, Served, WriteStamp
<1>9. ASSUME NEW f \in Files, Use(f) PROVE IInv'
  BY <1>9, <1>t DEF TypeOK, StampKnows, BootKnown, Progress, Labelled, Served, Use
<1>10. CASE PowerOff
  BY <1>10, <1>t DEF TypeOK, StampKnows, BootKnown, Progress, Labelled, Served, PowerOff
<1>11. CASE UNCHANGED vars
  BY <1>11, <1>t DEF TypeOK, StampKnows, BootKnown, Progress, Labelled, Served, vars
<1> QED
  BY <1>1, <1>2, <1>3, <1>4, <1>5, <1>6, <1>7, <1>8, <1>9, <1>10, <1>11 DEF Next

\* A relabel that was interrupted or failed is done again by the next boot of the same policy, and
\* one that is skipped was not needed.
THEOREM RepeatedBoot == Spec => []RepeatedBootMatches
<1>1. Init => IInv
  BY PolicyAssumption, BootsAssumption
     DEF Init, IInv, TypeOK, PCs, StampKnows, BootKnown, Progress, Labelled, Served
<1>2. IInv => RepeatedBootMatches
  BY DEF IInv, TypeOK, StampKnows, Progress, RepeatedBootMatches, Labelled, Served
<1> QED
  BY <1>1, <1>2, InductiveStep, PTL DEF Spec
=============================================================================
