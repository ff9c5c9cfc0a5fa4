------------------------- MODULE DependencyClosure -------------------------
(***************************************************************************)
(* What scripts/find_dependencies.py promises: it discovers the names a    *)
(* recipe needs, directly or not, each of them once, and calls the list    *)
(* complete only when nothing is missing from it.                          *)
(***************************************************************************)
CONSTANTS Names, Root

VARIABLES needs, found, complete

Init ==
  /\ needs \in [Names -> SUBSET Names]
  /\ found = {} /\ complete = FALSE

\* A new name that a discovered one needs.
Discover ==
  /\ ~complete
  /\ \E n \in found \union {Root} : \E d \in needs[n] \ found :
       found' = found \union {d}
  /\ UNCHANGED <<needs, complete>>

Finish ==
  /\ ~complete
  /\ \A n \in found \union {Root} : needs[n] \subseteq found
  /\ complete' = TRUE
  /\ UNCHANGED <<needs, found>>

Next == Discover \/ Finish

Spec == Init /\ [][Next]_<<needs, found, complete>>
=============================================================================
