---------------------------- MODULE AtomicSwitch ----------------------------
(***************************************************************************)
(* What an update of the boot loader configuration promises: the list of   *)
(* deployments the firmware boots changes in one step, and only to the     *)
(* list the running update asked for.                                      *)
(***************************************************************************)
CONSTANTS Lists, NoList
VARIABLES active, target

vars == <<active, target>>

Init == active \in Lists \union {NoList} /\ target = NoList

Begin == target = NoList /\ target' \in Lists /\ UNCHANGED active
Switch == target # NoList /\ active' = target /\ UNCHANGED target
End == target' = NoList /\ UNCHANGED active

Next == Begin \/ Switch \/ End
Spec == Init /\ [][Next]_vars
=============================================================================
