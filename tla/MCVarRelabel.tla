---------------------------- MODULE MCVarRelabel ----------------------------
(***************************************************************************)
(* Three policies and two files are enough to mix labels across updates    *)
(* and rollbacks.                                                          *)
(***************************************************************************)
EXTENDS VarRelabel, TLC

CONSTANTS p1, p2, p3, f1, f2
=============================================================================
