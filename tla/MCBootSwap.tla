----------------------------- MODULE MCBootSwap -----------------------------
(***************************************************************************)
(* Three deployment lists, two of which boot the same kernel.              *)
(***************************************************************************)
EXTENDS BootSwap, TLC

CONSTANTS a, b, c, k1, k2

TwoKernels == a :> k1 @@ b :> k1 @@ c :> k2
=============================================================================
