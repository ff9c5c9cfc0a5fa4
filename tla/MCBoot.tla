------------------------------- MODULE MCBoot -------------------------------
(***************************************************************************)
(* Images: old has no UKI and a libostree without the patch; nextk is the  *)
(* first with both; tuned has the same kernel and another command line in  *)
(* its UKI; plain has the patch and no UKI.                                *)
(***************************************************************************)
EXTENDS Boot, TLC

CONSTANTS a, b, c, k1, k2

TwoKernels == a :> k1 @@ b :> k1 @@ c :> k2

MCKernel == [old |-> "k1", nextk |-> "k2", tuned |-> "k2", plain |-> "k2"]
MCUki == [old |-> NoFile, nextk |-> "u2", tuned |-> "u3", plain |-> NoFile]
=============================================================================
