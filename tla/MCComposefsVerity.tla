------------------------- MODULE MCComposefsVerity --------------------------
(***************************************************************************)
(* Three deployments that share an object; each has an os-release of its   *)
(* own. The first may be of a system from before composefs.                *)
(***************************************************************************)
EXTENDS ComposefsVerity, TLC

CONSTANTS d1, d2, d3, o1, o2, o3, shared, c1, c2, c3

SomeObjects == d1 :> {o1, shared} @@ d2 :> {o2, shared} @@ d3 :> {o3, shared}
OwnRelease == d1 :> o1 @@ d2 :> o2 @@ d3 :> o3
OwnCfs == d1 :> c1 @@ d2 :> c2 @@ d3 :> c3

Signed == [d \in Deployments |-> "signed"]

\* A signed image, updated by a client that seals what it adds.
Image ==
  [WithCfs |-> Deployments, Mode |-> Signed, First |-> {d1},
   Upgrade |-> FALSE, Always |-> FALSE, UpdateSeals |-> TRUE]

\* A system from before composefs, whose client writes no composefs file and no verity.
Legacy ==
  [WithCfs |-> {}, Mode |-> [Signed EXCEPT ![d1] = "none"], First |-> {d1},
   Upgrade |-> TRUE, Always |-> FALSE, UpdateSeals |-> FALSE]

ImageAndLegacy ==
  {Image, [Image EXCEPT !.UpdateSeals = FALSE], [Image EXCEPT !.Always = TRUE], Legacy}
LegacyWithCfs == {[Legacy EXCEPT !.WithCfs = {d2}]}

ASSUME SealableAssumption == (\A v \in Devices : Sealable(v)) /\ OwnOsRelease
=============================================================================
