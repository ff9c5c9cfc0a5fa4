----------------------------- MODULE MCSelfTests -----------------------------
(***************************************************************************)
(* The images a case may get: the one it configures, and for each thing it *)
(* is to check one that is wrong in that.                                  *)
(***************************************************************************)
EXTENDS Tests

Image(features) == [k \in {"systemd", "auto", "creds", "hwid", "hsm", "limit"} |-> k \in features]

Shared == {"systemd", "auto", "creds", "hwid"}

Flawed(features, flaws) ==
  {Image(features)} \union {Image((features \ {f}) \union ({f} \ features)) : f \in flaws}

MCImages ==
  [shared |-> Flawed(Shared, {"auto", "creds", "hwid"}),
   nonostree |-> Flawed(Shared, {"hwid"}),
   manual |-> Flawed(Shared \ {"auto"}, {"auto", "creds"}),
   device |-> Flawed(Shared \ {"creds"}, {"creds", "hwid"}),
   hsm |-> Flawed((Shared \ {"creds"}) \union {"hsm"}, {"creds", "hsm"}),
   resource |-> Flawed(Shared \union {"limit"}, {"limit"}),
   nonsystemd |-> Flawed(Shared \ {"systemd"}, {"systemd", "creds"}),
   ptest |-> Flawed(Shared \ {"auto"}, {}),
   secondaryFirst |-> Flawed(Shared, {"creds"}),
   primaryFirst |-> Flawed(Shared, {"creds"})]
=============================================================================
