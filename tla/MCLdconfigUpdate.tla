-------------------------- MODULE MCLdconfigUpdate --------------------------
(***************************************************************************)
(* Three deployments: two share a configuration, the third changes it and  *)
(* its image has no cache.                                                 *)
(***************************************************************************)
EXTENDS LdconfigUpdate

MCVendorConf == [x \in Deployments |-> IF x = "d3" THEN "c2" ELSE "c1"]

ASSUME DeploymentsAssumption
=============================================================================
