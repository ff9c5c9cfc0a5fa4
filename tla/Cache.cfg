\* First boots of three deployments, with updates, rollbacks, edits and power failures.
SPECIFICATION Spec
CONSTANTS
  Deployments = {"d1", "d2", "d3"}
  VendorConf <- MCVendorConf
  LocalConf = "local"
  WithCache = {"d1", "d2"}
  MaxFaults = 2
  MaxEdits = 2
INVARIANTS CacheFits ReadersSafe
PROPERTY ComesUp
CHECK_DEADLOCK FALSE
