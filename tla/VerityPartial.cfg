\* Enabling verity fails on a file of a legacy system that is upgraded.
SPECIFICATION Spec
CONSTANTS
  d1 = d1  d2 = d2  d3 = d3  o1 = o1  o2 = o2  o3 = o3  shared = shared
  c1 = c1  c2 = c2  c3 = c3
  NoDeployment = NoDeployment
  Objects <- SomeObjects
  OsRelease <- OwnRelease
  CfsFile <- OwnCfs
  Deployments = {d1, d2}
  Devices <- LegacyWithCfs
  MaxBoots = 3
  MaxFaults = 1
INVARIANT PartialIsHandled
CHECK_DEADLOCK FALSE
