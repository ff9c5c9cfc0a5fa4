\* A signed image and an upgraded system from before composefs, updated on the device.
SPECIFICATION Spec
CONSTANTS
  d1 = d1  d2 = d2  d3 = d3  o1 = o1  o2 = o2  o3 = o3  shared = shared
  c1 = c1  c2 = c2  c3 = c3
  NoDeployment = NoDeployment
  Objects <- SomeObjects
  OsRelease <- OwnRelease
  CfsFile <- OwnCfs
  Deployments = {d1, d2, d3}
  Devices <- ImageAndLegacy
  MaxBoots = 4
  MaxFaults = 2
INVARIANTS InterruptedIsResumed EnabledOrReported
CHECK_DEADLOCK FALSE
