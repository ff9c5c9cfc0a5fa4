\* Launches of two processes, with rebuilds, cleans and a deleted overlay.
SPECIFICATION Spec
CONSTANTS
  l1 = l1  l2 = l2  l3 = l3  p1 = p1  p2 = p2
  Launches = {l1, l2, l3}
  Processes = {p1, p2}
  Process <- MCProcess
  Options <- MCOptions
  start_port = 2222
  NumPorts = 2
  MaxBuilds = 2
  MaxDeletes = 1
INVARIANTS OverlayKeepsBase RootfsFitsLoader PortIsOwn
CHECK_DEADLOCK FALSE
