SPECIFICATION Spec
CONSTANTS
  h1 = h1
  h2 = h2
  Hosts <- TwoHosts
  None = None
  MaxFaults = 1
  Cap <- OneCrossing
INVARIANTS RoundFollowsConfig
PROPERTIES OneExitsAllExit Registered
CHECK_DEADLOCK FALSE
