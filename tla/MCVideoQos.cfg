SPECIFICATION FairSpec
CONSTANTS
  c1 = c1
  c2 = c2
  s1 = s1
  Hosts <- AllHosts
INVARIANTS ClampSafe DelayedThrottles
PROPERTIES Recovers RecordFollows
CHECK_DEADLOCK FALSE
