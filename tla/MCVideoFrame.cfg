SPECIFICATION FairSpec
CONSTANTS
  Conn = {c1, c2}
  Web = {c2}
  Svc = {monitor0}
  Idx <- OneDisplay
CHECK_DEADLOCK FALSE
INVARIANTS
  Backpressure
  RefreshSoon
PROPERTIES
  Served
