SPECIFICATION Spec
CONSTANTS
  p1 = p1
  p2 = p2
  g1 = g1
  g2 = g2
  None = None
  Proc <- Helpers
  Geo <- Sizes
  Uses <- AllUses
  MAX_NACK = 1
  MAX_DXGI_FAIL_TIME = 1
  MaxCounter = 1
INVARIANTS InputAccounted
PROPERTIES HelpersLeave VideoFollows FramesFlow
CHECK_DEADLOCK FALSE
