SPECIFICATION Spec
CONSTANTS
  Lens <- Lengths
  MaxSends <- Sends
  MaxFaults = 1
  WINDOW = 7800
  MsgLen = 20
  MaxLogins = 1
  MaxDelays = 1
  MaxChunks <- Chunks
CHECK_DEADLOCK FALSE
INVARIANTS
  Faithful
  Decrypts
  CleanSwitch
  NeverGridlocked
