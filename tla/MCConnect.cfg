SPECIFICATION Spec
CONSTANTS
  tcp = tcp
  udp = udp
  Inner = {tcp, udp}
  Tries <- Attempts
CHECK_DEADLOCK FALSE
INVARIANTS KeysAgree HashNotSwallowed NobodyWaits
