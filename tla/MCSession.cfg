SPECIFICATION Spec
CONSTANTS
  Conn = {c1, c2}
  Key = {k1}
  Client <- OneKey
  Kind = {"remote", "port_forward", "other"}
  Tfa = {TRUE, FALSE}
  MaxTemp = 2
SYMMETRY Symmetry
CHECK_DEADLOCK FALSE
INVARIANTS
  RestoredAfterLast
