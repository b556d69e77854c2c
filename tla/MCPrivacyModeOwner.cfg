SPECIFICATION Spec
CONSTANTS
  Conn = {c1, c2}
  Impl = {mag, virtual}
  Virtual = {virtual}
  Mag = {mag}
  Amyuni = TRUE
  MaxLate = 1
SYMMETRY Symmetry
CHECK_DEADLOCK FALSE
INVARIANTS
  HiddenHasOwner
  OwnerIsThere
  ToldTruth
