SPECIFICATION Spec
CONSTANTS
  Conn = {c1, c2}
  Impl = {mag, virtual}
  Virtual = {virtual}
  Mag = {mag}
  Amyuni = FALSE
  MaxLate = 1
CHECK_DEADLOCK FALSE
PROPERTIES
  BelongsToSomeone
