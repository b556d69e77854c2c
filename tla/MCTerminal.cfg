CONSTANTS
  Conn = {1, 2}
  Term = {t1}
  MaxSess = 1
  MaxActs = 4
  InputSize = 1
  None = None
SPECIFICATION FairSpec
INVARIANT NoLeak
PROPERTY PersistentSurvives
PROPERTY Leaves
PROPERTY AllStopped
CHECK_DEADLOCK FALSE
