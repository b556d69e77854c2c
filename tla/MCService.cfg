SPECIFICATION FairSpec
CONSTANTS
  Conn = {c1, c2}
  Svc = {cursor, video}
  Hosts = {{cursor}, {video}}
  Builtin = {cursor}
  WindowFocus = {}
  NeedSnapshot = {cursor, video}
  Restart = {video}
  Repeat = {cursor}
CHECK_DEADLOCK FALSE
INVARIANTS
  WantedIsSubscribed
  LingersOnlyAfterRace
  SnapshotFirst
PROPERTIES
  Refines
  NewIsPromoted
  DropTerminates
