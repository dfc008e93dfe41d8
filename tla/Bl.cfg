SPECIFICATION FairSpec
CONSTANTS
  Tables = {t1, t2}
  Consumers = {c1}
  ROWS_DATA_MAX_SIZE = 1
  MaxStmts = 2
  MaxEvents = 7
  MaxFiles = 2
  MaxHalves = 1
  None = None
INVARIANTS TypeOK OnTrack NeverBack LabelMapped 
PROPERTIES CatchesUp
CHECK_DEADLOCK FALSE
