SPECIFICATION FairSpec
CONSTANTS
  Rows = {r1, r2}
  Uploaders = {u1}
  ROWS_DATA_MAX_SIZE = 1
  MaxEnds = 1
  Nothing = Nothing
  Wild = Wild
  Handlers = {h1}
  MAX_QUEUE_DATA = 1
  MaxMsgs = 8
  NULL = NULL
  Garbage = Garbage
  NoLink = NoLink
INVARIANTS   RoundInOrder
 
CHECK_DEADLOCK FALSE
