SPECIFICATION Spec
CONSTANTS
  k1 = k1
  k2 = k2
  Keys <- MCKeys
  NullItem = NullItem
  BadItem = BadItem
  Bodies <- Mixed
  Unparsable = Unparsable
  Updaters = {u1, u2}
  NoOne = NoOne
  ROWS_DATA_MAX_SIZE = 1
  MaxMsgs = 3
  MaxErrors = 1
INVARIANT TypeOK
INVARIANT Accounted
INVARIANT QueueServed
INVARIANT RejectedInert
PROPERTY CommitWhole
