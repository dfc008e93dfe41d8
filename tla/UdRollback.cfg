SPECIFICATION Spec
CONSTANTS
  k1 = k1
  k2 = k2
  Keys <- MCKeys
  NullItem = NullItem
  BadItem = BadItem
  Bodies <- Plain
  Unparsable = Unparsable
  Updaters = {u1}
  NoOne = NoOne
  ROWS_DATA_MAX_SIZE = 2
  MaxMsgs = 2
  MaxErrors = 1
INVARIANT FailureRolledBack
