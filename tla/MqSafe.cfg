SPECIFICATION Spec
CONSTANTS
  Handlers = {h1, h2}
  Listeners = {l1}
  Cancellable = {h1}
  MAX_QUEUE_DATA = 2
  MaxMsgs = 2
  MaxSpurious = 1
  NULL = NULL
  Garbage = Garbage
INVARIANT TypeOK
INVARIANT Accounted
INVARIANT NoLostWakeup
INVARIANT SleepersCovered
INVARIANT HandedOnInOrder
\* Producers stop after MaxMsgs messages and the consumers then sleep.
CHECK_DEADLOCK FALSE
