SPECIFICATION FairSpec
CONSTANTS
  Handlers = {h1, h2}
  Listeners = {}
  Cancellable = {h1}
  MAX_QUEUE_DATA = 2
  MaxMsgs = 2
  MaxSpurious = 0
  NULL = NULL
  Garbage = Garbage
PROPERTY RawItemPushed
PROPERTY HandlerReturns
\* Producers stop after MaxMsgs messages and the consumers then sleep.
CHECK_DEADLOCK FALSE
