SPECIFICATION FairSpec
CONSTANTS
  m1 = m1  m2 = m2  m3 = m3
  Threads = {t1, t2}
  Msgs = {m1, m2, m3}
  BodyLen <- MCBodyLen
  HeaderLen = 2
  OverLen = 1
  Room = 4
  NoMsg = NoMsg
  NoThread = NoThread
  Garbled = Garbled
INVARIANTS FramesWhole
PROPERTIES ImplementsChannel 
CHECK_DEADLOCK FALSE
