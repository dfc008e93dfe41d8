SPECIFICATION FairSpec
CONSTANTS
  Conns = {c1, c2}
  Stores = {s1}
  MaxMsgs = 1
  NoStore = NoStore
  NoConn = NoConn
  
PROPERTIES DeadSocketRemoved  
