SPECIFICATION LinkFairSpec
CONSTANTS
  Conns = {c1, c2}
  Stores = {s1}
  MaxMsgs = 0
  NoStore = NoStore
  NoConn = NoConn
PROPERTY DeadLinkReplaced
INVARIANT LinkTypeOK
INVARIANT OneRegistration
