------------------------- MODULE ClientLinkProofs -------------------------
(***************************************************************************)
(* Proofs about the server's register of connections and its dispatcher,   *)
(* for any number of connections, stores and messages (module              *)
(* SocketServer), and about one client that connects to the server again   *)
(* and again (module ClientLink).  Every step of the composition is a step *)
(* of SocketServer or leaves the server alone, so what is proved of the    *)
(* register holds there too.                                               *)
(***************************************************************************)
EXTENDS ClientLink, FiniteSetTheorems, SequenceTheorems, WellFoundedInduction, TLAPS

-----------------------------------------------------------------------------
(* The server alone.                                                       *)

(* A set of naturals that is not empty has a least element.                *)
LEMMA LeastNatural ==
  ASSUME NEW S \in SUBSET Nat, S # {}
  PROVE  \E n \in S : \A k \in S : n <= k
<1> DEFINE R == OpToRel(<, Nat)
<1>1. IsWellFoundedOn(R, Nat)
  BY NatLessThanWellFounded
<1>2. \A x, y \in Nat : x < y => <<x, y>> \in R
  BY DEF OpToRel
<1> HIDE DEF R
<1>3. PICK n \in S : \A k \in S : ~(<<k, n>> \in R)
  BY <1>1, WFMin
<1>4. \A k \in S : ~(k < n)
  BY <1>2, <1>3, Zenon
<1> QED
  BY <1>4, SMT

(* vector::erase: the elements behind the erased one move up by one.       *)
LEMMA RemoveAtProperties ==
  ASSUME NEW S, NEW s \in Seq(S), NEW i \in 1..Len(s)
  PROVE  /\ RemoveAt(s, i) \in Seq(S)
         /\ Len(RemoveAt(s, i)) = Len(s) - 1
         /\ \A k \in 1..(Len(s) - 1) : RemoveAt(s, i)[k] = IF k < i THEN s[k] ELSE s[k + 1]
<1> DEFINE a == SubSeq(s, 1, i - 1)
           b == SubSeq(s, i + 1, Len(s))
<1>1. /\ a \in Seq(S) /\ Len(a) = i - 1
      /\ \A k \in 1..(i - 1) : a[k] = s[k]
  OBVIOUS
<1>2. /\ b \in Seq(S) /\ Len(b) = Len(s) - i
      /\ \A k \in 1..(Len(s) - i) : b[k] = s[i + k]
  OBVIOUS
<1>3. RemoveAt(s, i) = a \o b
  BY DEF RemoveAt
<1> HIDE DEF a, b
<1>4. /\ a \o b \in Seq(S) /\ Len(a \o b) = Len(a) + Len(b)
      /\ \A k \in 1..(Len(a) + Len(b)) :
           (a \o b)[k] = IF k <= Len(a) THEN a[k] ELSE b[k - Len(a)]
  BY <1>1, <1>2, ConcatProperties
<1> QED
  BY <1>1, <1>2, <1>3, <1>4

(* Removing a store code from a list of store codes leaves such a list.    *)
LEMMA RemoveDisconnectType ==
  ASSUME NEW list \in Seq(Stores), NEW s
  PROVE  removeDisconnectStore(list, s) \in Seq(Stores)
<1> DEFINE At == {k \in DOMAIN list : list[k] = s}
           First(k) == list[k] = s /\ \A j \in 1..(k - 1) : list[j] # s
<1>1. CASE At = {}
  BY <1>1 DEF removeDisconnectStore
<1>2. CASE At # {}
  <2>1. PICK n \in At : \A k \in At : n <= k
    <3>1. At \in SUBSET Nat
      OBVIOUS
    <3> QED
      BY <1>2, <3>1, LeastNatural
  <2>2. First(n)
    <3>1. \A j \in 1..(n - 1) : j \in DOMAIN list /\ ~(n <= j)
      BY <2>1
    <3> QED
      BY <2>1, <3>1
  <2>3. PICK i \in DOMAIN list : i = CHOOSE k \in DOMAIN list : First(k)
    BY <2>1, <2>2
  <2>4. RemoveAt(list, i) \in Seq(Stores)
    BY <2>3, RemoveAtProperties
  <2> QED
    BY <1>2, <2>3, <2>4 DEF removeDisconnectStore
<1> QED
  BY <1>1, <1>2

(* A list of handlers without repetition is no longer than Conns.          *)
LEMMA ListBound ==
  ASSUME NEW s \in Seq(Conns), \A j, k \in DOMAIN s : s[j] = s[k] => j = k
  PROVE  Len(s) <= Cardinality(Conns) /\ Cardinality(Conns) \in Nat
<1>1. s \in Injection(1..Len(s), Conns)
  BY DEF Injection, IsInjective
<1>2. Cardinality(1..Len(s)) <= Cardinality(Conns)
  BY <1>1, FS_Injection, ConstantsAssumption
<1>3. Cardinality(1..Len(s)) = Len(s)
  <2>1. Len(s) \in Nat /\ Len(s) \in Int /\ 1 \in Int
    OBVIOUS
  <2>2. Cardinality(1..Len(s)) = IF 1 > Len(s) THEN 0 ELSE Len(s) - 1 + 1
    BY <2>1, FS_Interval
  <2> QED
    BY <2>1, <2>2
<1> QED
  BY <1>2, <1>3, FS_CardinalityType, ConstantsAssumption

-----------------------------------------------------------------------------
HPcs == {"none", "accepted", "init", "set", "clean", "loop", "exit", "dead"}

(* A handler has an id only once its thread has assigned it.               *)
IdLate == \A c \in Conns : hpc[c] \in {"none", "accepted", "init", "set"} => m_client_id[c] = NoStore

(* A handler is neither listed nor deleted before addClient, and the       *)
(* heartbeat thread's iterator stays inside the vector or at its end.      *)
RegInv ==
  /\ ClientsAlive
  /\ \A c \in Conns : hpc[c] \in {"none", "accepted"} => ~Listed(c) /\ c \notin freed
  /\ hb.at = "visit" => hb.it <= Len(m_clients) + 1
  /\ hb.at = "erase" => hb.it <= Len(m_clients) /\ m_clients[hb.it] \in freed

SsInv == TypeOK /\ IdLate /\ RegInv

(* The register's invariant holds at the start.                            *)
LEMMA InitSsInv == Init => SsInv
<1> SUFFICES ASSUME Init PROVE SsInv
  OBVIOUS
<1>1. Cardinality(Conns) \in Nat
  BY FS_CardinalityType, ConstantsAssumption
<1>2. TypeOK /\ IdLate
  BY <1>1, ConstantsAssumption DEF Init, TypeOK, IdLate
<1>3. RegInv
  BY DEF Init, RegInv, ClientsAlive, Listed
<1> QED
  BY <1>2, <1>3 DEF SsInv

(* The register after each step of the threads.                            *)
LEMMA NextRegInv ==
  ASSUME SsInv, [Next]_vars
  PROVE  RegInv'
<1>t. /\ m_clients \in Seq(Conns) /\ hpc \in [Conns -> HPcs] /\ freed \in SUBSET Conns
      /\ hb \in [at : {"idle", "visit", "erase"}, it : Nat \ {0}]
  <2>1. Cardinality(Conns) \in Nat
    BY FS_CardinalityType, ConstantsAssumption
  <2>2. hb \in [at : {"idle", "visit", "erase"}, it : 1..(Cardinality(Conns) + 1)]
    BY DEF SsInv, TypeOK
  <2>3. 1..(Cardinality(Conns) + 1) \subseteq Nat \ {0}
    BY <2>1
  <2> QED
    BY <2>2, <2>3 DEF SsInv, TypeOK, HPcs
<1>r. RegInv
  BY DEF SsInv
<1> DEFINE Started(c) == hpc[c] \notin {"none", "accepted"}
           Quiet == /\ UNCHANGED <<m_clients, freed, hb>>
                    /\ \A c \in Conns : Started(c)' <=> Started(c)
<1>q. Quiet => RegInv'
  BY <1>r DEF RegInv, ClientsAlive, Listed
<1>1. ASSUME NEW c \in Conns, Accept(c) PROVE Quiet
  BY <1>1, <1>t DEF Accept
<1>2. ASSUME NEW c \in Conns, AddClient(c) PROVE RegInv'
  <2>1. /\ DOMAIN m_clients = 1..Len(m_clients) /\ Len(m_clients) \in Nat
        /\ DOMAIN m_clients' = 1..(Len(m_clients) + 1)
        /\ Len(m_clients') = Len(m_clients) + 1
        /\ \A k \in 1..Len(m_clients) : m_clients'[k] = m_clients[k]
        /\ m_clients'[Len(m_clients) + 1] = c
    <3>1. m_clients' = Append(m_clients, c) BY <1>2 DEF AddClient
    <3> QED BY <1>t, <3>1
  <2>2. UNCHANGED <<freed, hb>> /\ ~Listed(c) /\ c \notin freed
    BY <1>2, <1>r DEF AddClient, RegInv
  <2>3. Started(c)' /\ \A d \in Conns \ {c} : Started(d)' <=> Started(d)
    BY <1>2, <1>t DEF AddClient
  <2>4. Listed(c)' /\ \A d \in Conns \ {c} : Listed(d)' <=> Listed(d)
    BY <2>1 DEF Listed
  <2>5. ClientsAlive'
    <3>1. \A d \in Conns \ freed' : hpc'[d] \notin {"none", "accepted"} => Listed(d)'
      BY <1>r, <2>2, <2>3, <2>4 DEF RegInv, ClientsAlive
    <3>2. \A j, k \in DOMAIN m_clients' : m_clients'[j] = m_clients'[k] => j = k
      BY <1>r, <2>1, <2>2 DEF RegInv, ClientsAlive, Listed
    <3>3. \A k \in DOMAIN m_clients' : m_clients'[k] \in freed' => hb'.at = "erase" /\ k = hb'.it
      BY <1>r, <2>1, <2>2 DEF RegInv, ClientsAlive
    <3> QED
      BY <3>1, <3>2, <3>3 DEF ClientsAlive
  <2>6. \A d \in Conns : hpc'[d] \in {"none", "accepted"} => ~Listed(d)' /\ d \notin freed'
    BY <1>r, <2>2, <2>3, <2>4 DEF RegInv
  <2>7. /\ hb'.at = "visit" => hb'.it <= Len(m_clients') + 1
        /\ hb'.at = "erase" => hb'.it <= Len(m_clients') /\ m_clients'[hb'.it] \in freed'
    BY <1>r, <1>t, <2>1, <2>2 DEF RegInv
  <2> QED
    BY <2>5, <2>6, <2>7 DEF RegInv
<1>3. ASSUME NEW c \in Conns, PeerLost(c) \/ Silence(c) \/ InitConnectFails(c) \/ HeartBeat(c) PROVE Quiet
  BY <1>3, <1>t DEF PeerLost, Silence, InitConnectFails, HeartBeat
<1>4. ASSUME NEW c \in Conns, NEW s, StoreCode(c, s) PROVE Quiet
  BY <1>4, <1>t DEF StoreCode
<1>5. ASSUME NEW c \in Conns, HandlerStep(c) PROVE Quiet
  BY <1>5, <1>t DEF HandlerStep, SetClientId, Registered, HandlerCancelled
<1>6. CASE HeartbeatBegin
  BY <1>6, <1>t, <1>r DEF HeartbeatBegin, RegInv, ClientsAlive, Listed, reg
<1>7. CASE RemoveClient
  <2> DEFINE c == m_clients[hb.it]
  <2>1. /\ hb.it \in DOMAIN m_clients /\ c \in Conns /\ hb.at = "visit"
        /\ freed' = freed \cup {c} /\ hb'.at = "erase" /\ hb'.it = hb.it
        /\ UNCHANGED <<m_clients, hpc>>
    BY <1>7, <1>t DEF RemoveClient
  <2> HIDE DEF c
  <2>2. Listed(c)
    BY <2>1 DEF Listed, c
  <2>3. ClientsAlive'
    BY <1>r, <2>1 DEF RegInv, ClientsAlive, Listed, c
  <2>4. \A d \in Conns : hpc'[d] \in {"none", "accepted"} => ~Listed(d)' /\ d \notin freed'
    BY <1>r, <2>1, <2>2 DEF RegInv, Listed
  <2> QED
    BY <1>r, <1>t, <2>1, <2>3, <2>4 DEF RegInv, c
<1>8. CASE EraseClient
  <2>1. /\ hb.at = "erase" /\ hb'.at = "visit" /\ hb'.it = hb.it /\ UNCHANGED <<hpc, freed>>
        /\ m_clients' = RemoveAt(m_clients, hb.it)
    BY <1>8, <1>t DEF EraseClient
  <2>2. PICK i \in 1..Len(m_clients) : i = hb.it
    BY <1>r, <1>t, <2>1 DEF RegInv
  <2>3. /\ DOMAIN m_clients = 1..Len(m_clients) /\ Len(m_clients) \in Nat
        /\ m_clients' \in Seq(Conns) /\ Len(m_clients') = Len(m_clients) - 1
        /\ DOMAIN m_clients' = 1..(Len(m_clients) - 1)
        /\ \A k \in 1..(Len(m_clients) - 1) :
             m_clients'[k] = IF k < i THEN m_clients[k] ELSE m_clients[k + 1]
    BY <1>t, <2>1, <2>2, RemoveAtProperties
  <2>4. \A k \in DOMAIN m_clients : m_clients[k] \in freed <=> k = i
    BY <1>r, <2>1, <2>2, <2>3 DEF RegInv, ClientsAlive
  <2>5. \A k \in DOMAIN m_clients' : \E j \in DOMAIN m_clients :
          j # i /\ m_clients'[k] = m_clients[j] /\ (k < i => j = k) /\ (k >= i => j = k + 1)
    <3> SUFFICES ASSUME NEW k \in DOMAIN m_clients'
                 PROVE  \E j \in DOMAIN m_clients :
                          j # i /\ m_clients'[k] = m_clients[j] /\ (k < i => j = k) /\ (k >= i => j = k + 1)
      OBVIOUS
    <3>1. CASE k < i
      BY <2>3, <3>1
    <3>2. CASE ~(k < i)
      BY <2>3, <3>2
    <3> QED
      BY <3>1, <3>2
  <2>6. ASSUME NEW d \in Conns \ freed, Listed(d) PROVE Listed(d)'
    <3>1. PICK j \in DOMAIN m_clients : m_clients[j] = d BY <2>6 DEF Listed
    <3>2. j # i BY <2>4, <3>1
    <3>3. CASE j < i
      BY <2>3, <3>1, <3>3 DEF Listed
    <3>4. CASE j > i
      <4>1. j - 1 \in DOMAIN m_clients' /\ ~(j - 1 < i) /\ (j - 1) + 1 = j
        BY <2>3, <3>4
      <4> QED
        BY <2>3, <3>1, <4>1 DEF Listed
    <3> QED
      BY <2>3, <3>2, <3>3, <3>4
  <2>7. ASSUME NEW d, Listed(d)' PROVE Listed(d)
    BY <2>5, <2>7 DEF Listed
  <2>8. ClientsAlive'
    <3>1. \A d \in Conns \ freed' : hpc'[d] \notin {"none", "accepted"} => Listed(d)'
      BY <1>r, <2>1, <2>6 DEF RegInv, ClientsAlive
    <3>2. ASSUME NEW j \in DOMAIN m_clients', NEW k \in DOMAIN m_clients', m_clients'[j] = m_clients'[k]
          PROVE  j = k
      <4>1. PICK x \in DOMAIN m_clients :
              m_clients'[j] = m_clients[x] /\ (j < i => x = j) /\ (j >= i => x = j + 1)
        BY <2>5
      <4>2. PICK y \in DOMAIN m_clients :
              m_clients'[k] = m_clients[y] /\ (k < i => y = k) /\ (k >= i => y = k + 1)
        BY <2>5
      <4>3. x = y
        BY <1>r, <3>2, <4>1, <4>2 DEF RegInv, ClientsAlive
      <4> QED
        BY <2>3, <4>1, <4>2, <4>3
    <3>3. \A k \in DOMAIN m_clients' : m_clients'[k] \notin freed'
      BY <2>1, <2>4, <2>5
    <3> QED
      BY <3>1, <3>2, <3>3 DEF ClientsAlive
  <2>9. \A d \in Conns : hpc'[d] \in {"none", "accepted"} => ~Listed(d)' /\ d \notin freed'
    BY <1>r, <2>1, <2>7 DEF RegInv
  <2>10. hb'.at = "visit" /\ hb'.it <= Len(m_clients') + 1
    BY <2>1, <2>2, <2>3
  <2> QED
    BY <2>8, <2>9, <2>10 DEF RegInv
<1>9. CASE GreetClient
  <2>1. /\ hb.at = "visit" /\ hb.it <= Len(m_clients) /\ hb'.at = "visit" /\ hb'.it = hb.it + 1
        /\ UNCHANGED <<m_clients, hpc, freed>>
    BY <1>9, <1>t DEF GreetClient
  <2> QED
    BY <1>r, <1>t, <2>1 DEF RegInv, ClientsAlive, Listed
<1>10. CASE HeartbeatEnd
  BY <1>10, <1>t, <1>r DEF HeartbeatEnd, RegInv, ClientsAlive, Listed, reg
<1>11. CASE DispatchStep
  BY <1>11, <1>q DEF DispatchStep, DispatchFind, DispatchSend, DispatchPushBack, reg
<1>12. CASE UNCHANGED vars
  BY <1>12, <1>q DEF vars
<1> HIDE DEF Quiet
<1> QED
  BY <1>1, <1>2, <1>3, <1>4, <1>5, <1>6, <1>7, <1>8, <1>9, <1>10, <1>11, <1>12, <1>q
     DEF Next, HeartbeatStep

-----------------------------------------------------------------------------
(* What dispatchOneMessage finds is a handler of the register.             *)
LEMMA FindType ==
  ASSUME m_clients \in Seq(Conns), NEW s, NEW unread, Matches(s, unread) # {}
  PROVE  m_clients[CHOOSE k \in Matches(s, unread) : \A j \in Matches(s, unread) : k <= j] \in Conns
<1> DEFINE M == Matches(s, unread)
<1>1. M \in SUBSET DOMAIN m_clients /\ M \in SUBSET Nat
  BY DEF Matches
<1>2. \E n \in M : \A k \in M : n <= k
  BY <1>1, LeastNatural
<1> HIDE DEF M
<1>3. (CHOOSE k \in M : \A j \in M : k <= j) \in M
  BY <1>2
<1>4. (CHOOSE k \in M : \A j \in M : k <= j) \in DOMAIN m_clients
  BY <1>1, <1>3
<1> QED
  BY <1>4 DEF M

DispType == disp \in [at : {"idle", "found", "none"}, msg : Msgs \cup {NoMsg}, conn : Conns \cup {NoConn}]

(* The dispatcher has a message exactly outside "idle", and a handler      *)
(* exactly at "found".                                                     *)
DispHolds ==
  /\ disp.at # "idle" => disp.msg \in Msgs
  /\ disp.at = "found" => disp.conn \in Conns

(* What the dispatcher holds after it has looked for the store's handler.  *)
LEMMA FindStep ==
  ASSUME SsInv, NEW m \in Msgs, DispatchFind(m)
  PROVE  DispType' /\ DispHolds' /\ disp'.at # "idle" /\ disp'.msg = m
<1>1. PICK unread \in SUBSET freed :
        LET found == Matches(m.store, unread) IN
        disp' = IF found = {}
                THEN [at |-> "none", msg |-> m, conn |-> NoConn]
                ELSE [at |-> "found", msg |-> m,
                      conn |-> m_clients[CHOOSE k \in found : \A j \in found : k <= j]]
  BY DEF DispatchFind
<1>2. CASE Matches(m.store, unread) = {}
  BY <1>1, <1>2 DEF DispType, DispHolds
<1>3. CASE Matches(m.store, unread) # {}
  <2>1. PICK d \in Conns : disp' = [at |-> "found", msg |-> m, conn |-> d]
    BY <1>1, <1>3, FindType, ZenonT(60) DEF SsInv, TypeOK
  <2> QED
    BY <2>1 DEF DispType, DispHolds
<1> QED
  BY <1>2, <1>3

(* Every step keeps what the dispatcher holds.                             *)
LEMMA NextDisp ==
  ASSUME SsInv, DispHolds, [Next]_vars
  PROVE  DispType' /\ DispHolds'
<1>t. DispType
  BY DEF SsInv, TypeOK, DispType
<1>1. ASSUME NEW m \in Msgs, DispatchFind(m) PROVE DispType' /\ DispHolds'
  BY <1>1, FindStep
<1>2. CASE DispatchDone
  BY <1>2 DEF DispatchDone, DispType, DispHolds
<1>3. CASE UNCHANGED disp
  BY <1>3, <1>t DEF DispType, DispHolds
<1>4. (\E m \in Msgs : DispatchFind(m)) \/ DispatchDone \/ UNCHANGED disp
  <2>1. ASSUME NEW c \in Conns, Accept(c) \/ AddClient(c) \/ PeerLost(c) \/ Silence(c)
          \/ InitConnectFails(c) \/ HeartBeat(c) \/ HandlerStep(c)
          \/ \E s \in Stores : StoreCode(c, s)
        PROVE UNCHANGED disp
    BY <2>1 DEF Accept, AddClient, PeerLost, Silence, InitConnectFails, HeartBeat, HandlerStep,
                SetClientId, Registered, HandlerCancelled, StoreCode, down
  <2>2. CASE HeartbeatStep
    BY <2>2 DEF HeartbeatStep, HeartbeatBegin, RemoveClient, EraseClient, GreetClient, HeartbeatEnd, down
  <2>3. CASE DispatchStep
    BY <2>3 DEF DispatchStep, DispatchSend, DispatchPushBack
  <2>4. CASE UNCHANGED vars
    BY <2>4 DEF vars
  <2> QED
    BY <2>1, <2>2, <2>3, <2>4 DEF Next
<1> QED
  BY <1>1, <1>2, <1>3, <1>4

(* Every step keeps the types, and only a handler's own thread assigns its *)
(* id.                                                                     *)
LEMMA NextTypeOK ==
  ASSUME SsInv, DispHolds, [Next]_vars
  PROVE  TypeOK' /\ IdLate'
<1> USE ConstantsAssumption
<1>r. RegInv' /\ DispType'
  BY NextRegInv, NextDisp
<1>t. /\ m_clients \in Seq(Conns) /\ m_disconnect_store \in Seq(Stores)
      /\ hpc \in [Conns -> HPcs] /\ code \in [Conns -> Stores \cup {NoStore}]
      /\ m_client_id \in [Conns -> Stores \cup {NoStore}]
      /\ \A c \in Conns : m_client_id[c] \in {NoStore, code[c]}
      /\ sock \in [Conns -> {"est", "lost", "closed"}] /\ silent \in [Conns -> BOOLEAN]
      /\ freed \in SUBSET Conns
      /\ hb \in [at : {"idle", "visit", "erase"}, it : 1..(Cardinality(Conns) + 1)]
      /\ DispType /\ mq \in SUBSET Msgs /\ sent \in SUBSET (Msgs \X Conns) /\ lost \in SUBSET Msgs
  BY DEF SsInv, TypeOK, HPcs, DispType
<1>c. Cardinality(Conns) \in Nat
  BY FS_CardinalityType
<1> DEFINE HandlerPart == /\ hpc \in [Conns -> HPcs] /\ code \in [Conns -> Stores \cup {NoStore}]
                          /\ m_client_id \in [Conns -> Stores \cup {NoStore}]
                          /\ \A c \in Conns : m_client_id[c] \in {NoStore, code[c]}
                          /\ IdLate
           SockPart == /\ sock \in [Conns -> {"est", "lost", "closed"}] /\ silent \in [Conns -> BOOLEAN]
                       /\ freed \in SUBSET Conns
           ListPart == m_clients \in Seq(Conns) /\ m_disconnect_store \in Seq(Stores)
           HbPart == hb \in [at : {"idle", "visit", "erase"}, it : 1..(Cardinality(Conns) + 1)]
           MqPart == mq \in SUBSET Msgs /\ sent \in SUBSET (Msgs \X Conns) /\ lost \in SUBSET Msgs
<1>a. HandlerPart' /\ SockPart' /\ ListPart' /\ HbPart' /\ DispType' /\ MqPart' => TypeOK' /\ IdLate'
  BY DEF TypeOK, HPcs, DispType
<1>p. HandlerPart /\ SockPart /\ ListPart /\ HbPart /\ MqPart
  BY <1>t DEF SsInv
<1>1. ASSUME NEW c \in Conns, Accept(c) \/ AddClient(c) \/ PeerLost(c) \/ Silence(c)
          \/ InitConnectFails(c) \/ HeartBeat(c) \/ HandlerStep(c)
          \/ \E s \in Stores : StoreCode(c, s)
      PROVE  HbPart' /\ MqPart'
  BY <1>1, <1>p DEF Accept, AddClient, PeerLost, Silence, InitConnectFails, HeartBeat, HandlerStep,
                SetClientId, Registered, HandlerCancelled, StoreCode, down
<1>2. ASSUME NEW c \in Conns, Accept(c) \/ AddClient(c) \/ PeerLost(c) \/ Silence(c)
          \/ InitConnectFails(c) \/ HeartBeat(c)
      PROVE  HandlerPart' /\ SockPart' /\ ListPart'
  <2>1. CASE Accept(c) BY <2>1, <1>p DEF Accept, IdLate, HPcs
  <2>2. CASE AddClient(c)
    <3>1. ListPart' BY <2>2, <1>p DEF AddClient
    <3> QED BY <2>2, <1>p, <3>1 DEF AddClient, IdLate, HPcs
  <2>3. CASE PeerLost(c) \/ Silence(c) \/ HeartBeat(c)
    BY <2>3, <1>p DEF PeerLost, Silence, HeartBeat, IdLate
  <2>4. CASE InitConnectFails(c) BY <2>4, <1>p DEF InitConnectFails, IdLate, HPcs
  <2> QED
    BY <1>2, <2>1, <2>2, <2>3, <2>4
<1>3. ASSUME NEW c \in Conns, NEW s \in Stores, StoreCode(c, s)
      PROVE  HandlerPart' /\ SockPart' /\ ListPart'
  <2>1. CASE checkClientsIdExist(s)
    BY <1>3, <1>p, <2>1 DEF StoreCode, IdLate, HPcs
  <2>2. CASE ~checkClientsIdExist(s)
    BY <1>3, <1>p, <2>2 DEF StoreCode, IdLate, HPcs
  <2> QED
    BY <2>1, <2>2
<1>4. ASSUME NEW c \in Conns, HandlerStep(c)
      PROVE  HandlerPart' /\ SockPart' /\ ListPart'
  <2>1. CASE SetClientId(c)
    BY <2>1, <1>p DEF SetClientId, IdLate, HPcs
  <2>2. CASE Registered(c)
    BY <2>2, <1>p, RemoveDisconnectType DEF Registered, IdLate, HPcs
  <2>3. CASE HandlerCancelled(c)
    BY <2>3, <1>p DEF HandlerCancelled, IdLate, HPcs
  <2> QED
    BY <1>4, <2>1, <2>2, <2>3 DEF HandlerStep
<1>5. CASE HeartbeatStep
  <2>1. HandlerPart' /\ MqPart'
    BY <1>5, <1>p DEF HeartbeatStep, HeartbeatBegin, RemoveClient, EraseClient, GreetClient,
                      HeartbeatEnd, down, reg, IdLate
  <2>2. SockPart' /\ ListPart'
    <3>1. CASE HeartbeatBegin \/ HeartbeatEnd
      BY <3>1, <1>p DEF HeartbeatBegin, HeartbeatEnd, reg
    <3>2. CASE RemoveClient
      <4>1. PICK c \in Conns : c = m_clients[hb.it]
        BY <3>2, <1>p DEF RemoveClient
      <4>2. m_disconnect_store' \in Seq(Stores)
        <5>1. m_client_id[c] = NoStore \/ m_client_id[c] \in Stores
          BY <1>p
        <5>2. m_disconnect_store' = IF m_client_id[c] = NoStore THEN m_disconnect_store
                                    ELSE Append(m_disconnect_store, m_client_id[c])
          BY <3>2, <4>1 DEF RemoveClient
        <5> QED
          BY <1>p, <5>1, <5>2
      <4> QED
        BY <3>2, <4>1, <4>2, <1>p DEF RemoveClient
    <3>3. CASE EraseClient
      <4>1. hb.it \in 1..Len(m_clients)
        BY <3>3, <1>p, <1>c DEF EraseClient, SsInv, RegInv
      <4> QED
        BY <3>3, <4>1, <1>p, RemoveAtProperties DEF EraseClient
    <3>4. CASE GreetClient
      BY <3>4, <1>p, RemoveDisconnectType DEF GreetClient
    <3> QED
      BY <1>5, <3>1, <3>2, <3>3, <3>4 DEF HeartbeatStep
  <2>3. HbPart'
    <3>1. CASE HeartbeatBegin \/ HeartbeatEnd
      BY <3>1, <1>c DEF HeartbeatBegin, HeartbeatEnd
    <3>2. CASE RemoveClient \/ EraseClient
      BY <3>2, <1>p DEF RemoveClient, EraseClient
    <3>3. CASE GreetClient
      <4>1. Len(m_clients) <= Cardinality(Conns)
        BY <1>p, ListBound DEF SsInv, RegInv, ClientsAlive
      <4>2. Len(m_clients) \in Nat /\ hb.it <= Len(m_clients) /\ hb' = [hb EXCEPT !.it = @ + 1]
        BY <3>3, <1>p DEF GreetClient
      <4>3. hb.it + 1 \in 1..(Cardinality(Conns) + 1)
        BY <1>p, <1>c, <4>1, <4>2
      <4> QED
        BY <1>p, <4>2, <4>3
    <3> QED
      BY <1>5, <3>1, <3>2, <3>3 DEF HeartbeatStep
  <2> QED
    BY <1>r, <1>a, <2>1, <2>2, <2>3
<1>6. CASE DispatchStep
  <2>1. HandlerPart' /\ SockPart' /\ ListPart' /\ HbPart'
    BY <1>6, <1>p DEF DispatchStep, DispatchFind, DispatchSend, DispatchPushBack, reg, IdLate
  <2>2. MqPart'
    <3>1. ASSUME NEW m \in Msgs, DispatchFind(m) PROVE MqPart'
      BY <3>1, <1>p DEF DispatchFind
    <3>2. CASE DispatchSend
      BY <3>2, <1>p DEF DispatchSend, DispHolds
    <3>3. CASE DispatchPushBack
      BY <3>3, <1>p DEF DispatchPushBack, DispHolds
    <3> QED
      BY <1>6, <3>1, <3>2, <3>3 DEF DispatchStep
  <2> QED
    BY <1>r, <1>a, <2>1, <2>2
<1>7. CASE UNCHANGED vars
  BY <1>7, <1>p, <1>r, <1>a DEF vars, IdLate
<1> HIDE DEF HandlerPart, SockPart, ListPart, HbPart, MqPart
<1> QED
  BY <1>1, <1>2, <1>3, <1>4, <1>5, <1>6, <1>7, <1>r, <1>a DEF Next

(* The variables keep their ranges; a handler is registered only for the   *)
(* code its client sent, and the heartbeat thread's iterator never leaves  *)
(* the vector although accept appends to it (SocketServer.cpp).            *)
THEOREM TypeCorrect == Spec => []TypeOK
<1> DEFINE I == SsInv /\ DispHolds
<1>1. Init => I
  BY InitSsInv DEF Init, DispHolds
<1>2. I /\ [Next]_vars => I'
  BY NextTypeOK, NextRegInv, NextDisp DEF SsInv
<1>3. I => TypeOK
  BY DEF SsInv
<1> QED
  BY <1>1, <1>2, <1>3, PTL DEF Spec

(* Outside a removal m_clients lists every started handler that is not     *)
(* deleted, once, and no deleted one, although accept appends while the    *)
(* heartbeat thread iterates and erases (addClient, sendHeartbeat).        *)
THEOREM ClientsAliveHolds == Spec => []ClientsAlive
<1> DEFINE I == SsInv /\ DispHolds
<1>1. Init => I
  BY InitSsInv DEF Init, DispHolds
<1>2. I /\ [Next]_vars => I'
  BY NextTypeOK, NextRegInv, NextDisp DEF SsInv
<1>3. I => ClientsAlive
  BY DEF SsInv, RegInv
<1> QED
  BY <1>1, <1>2, <1>3, PTL DEF Spec

-----------------------------------------------------------------------------
(* A downlink message is at place p, and nowhere else.                     *)
MsgPlaces == {"mq", "disp", "lost", "sent"}
SentTo(m) == {d \in Conns : <<m, d>> \in sent}
Held(m) == disp.at # "idle" /\ disp.msg = m

IsAt(m, p) ==
  /\ m \in mq <=> p = "mq"
  /\ Held(m) <=> p = "disp"
  /\ m \in lost <=> p = "lost"
  /\ SentTo(m) # {} <=> p = "sent"

MsgInv ==
  /\ \A m \in Msgs : \E p \in MsgPlaces : IsAt(m, p)
  /\ \A m \in Msgs, c, d \in Conns : <<m, c>> \in sent /\ <<m, d>> \in sent => c = d

(* Every step moves a downlink message from one place to one other.        *)
LEMMA NextMsgInv ==
  ASSUME SsInv, DispHolds, MsgInv, [Next]_vars
  PROVE  MsgInv'
<1>t. /\ DispType /\ mq \in SUBSET Msgs /\ sent \in SUBSET (Msgs \X Conns) /\ lost \in SUBSET Msgs
  BY DEF SsInv, TypeOK, DispType
<1> DEFINE Kept(m) == /\ m \in mq' <=> m \in mq
                      /\ Held(m)' <=> Held(m)
                      /\ m \in lost' <=> m \in lost
                      /\ \A d \in Conns : <<m, d>> \in sent' <=> <<m, d>> \in sent
           Once(m) == \A c, d \in Conns : <<m, c>> \in sent /\ <<m, d>> \in sent => c = d
<1>k. ASSUME NEW m \in Msgs, Kept(m) PROVE Once(m)' /\ \E p \in MsgPlaces : IsAt(m, p)'
  <2>1. PICK p \in MsgPlaces : IsAt(m, p)
    BY DEF MsgInv
  <2>2. SentTo(m)' = SentTo(m)
    BY <1>k DEF SentTo
  <2>3. IsAt(m, p)'
    BY <1>k, <2>1, <2>2 DEF IsAt
  <2>4. Once(m)'
    BY <1>k DEF MsgInv
  <2> QED
    BY <2>3, <2>4
<1>m. ASSUME NEW m \in Msgs, NEW q \in MsgPlaces, IsAt(m, q)', Once(m)',
             \A n \in Msgs \ {m} : Kept(n)
      PROVE  MsgInv'
  BY <1>k, <1>m DEF MsgInv
<1>q. UNCHANGED down => MsgInv'
  BY DEF MsgInv, IsAt, Held, SentTo, down
<1>1. ASSUME NEW m \in Msgs, DispatchFind(m) PROVE MsgInv'
  <2>1. disp'.at # "idle" /\ disp'.msg = m
    BY <1>1, FindStep
  <2>2. disp.at = "idle" /\ m \in mq /\ mq' = mq \ {m} /\ UNCHANGED <<sent, lost>>
    BY <1>1 DEF DispatchFind
  <2>3. \A n \in Msgs \ {m} : Kept(n)
    BY <2>1, <2>2 DEF Held
  <2>4. PICK p \in MsgPlaces : IsAt(m, p) BY DEF MsgInv
  <2>5. IsAt(m, "disp")'
    BY <2>1, <2>2, <2>4 DEF IsAt, Held, SentTo
  <2>6. Once(m)'
    BY <2>2 DEF MsgInv
  <2> QED
    BY <1>m, <2>3, <2>5, <2>6 DEF MsgPlaces
<1>2. ASSUME disp.at # "idle", DispatchDone
      PROVE  /\ ~Held(disp.msg)'
             /\ \A n \in Msgs \ {disp.msg} : ~Held(n)' /\ ~Held(n)
             /\ IsAt(disp.msg, "disp")
  <2>1. disp.msg \in Msgs
    BY <1>2 DEF DispHolds
  <2>2. PICK p \in MsgPlaces : IsAt(disp.msg, p) BY <2>1 DEF MsgInv
  <2>3. disp'.at = "idle"
    BY <1>2 DEF DispatchDone
  <2> QED
    BY <1>2, <2>2, <2>3 DEF Held, IsAt
<1>3. CASE DispatchSend
  <2>1. PICK m \in Msgs : m = disp.msg
    BY <1>3 DEF DispatchSend, DispHolds
  <2>2. ~Held(m)' /\ IsAt(m, "disp") /\ \A n \in Msgs \ {m} : ~Held(n)' /\ ~Held(n)
    <3>1. disp'.at = "idle" BY <1>3 DEF DispatchSend, DispatchDone
    <3> QED BY <1>2, <1>3, <2>1, <3>1 DEF DispatchSend, Held
  <2>3. m \notin mq /\ m \notin lost /\ \A d \in Conns : <<m, d>> \notin sent
    BY <2>2 DEF IsAt, SentTo
  <2>4. CASE lost' = lost \cup {m} /\ UNCHANGED <<mq, sent>>
    <3>1. \A n \in Msgs \ {m} : Kept(n)
      BY <2>2, <2>4
    <3>2. IsAt(m, "lost")'
      BY <2>2, <2>3, <2>4 DEF IsAt, SentTo
    <3>3. Once(m)'
      BY <2>3, <2>4
    <3> QED
      BY <1>m, <3>1, <3>2, <3>3 DEF MsgPlaces
  <2>5. CASE sent' = sent \cup {<<m, disp.conn>>} /\ UNCHANGED <<mq, lost>>
    <3>1. PICK c \in Conns : c = disp.conn
      BY <1>3 DEF DispatchSend, DispHolds
    <3>2. \A n \in Msgs, d \in Conns : <<n, d>> \in sent' <=> (<<n, d>> \in sent \/ (n = m /\ d = c))
      BY <2>5, <3>1
    <3>3. \A n \in Msgs \ {m} : Kept(n)
      BY <2>2, <2>5, <3>2
    <3>4. SentTo(m)' = {c}
      BY <2>3, <3>2 DEF SentTo
    <3>5. IsAt(m, "sent")'
      BY <2>2, <2>3, <2>5, <3>4 DEF IsAt
    <3>6. Once(m)'
      BY <2>3, <3>2
    <3> QED
      BY <1>m, <3>3, <3>5, <3>6 DEF MsgPlaces
  <2> QED
    BY <1>3, <2>1, <2>4, <2>5 DEF DispatchSend
<1>4. CASE DispatchPushBack
  <2>1. PICK m \in Msgs : m = disp.msg
    BY <1>4 DEF DispatchPushBack, DispHolds
  <2>2. ~Held(m)' /\ IsAt(m, "disp") /\ \A n \in Msgs \ {m} : ~Held(n)' /\ ~Held(n)
    <3>1. disp'.at = "idle" BY <1>4 DEF DispatchPushBack, DispatchDone
    <3> QED BY <1>2, <1>4, <2>1, <3>1 DEF DispatchPushBack, Held
  <2>3. /\ UNCHANGED sent
        /\ \/ mq' = mq \cup {m} /\ UNCHANGED lost
           \/ lost' = lost \cup {m} /\ UNCHANGED mq
    BY <1>4, <2>1 DEF DispatchPushBack
  <2>4. \A n \in Msgs \ {m} : Kept(n)
    BY <2>2, <2>3
  <2>5. m \notin mq /\ m \notin lost /\ \A d \in Conns : <<m, d>> \notin sent
    BY <2>2 DEF IsAt, SentTo
  <2>6. IsAt(m, "mq")' \/ IsAt(m, "lost")'
    BY <2>2, <2>3, <2>5 DEF IsAt, SentTo
  <2>7. Once(m)'
    BY <2>3, <2>5
  <2> QED
    BY <1>m, <2>4, <2>6, <2>7 DEF MsgPlaces
<1>5. ASSUME NEW c \in Conns, Accept(c) \/ AddClient(c) \/ PeerLost(c) \/ Silence(c)
          \/ InitConnectFails(c) \/ HeartBeat(c) \/ HandlerStep(c)
          \/ \E s \in Stores : StoreCode(c, s)
      PROVE  UNCHANGED down
  BY <1>5 DEF Accept, AddClient, PeerLost, Silence, InitConnectFails, HeartBeat, HandlerStep,
              SetClientId, Registered, HandlerCancelled, StoreCode
<1>6. CASE HeartbeatStep
  BY <1>6, <1>q DEF HeartbeatStep, HeartbeatBegin, RemoveClient, EraseClient, GreetClient, HeartbeatEnd
<1>7. CASE UNCHANGED vars
  BY <1>7, <1>q DEF vars, down
<1> HIDE DEF Kept, Once
<1> QED
  BY <1>1, <1>3, <1>4, <1>5, <1>6, <1>7, <1>q DEF Next, DispatchStep

(* A downlink message is in the topic, with the dispatcher, given to one   *)
(* socket once, or lost, and never in two of these places: the retry of    *)
(* dispatchOneMessage never duplicates.                                    *)
THEOREM OnePlaceHolds == Spec => []OnePlace
<1> DEFINE I == SsInv /\ DispHolds /\ MsgInv
<1>1. Init => I
  <2> SUFFICES ASSUME Init PROVE DispHolds /\ MsgInv
    BY InitSsInv
  <2>1. \A m \in Msgs : IsAt(m, "mq")
    BY DEF Init, IsAt, Held, SentTo
  <2> QED
    BY <2>1 DEF Init, DispHolds, MsgInv, MsgPlaces
<1>2. I /\ [Next]_vars => I'
  BY NextTypeOK, NextRegInv, NextDisp, NextMsgInv DEF SsInv
<1>3. I => OnePlace
  <2> SUFFICES ASSUME I, NEW m \in Msgs
      PROVE  Cardinality(SentTo(m))
             + Cardinality({p \in {"mq", "disp", "lost"} :
                     \/ p = "mq" /\ m \in mq
                     \/ p = "disp" /\ disp.at # "idle" /\ disp.msg = m
                     \/ p = "lost" /\ m \in lost}) = 1
    BY DEF OnePlace, SentTo
  <2> DEFINE Q == {p \in {"mq", "disp", "lost"} :
                     \/ p = "mq" /\ m \in mq
                     \/ p = "disp" /\ disp.at # "idle" /\ disp.msg = m
                     \/ p = "lost" /\ m \in lost}
  <2>1. PICK p \in MsgPlaces : IsAt(m, p)
    BY DEF MsgInv
  <2>2. CASE p = "sent"
    <3>1. Q = {}
      BY <2>1, <2>2 DEF IsAt, Held
    <3>2. PICK d \in Conns : SentTo(m) = {d}
      <4>1. PICK d \in Conns : d \in SentTo(m)
        BY <2>1, <2>2 DEF IsAt, SentTo
      <4>2. SentTo(m) = {d}
        BY <4>1 DEF SentTo, MsgInv
      <4> QED
        BY <4>2
    <3>3. Cardinality(Q) = 0 /\ Cardinality(SentTo(m)) = 1
      BY <3>1, <3>2, FS_EmptySet, FS_Singleton
    <3> QED
      BY <3>3
  <2>3. CASE p # "sent"
    <3>1. Q = {p}
      BY <2>1, <2>3 DEF IsAt, Held, MsgPlaces
    <3>2. SentTo(m) = {}
      BY <2>1, <2>3 DEF IsAt
    <3>3. Cardinality(Q) = 1 /\ Cardinality(SentTo(m)) = 0
      BY <3>1, <3>2, FS_EmptySet, FS_Singleton
    <3> QED
      BY <3>3
  <2> QED
    BY <2>2, <2>3
<1> QED
  BY <1>1, <1>2, <1>3, PTL DEF Spec

-----------------------------------------------------------------------------
(* The client and the server.                                              *)

(* A step of the composition is one of the server, or none.                *)
LEMMA LinkStepImplements ==
  ASSUME recvSock \in Conns \cup {NoConn}, [LinkNext]_linkVars
  PROVE  [Next]_vars
<1>1. ASSUME NEW c \in Conns, Connect(c) \/ ConnStep(c) \/ FirstMessageTimeout(c) \/ Environment(c)
      PROVE  [Next]_vars
  <2>1. CASE Connect(c) \/ FirstMessageTimeout(c) \/ Environment(c)
    BY <2>1 DEF Connect, FirstMessageTimeout, Environment, Next
  <2>2. CASE ConnStep(c)
    <3>1. CASE AddClient(c) \/ SetClientId(c) \/ HandlerCancelled(c) \/ ConnectSuccess(c)
      BY <3>1 DEF ConnectSuccess, Next, HandlerStep
    <3>2. CASE SendBegin(c)
      BY <3>2 DEF SendBegin
    <3>3. CASE FirstMessage(c)
      BY <3>3 DEF FirstMessage, Next
    <3>4. CASE ReceiveBeat(c)
      BY <3>4 DEF ReceiveBeat, Next
    <3> QED
      BY <2>2, <3>1, <3>2, <3>3, <3>4 DEF ConnStep
  <2> QED
    BY <1>1, <2>1, <2>2
<1>2. CASE ClientStep \/ Ageing
  BY <1>2 DEF ClientStep, Recv, HandleBegin, HandleHello, HandleSuccess, OnTimer, Restart, Ageing
<1>3. CASE RecvThreadEnds
  <2>1. CASE recvSock \in Conns
    <3>1. PeerLost(recvSock)
      BY <1>3 DEF RecvThreadEnds, PeerLost
    <3> QED
      BY <2>1, <3>1 DEF Next
  <2> QED
    BY <1>3, <2>1 DEF RecvThreadEnds
<1>4. CASE ServerStep
  BY <1>4 DEF ServerStep, Greet, Next, HeartbeatStep
<1>5. CASE UNCHANGED linkVars
  BY <1>5 DEF linkVars
<1> QED
  BY <1>1, <1>2, <1>3, <1>4, <1>5 DEF LinkNext

-----------------------------------------------------------------------------
ToClientKinds == {"begin", "hello", "success"}
ToServerKinds == {"store", "beat"}

(* The client's and the wire's part of LinkTypeOK, and that a connection   *)
(* is not established before it is accepted.                               *)
LinkPart ==
  /\ recvSock \in Conns \cup {NoConn}
  /\ m_clientSocket \in Conns \cup {NoConn}
  /\ m_bServerRun \in BOOLEAN /\ timer \in BOOLEAN /\ fresh \in BOOLEAN
  /\ handlers \subseteq ToClientKinds
  /\ begun \subseteq Conns
  /\ toClient \in [Conns -> Seq(ToClientKinds)]
  /\ toServer \in [Conns -> Seq(ToServerKinds)]
  /\ \A c \in Conns : hpc[c] = "none" =>
       toClient[c] = <<>> /\ toServer[c] = <<>> /\ sock[c] = "closed"

LinkInv == SsInv /\ DispHolds /\ LinkPart

(* A message put on a wire.                                                *)
LEMMA PutType ==
  ASSUME NEW S, NEW q \in Seq(S), NEW kind \in S
  PROVE  Put(q, kind) \in Seq(S)
  BY DEF Put

(* A heartbeat of the server adds no other message.                        *)
LEMMA PutHello ==
  ASSUME NEW q \in Seq(ToClientKinds)
  PROVE  \A i \in DOMAIN Put(q, "hello") :
           Put(q, "hello")[i] = "success" => i \in DOMAIN q /\ q[i] = "success"
<1>1. CASE Put(q, "hello") = q
  BY <1>1
<1>2. CASE Put(q, "hello") = Append(q, "hello")
  BY <1>2 DEF ToClientKinds
<1> QED
  BY <1>1, <1>2 DEF Put

(* Every step keeps the types of the client and of the wires.              *)
LEMMA NextLinkPart ==
  ASSUME LinkInv, [LinkNext]_linkVars
  PROVE  LinkPart'
<1> USE ConstantsAssumption
<1>p. LinkPart
  BY DEF LinkInv
<1>h. hpc \in [Conns -> HPcs] /\ sock \in [Conns -> {"est", "lost", "closed"}]
  BY DEF LinkInv, SsInv, TypeOK, HPcs
<1> DEFINE Later == \A c \in Conns : hpc'[c] = "none" => hpc[c] = "none" /\ sock'[c] = sock[c]
<1>q. ASSUME UNCHANGED <<client, wire>>, Later PROVE LinkPart'
  BY <1>p, <1>q DEF LinkPart, client, wire
<1>v. UNCHANGED vars => Later /\ UNCHANGED <<hpc, sock>>
  BY DEF vars
<1>1. ASSUME NEW c \in Conns, Connect(c) PROVE LinkPart'
  BY <1>1, <1>p, <1>h DEF Connect, Accept, LinkPart, wire
<1>2. CASE Recv
  <2>1. PICK c \in Conns : c = recvSock
    BY <1>2, <1>p DEF Recv, LinkPart
  <2>2. Head(toClient[c]) \in ToClientKinds /\ Tail(toClient[c]) \in Seq(ToClientKinds)
    BY <1>2, <1>p, <2>1 DEF Recv, LinkPart
  <2>3. /\ handlers' = handlers \cup {Head(toClient[c])} /\ fresh' = TRUE /\ hpc[c] # "none"
        /\ toClient' = [toClient EXCEPT ![c] = Tail(toClient[c])]
        /\ UNCHANGED <<hpc, sock, recvSock, m_clientSocket, m_bServerRun, timer, begun, toServer>>
    BY <1>2, <1>p, <1>v, <2>1 DEF Recv, LinkPart
  <2> QED
    BY <1>p, <2>2, <2>3 DEF LinkPart
<1>3. ASSUME NEW kind \in ToServerKinds, SendMessage(kind),
             handlers' \subseteq handlers, UNCHANGED <<vars, recvSock, m_bServerRun, timer, fresh, begun, toClient>>
      PROVE  LinkPart'
  <2>1. CASE UNCHANGED toServer /\ m_clientSocket' \in {m_clientSocket, NoConn}
    BY <1>3, <1>p, <1>v, <2>1 DEF LinkPart
  <2>2. CASE /\ m_clientSocket # NoConn
             /\ sock[m_clientSocket] = "est"
             /\ toServer' = [toServer EXCEPT ![m_clientSocket] = Put(@, kind)]
             /\ UNCHANGED m_clientSocket
    <3>1. PICK c \in Conns : c = m_clientSocket
      BY <1>p, <2>2 DEF LinkPart
    <3>2. hpc[c] # "none" /\ Put(toServer[c], kind) \in Seq(ToServerKinds)
      BY <1>3, <1>p, <2>2, <3>1, PutType DEF LinkPart
    <3>3. toServer' = [toServer EXCEPT ![c] = Put(toServer[c], kind)]
      BY <2>2, <3>1
    <3> QED
      BY <1>3, <1>p, <1>v, <2>2, <3>2, <3>3 DEF LinkPart
  <2> QED
    BY <1>3, <2>1, <2>2 DEF SendMessage
<1>4. CASE HandleBegin \/ HandleHello
  BY <1>3, <1>4 DEF HandleBegin, HandleHello, ToServerKinds
<1>5. CASE HandleSuccess \/ OnTimer \/ Restart \/ Ageing
  BY <1>5, <1>p, <1>v DEF HandleSuccess, OnTimer, Restart, Ageing, LinkPart, wire
<1>6. CASE RecvThreadEnds
  BY <1>6, <1>p, <1>h DEF RecvThreadEnds, LinkPart, client, wire
<1>7. ASSUME NEW c \in Conns, SendBegin(c) PROVE LinkPart'
  <2>1. Append(toClient[c], "begin") \in Seq(ToClientKinds)
    BY <1>p DEF LinkPart, ToClientKinds
  <2> QED
    BY <1>7, <1>p, <1>v, <2>1 DEF SendBegin, LinkPart, client
<1>8. ASSUME NEW c \in Conns, NEW s \in Stores, StoreCode(c, s) \/ InitConnectFails(c)
      PROVE  Later /\ hpc[c] # "none"
  BY <1>8, <1>h DEF StoreCode, InitConnectFails
<1>9. ASSUME NEW c \in Conns, FirstMessage(c) PROVE LinkPart'
  <2>1. Later
    BY <1>9, <1>h DEF FirstMessage, StoreCode, InitConnectFails
  <2>2. Tail(toServer[c]) \in Seq(ToServerKinds) /\ hpc[c] # "none"
    BY <1>9, <1>p DEF FirstMessage, LinkPart
  <2>3. toServer' = [toServer EXCEPT ![c] = Tail(toServer[c])] /\ UNCHANGED <<client, begun, toClient>>
    BY <1>9 DEF FirstMessage
  <2> QED
    BY <1>p, <2>1, <2>2, <2>3 DEF LinkPart, client
<1>10. ASSUME NEW c \in Conns, FirstMessageTimeout(c) PROVE LinkPart'
  <2>1. Later
    BY <1>10, <1>h DEF FirstMessageTimeout, InitConnectFails
  <2> QED
    BY <1>10, <1>q, <2>1 DEF FirstMessageTimeout
<1>11. ASSUME NEW c \in Conns, ConnectSuccess(c) PROVE LinkPart'
  <2>1. Append(toClient[c], "success") \in Seq(ToClientKinds)
    BY <1>p DEF LinkPart, ToClientKinds
  <2>2. Later /\ hpc[c] # "none"
    BY <1>11, <1>h DEF ConnectSuccess, Registered
  <2>3. /\ toClient' = [toClient EXCEPT ![c] = IF sock[c] = "est" THEN Append(toClient[c], "success")
                                              ELSE toClient[c]]
        /\ UNCHANGED <<client, begun, toServer>>
    BY <1>11 DEF ConnectSuccess
  <2> QED
    BY <1>p, <2>1, <2>2, <2>3 DEF LinkPart, client
<1>12. ASSUME NEW c \in Conns, ReceiveBeat(c) PROVE LinkPart'
  <2>1. Later
    BY <1>12, <1>h, <1>v DEF ReceiveBeat, HeartBeat
  <2>2. Tail(toServer[c]) \in Seq(ToServerKinds) /\ hpc[c] # "none"
    BY <1>12, <1>p DEF ReceiveBeat, LinkPart
  <2>3. toServer' = [toServer EXCEPT ![c] = Tail(toServer[c])] /\ UNCHANGED <<client, begun, toClient>>
    BY <1>12 DEF ReceiveBeat
  <2> QED
    BY <1>p, <2>1, <2>2, <2>3 DEF LinkPart, client
<1>13. CASE Greet
  <2>1. PICK c \in Conns : c = m_clients[hb.it] /\ Listed(c)
    <3>1. m_clients \in Seq(Conns) /\ hb.it \in Nat \ {0} /\ hb.it <= Len(m_clients)
      <4>1. Cardinality(Conns) \in Nat
        BY FS_CardinalityType
      <4> QED
        BY <1>13, <4>1 DEF Greet, GreetClient, LinkInv, SsInv, TypeOK
    <3> QED
      BY <3>1 DEF Listed
  <2>2. hpc[c] # "none" /\ Later
    BY <1>13, <1>h, <2>1 DEF Greet, GreetClient, LinkInv, SsInv, RegInv
  <2>3. Put(toClient[c], "hello") \in Seq(ToClientKinds)
    BY <1>p, PutType DEF LinkPart, ToClientKinds
  <2>4. toClient' = [toClient EXCEPT ![c] = Put(toClient[c], "hello")] /\ UNCHANGED <<client, begun, toServer>>
    BY <1>13, <2>1 DEF Greet
  <2> QED
    BY <1>p, <2>2, <2>3, <2>4 DEF LinkPart, client
<1>14. ASSUME NEW c \in Conns, AddClient(c) \/ SetClientId(c) \/ HandlerCancelled(c)
                              \/ PeerLost(c) \/ Silence(c)
      PROVE  Later
  BY <1>14, <1>p, <1>h DEF AddClient, SetClientId, HandlerCancelled, PeerLost, Silence, LinkPart
<1>15. CASE (HeartbeatBegin \/ RemoveClient \/ EraseClient \/ HeartbeatEnd) /\ UNCHANGED <<client, wire>>
  <2>1. CASE HeartbeatBegin \/ EraseClient \/ HeartbeatEnd
    <3>1. Later
      BY <2>1 DEF HeartbeatBegin, EraseClient, HeartbeatEnd, reg
    <3> QED
      BY <1>15, <1>q, <3>1
  <2>2. CASE RemoveClient
    <3>1. Later
      BY <2>2, <1>h, <1>p DEF RemoveClient, LinkPart
    <3> QED
      BY <1>15, <1>q, <3>1
  <2> QED
    BY <1>15, <2>1, <2>2
<1>16. CASE UNCHANGED linkVars
  BY <1>16, <1>q, <1>v DEF linkVars
<1> HIDE DEF Later
<1> QED
  BY <1>1, <1>2, <1>4, <1>5, <1>6, <1>7, <1>9, <1>10, <1>11, <1>12, <1>13, <1>14, <1>15, <1>16, <1>q
     DEF LinkNext, ConnStep, Environment, ClientStep, ServerStep

(* The invariant of client and server holds at the start.                  *)
LEMMA InitLinkInv == LinkInit => LinkInv
<1> SUFFICES ASSUME LinkInit PROVE LinkInv
  OBVIOUS
<1>1. SsInv /\ DispHolds
  BY InitSsInv DEF LinkInit, Init, DispHolds
<1>2. LinkPart
  <2>1. /\ <<>> \in Seq(ToClientKinds) /\ <<>> \in Seq(ToServerKinds)
    OBVIOUS
  <2>2. /\ toClient \in [Conns -> Seq(ToClientKinds)] /\ toServer \in [Conns -> Seq(ToServerKinds)]
        /\ \A c \in Conns : toClient[c] = <<>> /\ toServer[c] = <<>> /\ sock[c] = "closed"
    BY <2>1 DEF LinkInit, Init
  <2> QED
    BY <2>2 DEF LinkInit, LinkPart
<1> QED
  BY <1>1, <1>2 DEF LinkInv

(* Every step keeps it.                                                    *)
LEMMA NextLinkInv == LinkInv /\ [LinkNext]_linkVars => LinkInv'
  BY LinkStepImplements, NextLinkPart, NextTypeOK, NextRegInv, NextDisp DEF LinkInv, LinkPart, SsInv

(* The client and the server together behave, as far as the server's       *)
(* variables show it, as the register and dispatcher of SocketServer do:   *)
(* its theorems hold of the connected system.                              *)
THEOREM LinkImplementsServer == LinkSpec => Spec
<1>1. LinkInit => Init
  BY DEF LinkInit
<1>2. LinkInv /\ [LinkNext]_linkVars => [Next]_vars
  BY LinkStepImplements DEF LinkInv, LinkPart
<1> QED
  BY <1>1, <1>2, InitLinkInv, NextLinkInv, PTL DEF LinkSpec, Spec

(* Every variable of the client and of the wires stays in its range, and   *)
(* a connection that was never accepted carries nothing                    *)
(* (ClientSocketServer.cpp, HandlerMessage.cpp, HandlerClientSocket.cpp).  *)
THEOREM LinkTypeCorrect == LinkSpec => []LinkTypeOK
<1>1. LinkInv => LinkTypeOK
  BY DEF LinkInv, LinkPart, LinkTypeOK, SsInv, ToClientKinds, ToServerKinds
<1> QED
  BY <1>1, InitLinkInv, NextLinkInv, PTL DEF LinkSpec

-----------------------------------------------------------------------------
(* The right to open the next connection.  It is with the client while it  *)
(* connects, then with the connection until its handshake is over, then    *)
(* with CONNECT_SUCCESS on its way, and then with the timer, until the     *)
(* receive thread is replaced.  There is at most one.                      *)
Handshake == {"accepted", "init", "set", "clean"}
Stages == {"connecting", "handshake", "wire", "thread", "timer", "stopping", "none"}

Success(c) == {i \in DOMAIN toClient[c] : toClient[c][i] = "success"}

TokenAt(p, c) ==
  /\ recvSock = NoConn => p = "connecting"
  /\ \A d \in Conns : hpc[d] \in Handshake => p = "handshake" /\ d = c
  /\ \A d \in Conns : Success(d) # {} => p = "wire" /\ d = c
  /\ \A d \in Conns : \A i, j \in Success(d) : i = j
  /\ "success" \in handlers => p = "thread"
  /\ timer => p = "timer"
  /\ ~m_bServerRun /\ recvSock # NoConn => p = "stopping"

Token == \E p \in Stages, c \in Conns \cup {NoConn} : TokenAt(p, c)

(* Between the check and the assignment of m_client_id nobody else is      *)
(* registered for the store.                                               *)
CheckHolds ==
  \A c, d \in Conns : hpc[c] = "set" /\ Live(d) => m_client_id[d] # code[c]

(* Every step passes the right to connect on, or leaves it where it is.    *)
LEMMA NextToken ==
  ASSUME LinkInv, Token, [LinkNext]_linkVars
  PROVE  Token'
<1>p. LinkPart
  BY DEF LinkInv
<1>h. hpc \in [Conns -> HPcs]
  BY DEF LinkInv, SsInv, TypeOK, HPcs
<1>t. PICK p \in Stages, c \in Conns \cup {NoConn} : TokenAt(p, c)
  BY DEF Token
<1>w. ASSUME NEW q \in Stages, NEW d \in Conns \cup {NoConn}, TokenAt(q, d)' PROVE Token'
  BY <1>w DEF Token
<1> DEFINE Calm == /\ UNCHANGED <<recvSock, m_bServerRun>>
                   /\ timer' => timer
                   /\ "success" \in handlers' => "success" \in handlers
           Hand == \A d \in Conns : hpc'[d] \in Handshake => hpc[d] \in Handshake
           Less(d) == (Success(d)' # {} => Success(d) # {}) /\ \A i, j \in Success(d)' : i = j
<1>s. ASSUME NEW d \in Conns, toClient'[d] = toClient[d] PROVE Less(d) /\ Success(d)' = Success(d)
  BY <1>s, <1>t DEF Success, TokenAt
<1>a. ASSUME NEW d \in Conns, NEW s \in Seq(ToClientKinds), toClient'[d] = s,
             \A i \in DOMAIN s : s[i] = "success" => i \in DOMAIN toClient[d] /\ toClient[d][i] = "success"
      PROVE  Less(d)
  BY <1>a, <1>t DEF Success, TokenAt
<1>q. ASSUME Calm, Hand, \A d \in Conns : Less(d) PROVE Token'
  <2>1. TokenAt(p, c)'
    BY <1>q, <1>t DEF TokenAt
  <2> QED
    BY <1>w, <2>1
<1>v. UNCHANGED vars => Hand
  BY DEF vars
<1>l. UNCHANGED toClient => \A d \in Conns : Less(d)
  BY <1>s
<1>1. ASSUME NEW d \in Conns, Connect(d) PROVE Token'
  <2>1. p = "connecting" /\ recvSock' = d /\ d # NoConn /\ m_bServerRun' = TRUE
        /\ UNCHANGED <<timer, handlers, toClient>> /\ hpc' = [hpc EXCEPT ![d] = "accepted"]
    BY <1>1, <1>t, ConstantsAssumption DEF Connect, Accept, TokenAt, wire
  <2>2. ~timer /\ "success" \notin handlers
        /\ \A e \in Conns : hpc[e] \notin Handshake /\ Success(e) = {}
    BY <1>t, <2>1 DEF TokenAt
  <2>3. \A e \in Conns : Success(e)' = {}
    BY <1>s, <2>1, <2>2
  <2>4. \A e \in Conns : hpc'[e] \in Handshake => e = d
    BY <1>h, <2>1, <2>2
  <2>5. TokenAt("handshake", d)'
    BY <2>1, <2>2, <2>3, <2>4 DEF TokenAt
  <2> QED
    BY <1>w, <2>5 DEF Stages
<1>2. CASE Recv
  <2>1. PICK d \in Conns : d = recvSock /\ toClient[d] # <<>>
    BY <1>2, <1>p DEF Recv, LinkPart
  <2>2. /\ handlers' = handlers \cup {Head(toClient[d])}
        /\ toClient' = [toClient EXCEPT ![d] = Tail(toClient[d])]
        /\ UNCHANGED <<vars, recvSock, m_bServerRun, timer>>
    BY <1>2, <2>1 DEF Recv
  <2>3. toClient[d] \in Seq(ToClientKinds)
    BY <1>p DEF LinkPart
  <2>4. /\ toClient'[d] = Tail(toClient[d]) /\ toClient[d][1] = Head(toClient[d])
        /\ 1 \in DOMAIN toClient[d]
        /\ \A i \in DOMAIN toClient'[d] : i \in Nat /\ i + 1 \in DOMAIN toClient[d] /\ i + 1 # 1
                                          /\ toClient'[d][i] = toClient[d][i + 1]
    BY <1>p, <2>1, <2>2, <2>3 DEF LinkPart
  <2>5. \A i \in Success(d)' : i \in Nat /\ i + 1 \in Success(d) /\ i + 1 # 1
    BY <2>4 DEF Success
  <2>6. \A e \in Conns \ {d} : Less(e) /\ Success(e)' = Success(e)
    <3>1. \A e \in Conns \ {d} : toClient'[e] = toClient[e]
      BY <1>p, <2>2 DEF LinkPart
    <3> QED
      BY <1>s, <3>1
  <2>7. CASE Head(toClient[d]) # "success"
    <3>1. Less(d)
      BY <1>t, <2>5 DEF TokenAt
    <3>2. "success" \in handlers' => "success" \in handlers
      BY <2>2, <2>7
    <3> QED
      BY <1>q, <1>v, <2>2, <2>6, <3>1, <3>2
  <2>8. CASE Head(toClient[d]) = "success"
    <3>1. 1 \in Success(d)
      BY <2>4, <2>8 DEF Success
    <3>2. p = "wire" /\ c = d
      BY <1>t, <3>1 DEF TokenAt
    <3>3. Success(d)' = {} /\ \A e \in Conns \ {d} : Success(e)' = {}
      BY <1>t, <2>5, <2>6, <3>1, <3>2 DEF TokenAt
    <3>4. TokenAt("thread", NoConn)'
      BY <1>t, <2>1, <2>2, <3>2, <3>3 DEF TokenAt, vars
    <3> QED
      BY <1>w, <3>4 DEF Stages
  <2> QED
    BY <2>7, <2>8
<1>3. CASE HandleBegin \/ HandleHello
  <2>1. Calm /\ Hand /\ UNCHANGED toClient
    BY <1>3, <1>v DEF HandleBegin, HandleHello
  <2> QED
    BY <1>l, <1>q, <2>1
<1>4. CASE HandleSuccess
  <2>1. p = "thread" /\ "success" \notin handlers' /\ timer' = TRUE
        /\ UNCHANGED <<vars, recvSock, m_bServerRun, toClient>>
    BY <1>4, <1>t DEF HandleSuccess, TokenAt, wire
  <2>2. TokenAt("timer", NoConn)'
    BY <1>l, <1>s, <1>t, <2>1 DEF TokenAt, vars
  <2> QED
    BY <1>w, <2>2 DEF Stages
<1>5. CASE OnTimer
  <2>1. p = "timer" /\ timer' = FALSE /\ UNCHANGED <<vars, recvSock, handlers, toClient>>
    BY <1>5, <1>t DEF OnTimer, TokenAt, wire
  <2>2. TokenAt("stopping", NoConn)'
    BY <1>l, <1>s, <1>t, <2>1 DEF TokenAt, vars
  <2> QED
    BY <1>w, <2>2 DEF Stages
<1>6. CASE Restart
  <2>1. p = "stopping" /\ recvSock' = NoConn /\ UNCHANGED <<vars, timer, handlers, toClient>>
    BY <1>6, <1>t DEF Restart, TokenAt, wire
  <2>2. TokenAt("connecting", NoConn)'
    BY <1>l, <1>s, <1>t, <2>1 DEF TokenAt, vars
  <2> QED
    BY <1>w, <2>2 DEF Stages
<1>7. CASE Ageing
  <2>1. Calm /\ Hand /\ UNCHANGED toClient
    BY <1>7, <1>v DEF Ageing, wire
  <2> QED
    BY <1>l, <1>q, <2>1
<1>8. ASSUME UNCHANGED <<client, wire>>, Hand PROVE Token'
  <2>1. Calm /\ UNCHANGED toClient
    BY <1>8 DEF client, wire
  <2> QED
    BY <1>8, <1>l, <1>q, <2>1
<1>9. CASE RecvThreadEnds
  BY <1>8, <1>9 DEF RecvThreadEnds
<1>10. ASSUME NEW d \in Conns, SendBegin(d) PROVE Token'
  <2>1. Calm /\ Hand /\ toClient' = [toClient EXCEPT ![d] = Append(toClient[d], "begin")]
    BY <1>10, <1>v DEF SendBegin, client
  <2>2. toClient[d] \in Seq(ToClientKinds) /\ "begin" \in ToClientKinds
    BY <1>p DEF LinkPart, ToClientKinds
  <2>3. Less(d)
    <3>1. toClient'[d] = Append(toClient[d], "begin")
      BY <1>p, <2>1 DEF LinkPart
    <3>2. Append(toClient[d], "begin") \in Seq(ToClientKinds)
          /\ \A i \in DOMAIN Append(toClient[d], "begin") : Append(toClient[d], "begin")[i] = "success"
               => i \in DOMAIN toClient[d] /\ toClient[d][i] = "success"
      BY <2>2
    <3> QED
      BY <1>a, <3>1, <3>2
  <2>4. \A e \in Conns \ {d} : toClient'[e] = toClient[e]
    BY <1>p, <2>1 DEF LinkPart
  <2> QED
    BY <1>q, <1>s, <2>1, <2>3, <2>4
<1>11. ASSUME NEW d \in Conns, FirstMessage(d) PROVE Token'
  <2>1. Hand
    BY <1>11, <1>h DEF FirstMessage, StoreCode, InitConnectFails, Handshake
  <2>2. Calm /\ UNCHANGED toClient
    BY <1>11 DEF FirstMessage, client
  <2> QED
    BY <1>l, <1>q, <2>1, <2>2
<1>12. ASSUME NEW d \in Conns, FirstMessageTimeout(d) PROVE Token'
  <2>1. Hand
    BY <1>12, <1>h DEF FirstMessageTimeout, InitConnectFails, Handshake
  <2> QED
    BY <1>8, <1>12, <2>1 DEF FirstMessageTimeout
<1>13. ASSUME NEW d \in Conns, ConnectSuccess(d) PROVE Token'
  <2>1. p = "handshake" /\ c = d
    BY <1>13, <1>t DEF ConnectSuccess, Registered, TokenAt, Handshake
  <2>2. /\ UNCHANGED <<recvSock, m_bServerRun, timer, handlers>> /\ hpc' = [hpc EXCEPT ![d] = "loop"]
        /\ \/ UNCHANGED toClient
           \/ toClient' = [toClient EXCEPT ![d] = Append(toClient[d], "success")]
    <3>1. [toClient EXCEPT ![d] = toClient[d]] = toClient
      BY <1>p DEF LinkPart
    <3> QED
      BY <1>13, <3>1 DEF ConnectSuccess, Registered, client
  <2>3. \A e \in Conns : hpc'[e] \notin Handshake
    <3>1. \A e \in Conns \ {d} : hpc[e] \notin Handshake
      BY <1>t, <2>1 DEF TokenAt
    <3> QED
      BY <1>h, <2>2, <3>1 DEF Handshake
  <2>4. \A e \in Conns : Success(e) = {}
    BY <1>t, <2>1 DEF TokenAt
  <2>5. \A e \in Conns \ {d} : Success(e)' = {}
    <3>1. \A e \in Conns \ {d} : toClient'[e] = toClient[e]
      BY <1>p, <2>2 DEF LinkPart
    <3> QED
      BY <1>s, <2>4, <3>1
  <2>6. \A i, j \in Success(d)' : i = j
    <3>1. CASE UNCHANGED toClient
      BY <1>s, <2>4, <3>1
    <3>2. CASE toClient' = [toClient EXCEPT ![d] = Append(toClient[d], "success")]
      <4>1. toClient[d] \in Seq(ToClientKinds) /\ toClient'[d] = Append(toClient[d], "success")
            /\ "success" \in ToClientKinds
        BY <1>p, <3>2 DEF LinkPart, ToClientKinds
      <4>2. \A i \in DOMAIN toClient'[d] :
              i = Len(toClient[d]) + 1 \/ (i \in DOMAIN toClient[d] /\ toClient'[d][i] = toClient[d][i])
        BY <4>1
      <4>3. \A i \in Success(d)' : i = Len(toClient[d]) + 1
        BY <2>4, <4>2 DEF Success
      <4> QED
        BY <4>3
    <3> QED
      BY <2>2, <3>1, <3>2
  <2>7. TokenAt("wire", d)'
    BY <1>t, <2>1, <2>2, <2>3, <2>5, <2>6 DEF TokenAt
  <2> QED
    BY <1>w, <2>7 DEF Stages
<1>14. ASSUME NEW d \in Conns, ReceiveBeat(d) PROVE Token'
  <2>1. Calm /\ Hand /\ UNCHANGED toClient
    BY <1>14, <1>v DEF ReceiveBeat, HeartBeat, client
  <2> QED
    BY <1>l, <1>q, <2>1
<1>15. CASE Greet
  <2>1. Calm /\ Hand
        /\ toClient' = [toClient EXCEPT ![m_clients[hb.it]] = Put(@, "hello")]
    BY <1>15 DEF Greet, GreetClient, client
  <2>2. ASSUME NEW d \in Conns PROVE Less(d)
    <3>1. toClient[d] \in Seq(ToClientKinds) /\ "hello" \in ToClientKinds
      BY <1>p DEF LinkPart, ToClientKinds
    <3>2. CASE m_clients[hb.it] = d
      <4>1. toClient'[d] = Put(toClient[d], "hello")
        BY <1>p, <2>1, <3>2 DEF LinkPart
      <4>2. Put(toClient[d], "hello") \in Seq(ToClientKinds)
        BY <3>1, PutType
      <4>3. \A i \in DOMAIN Put(toClient[d], "hello") : Put(toClient[d], "hello")[i] = "success"
              => i \in DOMAIN toClient[d] /\ toClient[d][i] = "success"
        BY <3>1, PutHello
      <4> QED
        BY <1>a, <4>1, <4>2, <4>3
    <3>3. CASE m_clients[hb.it] # d
      <4>1. toClient'[d] = toClient[d]
        BY <1>p, <2>1, <3>3 DEF LinkPart
      <4> QED
        BY <1>s, <4>1
    <3> QED
      BY <3>2, <3>3
  <2> QED
    BY <1>q, <2>1, <2>2
<1>16. ASSUME NEW d \in Conns, AddClient(d) \/ SetClientId(d) \/ HandlerCancelled(d)
                              \/ PeerLost(d) \/ Silence(d)
      PROVE  Hand
  BY <1>16, <1>h DEF AddClient, SetClientId, HandlerCancelled, PeerLost, Silence, Handshake
<1>17. CASE (HeartbeatBegin \/ RemoveClient \/ EraseClient \/ HeartbeatEnd) /\ UNCHANGED <<client, wire>>
  <2>1. Hand
    BY <1>17 DEF HeartbeatBegin, RemoveClient, EraseClient, HeartbeatEnd, reg
  <2> QED
    BY <1>8, <1>17, <2>1
<1>18. CASE UNCHANGED linkVars
  BY <1>8, <1>18, <1>v DEF linkVars
<1> HIDE DEF Calm, Hand, Less
<1> QED
  BY <1>1, <1>2, <1>3, <1>4, <1>5, <1>6, <1>7, <1>8, <1>9, <1>10, <1>11, <1>12, <1>13, <1>14, <1>15,
     <1>16, <1>17, <1>18
     DEF LinkNext, ConnStep, Environment, ClientStep, ServerStep

(* With one token, no step registers a store a second time.                *)
LEMMA NextUniqueStore ==
  ASSUME LinkInv, Token, CheckHolds, UniqueStore, [LinkNext]_linkVars
  PROVE  CheckHolds' /\ UniqueStore'
<1>n. [Next]_vars
  BY LinkStepImplements DEF LinkInv, LinkPart
<1>t. /\ hpc \in [Conns -> HPcs] /\ code \in [Conns -> Stores \cup {NoStore}]
      /\ m_client_id \in [Conns -> Stores \cup {NoStore}]
  BY DEF LinkInv, SsInv, TypeOK, HPcs
<1>u. \A c, d \in Conns : hpc[c] \in Handshake /\ hpc[d] \in Handshake => c = d
  BY DEF Token, TokenAt
<1> DEFINE Quiet == /\ \A c \in Conns : hpc'[c] = "set" => hpc[c] = "set" /\ code'[c] = code[c]
                    /\ UNCHANGED m_client_id /\ freed \subseteq freed'
<1>q. Quiet => CheckHolds' /\ UniqueStore'
  BY DEF CheckHolds, UniqueStore, Live
<1>1. ASSUME NEW c \in Conns, Accept(c) \/ AddClient(c) \/ PeerLost(c) \/ Silence(c)
                              \/ InitConnectFails(c) \/ HeartBeat(c)
      PROVE  Quiet
  BY <1>1, <1>t DEF Accept, AddClient, PeerLost, Silence, InitConnectFails, HeartBeat
<1>2. ASSUME NEW c \in Conns, Registered(c) \/ HandlerCancelled(c) PROVE Quiet
  BY <1>2, <1>t DEF Registered, HandlerCancelled
<1>3. ASSUME NEW c \in Conns, NEW s \in Stores, StoreCode(c, s) PROVE CheckHolds' /\ UniqueStore'
  <2>1. CASE checkClientsIdExist(s)
    <3>1. Quiet
      BY <1>3, <1>t, <2>1 DEF StoreCode
    <3> QED
      BY <1>q, <3>1
  <2>2. CASE ~checkClientsIdExist(s)
    <3>1. /\ hpc' = [hpc EXCEPT ![c] = "set"] /\ code' = [code EXCEPT ![c] = s] /\ hpc[c] = "init"
          /\ UNCHANGED <<m_client_id, freed>>
      BY <1>3, <2>2 DEF StoreCode
    <3>2. \A d \in Conns : Live(d) => m_client_id[d] # s
      <4> SUFFICES ASSUME NEW d \in Conns, Live(d) PROVE m_client_id[d] # s
        OBVIOUS
      <4>1. hpc[d] \notin {"none", "accepted"} /\ d \notin freed
        BY DEF Live, LinkInv, SsInv, IdLate
      <4>2. Listed(d)
        BY <4>1 DEF LinkInv, SsInv, RegInv, ClientsAlive
      <4> QED
        BY <2>2, <4>2 DEF checkClientsIdExist, Listed
    <3>3. \A d \in Conns : hpc'[d] = "set" => d = c
      BY <1>t, <1>u, <3>1 DEF Handshake
    <3>4. code'[c] = s
      BY <1>t, <3>1
    <3> QED
      BY <3>1, <3>2, <3>3, <3>4 DEF CheckHolds, UniqueStore, Live
  <2> QED
    BY <2>1, <2>2
<1>4. ASSUME NEW c \in Conns, SetClientId(c) PROVE CheckHolds' /\ UniqueStore'
  <2>1. /\ hpc[c] = "set" /\ hpc' = [hpc EXCEPT ![c] = "clean"] /\ UNCHANGED <<code, freed>>
        /\ m_client_id' = [m_client_id EXCEPT ![c] = IF c \in freed THEN m_client_id[c] ELSE code[c]]
    BY <1>4 DEF SetClientId
  <2>2. \A d \in Conns : hpc'[d] # "set"
    BY <1>t, <1>u, <2>1 DEF Handshake
  <2>3. \A d \in Conns \ {c} : m_client_id'[d] = m_client_id[d]
    BY <1>t, <2>1
  <2>4. c \notin freed => m_client_id'[c] = code[c]
    BY <1>t, <2>1
  <2>5. \A d \in Conns : Live(d) => m_client_id[d] # code[c]
    BY <2>1 DEF CheckHolds
  <2>6. UniqueStore'
    BY <2>1, <2>3, <2>4, <2>5 DEF UniqueStore, Live
  <2> QED
    BY <2>2, <2>6 DEF CheckHolds
<1>5. CASE HeartbeatStep
  <2>1. Quiet
    BY <1>5 DEF HeartbeatStep, HeartbeatBegin, RemoveClient, EraseClient, GreetClient, HeartbeatEnd, reg
  <2> QED
    BY <1>q, <2>1
<1>6. CASE DispatchStep \/ UNCHANGED vars
  <2>1. Quiet
    BY <1>6 DEF DispatchStep, DispatchFind, DispatchSend, DispatchPushBack, reg, vars
  <2> QED
    BY <1>q, <2>1
<1> HIDE DEF Quiet
<1> QED
  BY <1>n, <1>q, <1>1, <1>2, <1>3, <1>4, <1>5, <1>6 DEF Next, HandlerStep

(* One client never has two registered connections, however often it       *)
(* reconnects: the right to connect again comes only with the success of   *)
(* the last handshake, so the check and the assignment of m_client_id,     *)
(* although two critical sections, never race (timer, checkClientsIdExist, *)
(* HandlerClientSocket.cpp).                                               *)
THEOREM OneRegistrationHolds == LinkSpec => []OneRegistration
<1> DEFINE I == LinkInv /\ Token /\ CheckHolds /\ UniqueStore
<1>1. LinkInit => I
  <2> SUFFICES ASSUME LinkInit PROVE Token /\ CheckHolds /\ UniqueStore
    BY InitLinkInv
  <2>1. \A d \in Conns : Success(d) = {} /\ hpc[d] = "none"
    BY DEF LinkInit, Init, Success
  <2>2. TokenAt("connecting", NoConn)
    BY <2>1 DEF LinkInit, TokenAt, Handshake
  <2>3. Token
    BY <2>2 DEF Token, Stages
  <2> QED
    BY <2>1, <2>3 DEF LinkInit, Init, CheckHolds, UniqueStore, Live
<1>2. I /\ [LinkNext]_linkVars => I'
  BY NextLinkInv, NextToken, NextUniqueStore
<1>3. I => OneRegistration
  BY DEF OneRegistration
<1> QED
  BY <1>1, <1>2, <1>3, PTL DEF LinkSpec
===========================================================================
