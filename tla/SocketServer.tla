--------------------------- MODULE SocketServer ---------------------------
(***************************************************************************)
(* The server's register of store connections (DataSync/SocketServer.cpp)  *)
(* with the threads that work on it:                                       *)
(*                                                                         *)
(*   accept thread      adds a HandlerClientSocket per connection;         *)
(*   handler threads    one per connection: handshake, then heartbeats     *)
(*                      (HandlerClientSocket.cpp; uploads go to            *)
(*                      CProcessMqData);                                   *)
(*   heartbeat thread   walks m_clients, greets the live ones and removes  *)
(*                      and deletes the others;                            *)
(*   dispatcher         threadProcessException: sends a downlink message   *)
(*                      to its store or pushes it back to the MQ.          *)
(*                                                                         *)
(* Only the heartbeat pass and the two check functions take the mutex      *)
(* SocketServerClientManager; the others touch m_clients,                  *)
(* m_disconnect_store and the handlers without it.                         *)
(***************************************************************************)
EXTENDS Naturals, Sequences, SequencesExt, FiniteSets

CONSTANTS
  Conns,    \* the HandlerClientSocket objects, one per accepted connection
  Stores,   \* store codes
  MaxMsgs,  \* bound: downlink messages per store
  NoStore,  \* the empty m_client_id
  NoConn    \* no handler

Msgs == [store : Stores, n : 1..MaxMsgs]

NoMsg == [store |-> NoStore, n |-> 0]

ASSUME ConstantsAssumption ==
  /\ IsFiniteSet(Conns)
  /\ NoConn \notin Conns
  /\ NoStore \notin Stores
  /\ MaxMsgs \in Nat

VARIABLES
  m_clients,          \* vector of handlers
  m_disconnect_store, \* vector of stores whose connection was removed
  hpc,                \* where each handler's thread is
  code,               \* the store code its client sent
  m_client_id,        \* the store it is registered for
  sock,               \* its socket: "est", "lost" (peer gone) or "closed"
  silent,             \* more than 18 s since m_last_heartbeat_timestamp
  freed,              \* handlers deleted by the heartbeat thread
  hb,                 \* heartbeat thread: where it is and its iterator
  disp,               \* dispatcher: where it is, its message, pDispatch
  mq,                 \* messages in the MQ's exception topic
  sent,               \* <<message, handler>> given to a socket
  lost                \* messages neither sent nor pushed back

reg  == <<m_clients, m_disconnect_store, hpc, code, m_client_id, sock, silent, freed>>
down == <<disp, mq, sent, lost>>
vars == <<m_clients, m_disconnect_store, hpc, code, m_client_id, sock, silent, freed,
          hb, disp, mq, sent, lost>>

Init ==
  /\ m_clients = <<>>
  /\ m_disconnect_store = <<>>
  /\ hpc = [c \in Conns |-> "none"]
  /\ code = [c \in Conns |-> NoStore]
  /\ m_client_id = [c \in Conns |-> NoStore]
  /\ sock = [c \in Conns |-> "closed"]
  /\ silent = [c \in Conns |-> FALSE]
  /\ freed = {}
  /\ hb = [at |-> "idle", it |-> 1]
  /\ disp = [at |-> "idle", msg |-> NoMsg, conn |-> NoConn]
  /\ mq = Msgs
  /\ sent = {}
  /\ lost = {}

(* The heartbeat thread holds SocketServerClientManager for a whole pass.  *)
ManagerFree == hb.at = "idle"

(* std::find and erase: only the first entry goes.                         *)
removeDisconnectStore(list, s) ==
  IF \E k \in DOMAIN list : list[k] = s
  THEN RemoveAt(list, CHOOSE k \in DOMAIN list :
                        list[k] = s /\ \A j \in 1..(k - 1) : list[j] # s)
  ELSE list

-----------------------------------------------------------------------------
(* checkClientsIpExist walks m_clients and returns false either way.       *)
checkClientsIpExist(c) == FALSE

(* threadRunServer: accept, the address check, then, without the mutex,    *)
(* addClient and the start of the handler's thread.                        *)
Accept(c) ==
  /\ hpc[c] = "none"
  /\ ManagerFree
  /\ ~checkClientsIpExist(c)
  /\ hpc' = [hpc EXCEPT ![c] = "accepted"]
  /\ sock' = [sock EXCEPT ![c] = "est"]
  /\ UNCHANGED <<m_clients, m_disconnect_store, code, m_client_id, silent, freed, hb, down>>

AddClient(c) ==
  /\ hpc[c] = "accepted"
  /\ hpc' = [hpc EXCEPT ![c] = "init"]
  /\ m_clients' = Append(m_clients, c)
  /\ UNCHANGED <<m_disconnect_store, code, m_client_id, sock, silent, freed, hb, down>>

(* The peer closes or resets the connection; 18 s pass without a message.  *)
PeerLost(c) ==
  /\ sock[c] = "est"
  /\ sock' = [sock EXCEPT ![c] = "lost"]
  /\ UNCHANGED <<m_clients, m_disconnect_store, hpc, code, m_client_id, silent, freed, hb, down>>

Silence(c) ==
  /\ hpc[c] \in {"init", "set", "clean", "loop"}
  /\ ~silent[c]
  /\ silent' = [silent EXCEPT ![c] = TRUE]
  /\ UNCHANGED <<m_clients, m_disconnect_store, hpc, code, m_client_id, sock, freed, hb, down>>

-----------------------------------------------------------------------------
(* initConnect fails: nothing or something else than a store code arrives  *)
(* in time.  The thread closes its socket and ends; the handler stays in   *)
(* m_clients until the heartbeat thread finds it.                          *)
InitConnectFails(c) ==
  /\ hpc[c] = "init"
  /\ hpc' = [hpc EXCEPT ![c] = "exit"]
  /\ sock' = [sock EXCEPT ![c] = "closed"]
  /\ UNCHANGED <<m_clients, m_disconnect_store, code, m_client_id, silent, freed, hb, down>>

checkClientsIdExist(s) == \E k \in DOMAIN m_clients : m_client_id[m_clients[k]] = s

(* handlerMessage(STORECODE) up to the check, which takes the mutex.       *)
StoreCode(c, s) ==
  /\ hpc[c] = "init"
  /\ c \notin freed
  /\ ManagerFree
  /\ IF checkClientsIdExist(s)
     THEN /\ hpc' = [hpc EXCEPT ![c] = "exit"]
          /\ sock' = [sock EXCEPT ![c] = "closed"]
          /\ UNCHANGED code
     ELSE /\ hpc' = [hpc EXCEPT ![c] = "set"]
          /\ code' = [code EXCEPT ![c] = s]
          /\ UNCHANGED sock
  /\ UNCHANGED <<m_clients, m_disconnect_store, m_client_id, silent, freed, hb, down>>

(* ... the assignments after it, without the mutex, ...                    *)
SetClientId(c) ==
  /\ hpc[c] = "set"
  /\ hpc' = [hpc EXCEPT ![c] = "clean"]
  /\ m_client_id' = [m_client_id EXCEPT ![c] = IF c \in freed THEN @ ELSE code[c]]
  /\ silent' = [silent EXCEPT ![c] = FALSE]
  /\ UNCHANGED <<m_clients, m_disconnect_store, code, sock, freed, hb, down>>

(* ... and removeDisconnectStore, then CONNECT_SUCCESS to the client.      *)
Registered(c) ==
  /\ hpc[c] = "clean"
  /\ hpc' = [hpc EXCEPT ![c] = "loop"]
  /\ m_disconnect_store' = removeDisconnectStore(m_disconnect_store, code[c])
  /\ UNCHANGED <<m_clients, code, m_client_id, sock, silent, freed, hb, down>>

(* handlerMessage(HEART_BEAT).                                             *)
HeartBeat(c) ==
  /\ hpc[c] = "loop"
  /\ c \notin freed
  /\ sock[c] = "est"
  /\ silent[c]
  /\ silent' = [silent EXCEPT ![c] = FALSE]
  /\ UNCHANGED <<m_clients, m_disconnect_store, hpc, code, m_client_id, sock, freed, hb, down>>

(* A cancelled thread ends at its next cancellation point, which may come  *)
(* after further steps.                                                    *)
HandlerCancelled(c) ==
  /\ c \in freed
  /\ hpc[c] \in {"init", "set", "clean", "loop"}
  /\ hpc' = [hpc EXCEPT ![c] = "dead"]
  /\ UNCHANGED <<m_clients, m_disconnect_store, code, m_client_id, sock, silent, freed, hb, down>>

-----------------------------------------------------------------------------
(* sendHeartbeat: one step per element; removal deletes the handler and    *)
(* erases it from the vector in two steps, as other threads see them.      *)
HeartbeatBegin ==
  /\ hb.at = "idle"
  /\ hb' = [at |-> "visit", it |-> 1]
  /\ UNCHANGED <<reg, down>>

(* Mutant of Stale: only the time is looked at.                            *)
StaleTimeOnly(c) == silent[c]

Stale(c) == sock[c] # "est" \/ silent[c]

(* Mutant of RemoveClient: the store is noted even when no client gave one. *)
RemoveClientAny ==
  /\ hb.at = "visit"
  /\ hb.it <= Len(m_clients)
  /\ LET c == m_clients[hb.it] IN
     /\ Stale(c)
     /\ sock' = [sock EXCEPT ![c] = "closed"]
     /\ freed' = freed \cup {c}
     /\ m_disconnect_store' = Append(m_disconnect_store, m_client_id[c])
  /\ hb' = [hb EXCEPT !.at = "erase"]
  /\ UNCHANGED <<m_clients, hpc, code, m_client_id, silent, down>>

(* removeClient: close the socket, cancel the thread, note the store,      *)
(* delete the handler.                                                     *)
RemoveClient ==
  /\ hb.at = "visit"
  /\ hb.it <= Len(m_clients)
  /\ LET c == m_clients[hb.it] IN
     /\ Stale(c)
     /\ sock' = [sock EXCEPT ![c] = "closed"]
     /\ freed' = freed \cup {c}
     /\ m_disconnect_store' = IF m_client_id[c] = NoStore THEN m_disconnect_store
                              ELSE Append(m_disconnect_store, m_client_id[c])
  /\ hb' = [hb EXCEPT !.at = "erase"]
  /\ UNCHANGED <<m_clients, hpc, code, m_client_id, silent, down>>

(* Mutant of EraseClient: the erase is missing, the iterator moves on.     *)
EraseNothing ==
  /\ hb.at = "erase"
  /\ hb' = [at |-> "visit", it |-> hb.it + 1]
  /\ UNCHANGED <<reg, down>>

EraseClient ==
  /\ hb.at = "erase"
  /\ m_clients' = RemoveAt(m_clients, hb.it)
  /\ hb' = [hb EXCEPT !.at = "visit"]
  /\ UNCHANGED <<m_disconnect_store, hpc, code, m_client_id, sock, silent, freed, down>>

(* Mutant of GreetClient: removeDisconnectStore is missing.                *)
GreetOnly ==
  /\ hb.at = "visit"
  /\ hb.it <= Len(m_clients)
  /\ ~Stale(m_clients[hb.it])
  /\ hb' = [hb EXCEPT !.it = @ + 1]
  /\ UNCHANGED <<reg, down>>

GreetClient ==
  /\ hb.at = "visit"
  /\ hb.it <= Len(m_clients)
  /\ LET c == m_clients[hb.it] IN
     /\ ~Stale(c)
     /\ m_disconnect_store' = removeDisconnectStore(m_disconnect_store, m_client_id[c])
  /\ hb' = [hb EXCEPT !.it = @ + 1]
  /\ UNCHANGED <<m_clients, hpc, code, m_client_id, sock, silent, freed, down>>

HeartbeatEnd ==
  /\ hb.at = "visit"
  /\ hb.it > Len(m_clients)
  /\ hb' = [at |-> "idle", it |-> 1]
  /\ UNCHANGED <<reg, down>>

HeartbeatStep == HeartbeatBegin \/ RemoveClient \/ EraseClient \/ GreetClient \/ HeartbeatEnd

-----------------------------------------------------------------------------
(* dispatchOneMessage, called by threadProcessException with a message the *)
(* listener took from the MQ: the first handler registered for the store.  *)
(* The id read through a deleted handler that is still listed may be the   *)
(* old one or not: unread names the deleted handlers that do not match.    *)
Matches(s, unread) ==
  {k \in DOMAIN m_clients : m_client_id[m_clients[k]] = s /\ m_clients[k] \notin unread}

(* Mutant of DispatchFind: only messages without a client are looked at,   *)
(* and they stay in the topic.                                             *)
DispatchFindKeeps(m) ==
  /\ disp.at = "idle"
  /\ m \in mq
  /\ Matches(m.store, {}) = {}
  /\ disp' = [at |-> "none", msg |-> m, conn |-> NoConn]
  /\ UNCHANGED <<reg, hb, mq, sent, lost>>

DispatchFind(m) ==
  /\ disp.at = "idle"
  /\ m \in mq
  /\ mq' = mq \ {m}
  /\ \E unread \in SUBSET freed :
       LET found == Matches(m.store, unread) IN
       disp' = IF found = {}
               THEN [at |-> "none", msg |-> m, conn |-> NoConn]
               ELSE [at |-> "found", msg |-> m,
                     conn |-> m_clients[CHOOSE k \in found : \A j \in found : k <= j]]
  /\ UNCHANGED <<reg, hb, sent, lost>>

DispatchDone == disp' = [at |-> "idle", msg |-> NoMsg, conn |-> NoConn]

(* Mutant of DispatchSend: a message that was sent is pushed back as well. *)
DispatchSendTwice ==
  /\ disp.at = "found"
  /\ disp.conn \notin freed
  /\ sock[disp.conn] = "est"
  /\ sent' = sent \cup {<<disp.msg, disp.conn>>}
  /\ mq' = mq \cup {disp.msg}
  /\ DispatchDone
  /\ UNCHANGED <<reg, hb, lost>>

(* sendMessage through pDispatch.  A failed send is logged and forgotten;  *)
(* so is one through a handler the heartbeat thread has deleted meanwhile. *)
DispatchSend ==
  /\ disp.at = "found"
  /\ \/ /\ disp.conn \notin freed
        /\ sock[disp.conn] = "est"
        /\ sent' = sent \cup {<<disp.msg, disp.conn>>}
        /\ UNCHANGED lost
     \/ /\ lost' = lost \cup {disp.msg}
        /\ UNCHANGED sent
  /\ DispatchDone
  /\ UNCHANGED <<reg, hb, mq>>

(* No handler: the message goes back to the exception topic, from which    *)
(* the listener takes it again; the result of pushMessage is ignored.      *)
DispatchPushBack ==
  /\ disp.at = "none"
  /\ \/ mq' = mq \cup {disp.msg} /\ UNCHANGED lost
     \/ lost' = lost \cup {disp.msg} /\ UNCHANGED mq
  /\ DispatchDone
  /\ UNCHANGED <<reg, hb, sent>>

DispatchStep == (\E m \in Msgs : DispatchFind(m)) \/ DispatchSend \/ DispatchPushBack

-----------------------------------------------------------------------------
HandlerStep(c) == SetClientId(c) \/ Registered(c) \/ HandlerCancelled(c)

Next ==
  \/ \E c \in Conns :
       \/ Accept(c) \/ AddClient(c) \/ PeerLost(c) \/ Silence(c)
       \/ InitConnectFails(c) \/ HeartBeat(c) \/ HandlerStep(c)
       \/ \E s \in Stores : StoreCode(c, s)
  \/ HeartbeatStep
  \/ DispatchStep

Spec == Init /\ [][Next]_vars

(* The heartbeat thread (sleep(3) in a loop), the dispatcher and a handler *)
(* in the middle of a registration always go on.  The dispatcher takes     *)
(* every message of the topic in turn (the MQ delivers each), whence       *)
(* strong fairness per message.  Clients need not say or do anything.      *)
Fairness ==
  /\ WF_vars(HeartbeatStep)
  /\ WF_vars(DispatchSend \/ DispatchPushBack)
  /\ \A m \in Msgs : SF_vars(DispatchFind(m))
  /\ \A c \in Conns : WF_vars(HandlerStep(c)) /\ WF_vars(AddClient(c))

FairSpec == Spec /\ Fairness

-----------------------------------------------------------------------------
(* Every variable stays in its range; a handler is registered only for the *)
(* code its client sent.                                                   *)
TypeOK ==
  /\ m_clients \in Seq(Conns)
  /\ m_disconnect_store \in Seq(Stores)
  /\ hpc \in [Conns -> {"none", "accepted", "init", "set", "clean", "loop", "exit", "dead"}]
  /\ code \in [Conns -> Stores \cup {NoStore}]
  /\ m_client_id \in [Conns -> Stores \cup {NoStore}]
  /\ \A c \in Conns : m_client_id[c] \in {NoStore, code[c]}
  /\ sock \in [Conns -> {"est", "lost", "closed"}]
  /\ silent \in [Conns -> BOOLEAN]
  /\ freed \in SUBSET Conns
  /\ hb \in [at : {"idle", "visit", "erase"}, it : 1..(Cardinality(Conns) + 1)]
  /\ disp \in [at : {"idle", "found", "none"}, msg : Msgs \cup {NoMsg}, conn : Conns \cup {NoConn}]
  /\ mq \in SUBSET Msgs
  /\ sent \in SUBSET (Msgs \X Conns)
  /\ lost \in SUBSET Msgs

Listed(c) == \E k \in DOMAIN m_clients : m_clients[k] = c

(* Outside a removal m_clients lists every handler whose thread was        *)
(* started and that is not deleted, once, and no deleted one, although     *)
(* accept appends while the heartbeat thread iterates and erases.          *)
ClientsAlive ==
  /\ \A c \in Conns \ freed :
       hpc[c] \notin {"none", "accepted"} => Listed(c)
  /\ \A j, k \in DOMAIN m_clients : m_clients[j] = m_clients[k] => j = k
  /\ \A k \in DOMAIN m_clients :
       m_clients[k] \in freed => hb.at = "erase" /\ k = hb.it

(* A downlink message is in the topic, with the dispatcher, given to one   *)
(* socket once, or lost, and never in two of these places                  *)
(* (dispatchOneMessage: the retry never duplicates).                       *)
OnePlace ==
  \A m \in Msgs :
    Cardinality({d \in Conns : <<m, d>> \in sent})
    + Cardinality({p \in {"mq", "disp", "lost"} :
                     \/ p = "mq" /\ m \in mq
                     \/ p = "disp" /\ disp.at # "idle" /\ disp.msg = m
                     \/ p = "lost" /\ m \in lost}) = 1

(* A listed handler whose socket is gone, or whose handshake failed,       *)
(* leaves m_clients and is not listed again (sendHeartbeat, removeClient). *)
DeadSocketRemoved ==
  \A c \in Conns : (Listed(c) /\ sock[c] # "est") ~> [](~Listed(c))

(* The handler is registered for s and its connection is well.             *)
Healthy(c, s) ==
  /\ m_client_id[c] = s /\ hpc[c] = "loop" /\ sock[c] = "est"
  /\ ~silent[c] /\ c \notin freed

(* Once a connection of a store stays well, the store leaves               *)
(* m_disconnect_store for good, even if removals entered it several times. *)
DisconnectHeals ==
  \A c \in Conns, s \in Stores :
    (<>[]Healthy(c, s)) => <>[](\A k \in DOMAIN m_disconnect_store : m_disconnect_store[k] # s)

(* Once a connection of a store stays well, every message for it is        *)
(* settled: sent, or lost to a failed send or push.                        *)
DownlinkSettles ==
  \A c \in Conns, m \in Msgs :
    (<>[]Healthy(c, m.store)) => <>(m \in lost \/ \E d \in Conns : <<m, d>> \in sent)

Live(c) == c \notin freed /\ m_client_id[c] # NoStore

(* A store has at most one registered handler.  checkClientsIdExist and    *)
(* the assignment of m_client_id are two critical sections, so clients of  *)
(* one store that connect at the same time break it; one client does not   *)
(* (ClientLink).                                                           *)
UniqueStore ==
  \A c, d \in Conns : Live(c) /\ Live(d) /\ m_client_id[c] = m_client_id[d] => c = d
=============================================================================
