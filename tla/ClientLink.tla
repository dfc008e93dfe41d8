---------------------------- MODULE ClientLink ----------------------------
(***************************************************************************)
(* The connection between one store's client (wmsclient:                   *)
(* ClientSocketServer, HandlerMessage, RefreshUI, wmsclientDlg's timer)    *)
(* and the server of module SocketServer, whose actions are used here with *)
(* the messages the client exchanges with its handler.                     *)
(*                                                                         *)
(* Each connection of Conns is one successful connect() of the client.     *)
(* The client's receive thread starts a thread for every message; the      *)
(* dialog's timer, started by CONNECT_SUCCESS, replaces the receive thread *)
(* when nothing has come in for more than 16 s.  Heartbeats in flight next *)
(* to each other are represented by one.                                   *)
(***************************************************************************)
EXTENDS SocketServer

VARIABLES
  recvSock,       \* socketClient of the receive thread; NoConn: connecting
  m_clientSocket, \* the socket that SendMessage uses
  m_bServerRun,   \* the receive thread's loop condition
  timer,          \* TIMER_SERVER_HEART_BEAT is set
  fresh,          \* m_lastHeartbeatTimestamp is at most 16 s old
  handlers,       \* kinds of messages that have a CHandlerMessage thread
  begun,          \* server handlers that have sent "begin"
  toClient,       \* messages on their way, per connection
  toServer

client   == <<recvSock, m_clientSocket, m_bServerRun, timer, fresh, handlers>>
wire     == <<begun, toClient, toServer>>
linkVars == <<vars, client, wire>>

LinkInit ==
  /\ Init
  /\ recvSock = NoConn
  /\ m_clientSocket = NoConn
  /\ m_bServerRun = TRUE
  /\ timer = FALSE
  /\ fresh = FALSE
  /\ handlers = {}
  /\ begun = {}
  /\ toClient = [c \in Conns |-> <<>>]
  /\ toServer = [c \in Conns |-> <<>>]

(* q with kind at its end; a heartbeat after a heartbeat is not repeated.  *)
Put(q, kind) ==
  IF q # <<>> /\ q[Len(q)] = kind THEN q ELSE Append(q, kind)

-----------------------------------------------------------------------------
(* The client.                                                             *)

(* connect() succeeds; the loop before it retries for ever.                *)
Connect(c) ==
  /\ recvSock = NoConn
  /\ Accept(c)
  /\ recvSock' = c
  /\ m_clientSocket' = c
  /\ m_bServerRun' = TRUE
  /\ UNCHANGED <<timer, fresh, handlers, wire>>

(* One round of the receive loop with a message: a thread for it, and the  *)
(* time of the last message.                                               *)
Recv ==
  /\ recvSock # NoConn
  /\ m_bServerRun
  /\ toClient[recvSock] # <<>>
  /\ handlers' = handlers \cup {Head(toClient[recvSock])}
  /\ fresh' = TRUE
  /\ toClient' = [toClient EXCEPT ![recvSock] = Tail(@)]
  /\ UNCHANGED <<vars, recvSock, m_clientSocket, m_bServerRun, timer, begun, toServer>>

(* SendMessage: a failed send closes the socket.  The first send after the *)
(* peer has gone may still succeed.                                        *)
SendMessage(kind) ==
  \/ /\ m_clientSocket # NoConn
     /\ sock[m_clientSocket] = "est"
     /\ toServer' = [toServer EXCEPT ![m_clientSocket] = Put(@, kind)]
     /\ UNCHANGED m_clientSocket
  \/ /\ m_clientSocket # NoConn => sock[m_clientSocket] # "est"
     /\ m_clientSocket' \in {m_clientSocket, NoConn}
     /\ UNCHANGED toServer

(* ThreadProcHandler, by message code.                                     *)
(* Mutant of HandleBegin: the timer starts with the first message already. *)
HandleBeginTimer ==
  /\ "begin" \in handlers
  /\ handlers' = handlers \ {"begin"}
  /\ SendMessage("store")
  /\ timer' = TRUE
  /\ UNCHANGED <<vars, recvSock, m_bServerRun, fresh, begun, toClient>>

HandleBegin ==
  /\ "begin" \in handlers
  /\ handlers' = handlers \ {"begin"}
  /\ SendMessage("store")
  /\ UNCHANGED <<vars, recvSock, m_bServerRun, timer, fresh, begun, toClient>>

HandleHello ==
  /\ "hello" \in handlers
  /\ handlers' = handlers \ {"hello"}
  /\ SendMessage("beat")
  /\ UNCHANGED <<vars, recvSock, m_bServerRun, timer, fresh, begun, toClient>>

HandleSuccess ==
  /\ "success" \in handlers
  /\ handlers' = handlers \ {"success"}
  /\ timer' = TRUE
  /\ UNCHANGED <<vars, recvSock, m_clientSocket, m_bServerRun, fresh, wire>>

(* More than 16 s since the last message.                                  *)
Ageing ==
  /\ fresh
  /\ fresh' = FALSE
  /\ UNCHANGED <<vars, recvSock, m_clientSocket, m_bServerRun, timer, handlers, wire>>

(* Mutant of OnTimer: the receive thread is not told to stop.              *)
OnTimerOnly ==
  /\ timer
  /\ ~fresh
  /\ timer' = FALSE
  /\ UNCHANGED <<vars, recvSock, m_clientSocket, m_bServerRun, fresh, handlers, wire>>

(* OnTimer: the timer goes, and for 2 s the receive thread may end by      *)
(* itself ...                                                              *)
OnTimer ==
  /\ timer
  /\ ~fresh
  /\ timer' = FALSE
  /\ m_bServerRun' = FALSE
  /\ UNCHANGED <<vars, recvSock, m_clientSocket, fresh, handlers, wire>>

(* ... which closes its socket, ...                                        *)
RecvThreadEnds ==
  /\ ~m_bServerRun
  /\ recvSock # NoConn
  /\ sock[recvSock] = "est"
  /\ sock' = [sock EXCEPT ![recvSock] = "lost"]
  /\ UNCHANGED <<m_clients, m_disconnect_store, hpc, code, m_client_id, silent, freed, hb, down>>
  /\ UNCHANGED <<client, wire>>

(* ... before TerminateThread, which does not, and Run.                    *)
Restart ==
  /\ ~m_bServerRun
  /\ recvSock # NoConn
  /\ recvSock' = NoConn
  /\ UNCHANGED <<vars, m_clientSocket, m_bServerRun, timer, fresh, handlers, wire>>

ClientStep == Recv \/ HandleBegin \/ HandleHello \/ HandleSuccess \/ OnTimer \/ Restart

-----------------------------------------------------------------------------
(* The server's handler and heartbeat threads, with what they send and     *)
(* receive.                                                                *)

SendBegin(c) ==
  /\ hpc[c] = "init"
  /\ c \notin begun
  /\ begun' = begun \cup {c}
  /\ toClient' = [toClient EXCEPT ![c] = Append(@, "begin")]
  /\ UNCHANGED <<vars, client, toServer>>

(* initConnect: the first message decides; none in 8 s is a failure.       *)
FirstMessage(c) ==
  /\ c \in begun
  /\ toServer[c] # <<>>
  /\ toServer' = [toServer EXCEPT ![c] = Tail(@)]
  /\ IF Head(toServer[c]) = "store"
     THEN \E s \in Stores : StoreCode(c, s)
     ELSE InitConnectFails(c)
  /\ UNCHANGED <<client, begun, toClient>>

FirstMessageTimeout(c) ==
  /\ c \in begun
  /\ toServer[c] = <<>>
  /\ InitConnectFails(c)
  /\ UNCHANGED <<client, wire>>

ConnectSuccess(c) ==
  /\ Registered(c)
  /\ toClient' = [toClient EXCEPT ![c] = IF sock[c] = "est" THEN Append(@, "success") ELSE @]
  /\ UNCHANGED <<client, begun, toServer>>

(* A heartbeat of the client renews the time, in or beyond the 18 s.       *)
ReceiveBeat(c) ==
  /\ hpc[c] = "loop"
  /\ toServer[c] # <<>>
  /\ toServer' = [toServer EXCEPT ![c] = Tail(@)]
  /\ \/ HeartBeat(c)
     \/ ~silent[c] /\ sock[c] = "est" /\ c \notin freed /\ UNCHANGED vars
  /\ UNCHANGED <<client, begun, toClient>>

Greet ==
  /\ GreetClient
  /\ toClient' = [toClient EXCEPT ![m_clients[hb.it]] = Put(@, "hello")]
  /\ UNCHANGED <<client, begun, toServer>>

ServerStep ==
  \/ (HeartbeatBegin \/ RemoveClient \/ EraseClient \/ HeartbeatEnd) /\ UNCHANGED <<client, wire>>
  \/ Greet

ConnStep(c) ==
  \/ (AddClient(c) \/ SetClientId(c) \/ HandlerCancelled(c)) /\ UNCHANGED <<client, wire>>
  \/ SendBegin(c) \/ FirstMessage(c) \/ ConnectSuccess(c) \/ ReceiveBeat(c)

Environment(c) == (PeerLost(c) \/ Silence(c)) /\ UNCHANGED <<client, wire>>

LinkNext ==
  \/ \E c \in Conns : Connect(c) \/ ConnStep(c) \/ FirstMessageTimeout(c) \/ Environment(c)
  \/ ClientStep \/ Ageing \/ RecvThreadEnds
  \/ ServerStep

LinkSpec == LinkInit /\ [][LinkNext]_linkVars

(* The receive thread and the dialog's timer go on, and time passes while  *)
(* nothing arrives.  Nothing is asked of the server, of the message        *)
(* threads or of the network.                                              *)
LinkFairness ==
  WF_linkVars(Recv) /\ WF_linkVars(Ageing) /\ WF_linkVars(OnTimer) /\ WF_linkVars(Restart)

LinkFairSpec == LinkSpec /\ LinkFairness

-----------------------------------------------------------------------------
(* Every variable of the client and of the wire stays in its range; a      *)
(* connection that was never accepted carries nothing.                     *)
LinkTypeOK ==
  /\ TypeOK
  /\ recvSock \in Conns \cup {NoConn}
  /\ m_clientSocket \in Conns \cup {NoConn}
  /\ {m_bServerRun, timer, fresh} \subseteq BOOLEAN
  /\ handlers \subseteq {"begin", "hello", "success"}
  /\ begun \subseteq Conns
  /\ toClient \in [Conns -> Seq({"begin", "hello", "success"})]
  /\ toServer \in [Conns -> Seq({"store", "beat"})]
  /\ \A c \in Conns : hpc[c] = "none" => toClient[c] = <<>> /\ toServer[c] = <<>>

(* One client never has two registered connections: it reconnects only     *)
(* after CONNECT_SUCCESS, when the check of the next handshake sees the    *)
(* earlier registration (timer, checkClientsIdExist, m_client_id).         *)
OneRegistration == UniqueStore

(* A connection that dies while the timer runs is replaced: the client is  *)
(* back in connect() (OnTimer, TerminateServer, Run).                      *)
DeadLinkReplaced ==
  \A c \in Conns :
    (timer /\ recvSock = c /\ sock[c] # "est") ~> (recvSock # c)
=============================================================================
