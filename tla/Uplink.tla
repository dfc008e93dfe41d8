------------------------------- MODULE Uplink -------------------------------
(***************************************************************************)
(* The way of a changed row to the message queue (MQ): the client's queue  *)
(* and upload threads (module Upload), a connection, the handler thread    *)
(* that serves it on the server, and the server's raw queue and its        *)
(* consumer (module CProcessMqData, of which this module uses every action *)
(* that concerns m_raw_data).                                              *)
(*                                                                         *)
(* A connection delivers messages whole and in order until it is lost      *)
(* (module Frames).  A member of Handlers stands for the handler threads   *)
(* of successive connections of which each has handed on what it received  *)
(* before the next one begins.  The n-th item that h queues is the n-th    *)
(* message received on h.                                                  *)
(***************************************************************************)
EXTENDS Upload, FiniteSets

CONSTANTS
  Handlers, MAX_QUEUE_DATA, MaxMsgs, NULL, Garbage,  \* see CProcessMqData
  NoLink

VARIABLES
  up, boot, queue, pc, hand, abandoned, sent, out, dropped, rejected, failed, spurious,
  link,      \* the connection SendMessage uses, or NoLink
  wire,      \* messages on their way, per connection
  received,  \* ghost: messages received, per connection
  strayed    \* ghost: messages lost with a connection

server  == <<up, boot, queue, pc, hand, abandoned, sent, out, dropped, rejected, failed, spurious>>
network == <<link, wire, received, strayed>>
vars    == <<upload, server, network>>

Server == INSTANCE CProcessMqData
            WITH Listeners <- {}, Cancellable <- Handlers, MaxSpurious <- 0

Raw == "threadProcessRaw"

ASSUME UplinkAssumption ==
  /\ IsFiniteSet(Rows) /\ IsFiniteSet(Uploaders)
  /\ Wild \notin Message
  /\ NoLink \notin Handlers
  /\ Handlers \cap Server!Consumers = {}
  /\ {MAX_QUEUE_DATA, MaxMsgs} \subseteq Nat
  /\ NULL \notin Server!Item
  /\ Garbage \notin Server!Item \cup {NULL}

(* A server whose main() has come to its end, before any message; the      *)
(* client has connected.                                                   *)
ServerRuns ==
  /\ up = TRUE
  /\ boot = 4
  /\ queue = [q \in Server!Queues |-> <<>>]
  /\ pc = [t \in Server!Threads |-> "run"]
  /\ hand = [t \in Server!Threads |-> NULL]
  /\ abandoned = {}
  /\ sent = [h \in Handlers |-> 0]
  /\ out = [c \in Server!Consumers |-> <<>>]
  /\ dropped = {} /\ rejected = {} /\ failed = {}
  /\ spurious = 0

Init ==
  /\ UploadInit
  /\ ServerRuns
  /\ link \in Handlers
  /\ wire = [h \in Handlers |-> <<>>]
  /\ received = [h \in Handlers |-> <<>>]
  /\ strayed = {}

-----------------------------------------------------------------------------
(* The client connects; a handler thread begins to serve it.               *)
Connect(h) ==
  /\ up
  /\ link = NoLink
  /\ pc[h] = "run"
  /\ wire[h] = <<>>
  /\ link' = h
  /\ UNCHANGED <<upload, server, wire, received, strayed>>

(* SendMessage returns TRUE: the message is on its way ...                 *)
SendMessage(u) ==
  /\ link # NoLink
  /\ Sent(u)
  /\ wire' = [wire EXCEPT ![link] = Append(@, pData[u])]
  /\ UNCHANGED <<server, link, received, strayed>>

(* ... or FALSE: there is no connection, or it breaks and is closed.       *)
SendMessageFails(u) ==
  /\ SendFails(u)
  /\ link' = NoLink
  /\ UNCHANGED <<server, wire, received, strayed>>

(* The connection is lost, and with it what the server has not received:   *)
(* some of the last messages.                                              *)
LinkLost ==
  /\ link # NoLink
  /\ link' = NoLink
  /\ \E n \in 0 .. Len(wire[link]) :
       /\ wire' = [wire EXCEPT ![link] = SubSeq(@, 1, n)]
       /\ strayed' = strayed \cup ToSet(SubSeq(wire[link], n + 1, Len(wire[link])))
  /\ UNCHANGED <<upload, server, received>>

(* handlerMessage, MSG_TYPE_BINLOG: ProductRawData.                        *)
HandlerMessage(h) ==
  /\ wire[h] # <<>>
  /\ Server!ProductRawData(h)
  /\ wire' = [wire EXCEPT ![h] = Tail(@)]
  /\ received' = [received EXCEPT ![h] = Append(@, Head(wire[h]))]
  /\ UNCHANGED <<upload, link, strayed>>

(* The heartbeat thread removes a client that is silent because its        *)
(* connection is lost, and cancels its thread.                             *)
RemoveClient(h) ==
  /\ link # h
  /\ Server!KillClientThread(h)
  /\ wire' = [wire EXCEPT ![h] = <<>>]
  /\ strayed' = strayed \cup ToSet(wire[h])
  /\ UNCHANGED <<upload, link, received>>

(* The client's process ends; the connection goes with it.                 *)
EndClient ==
  /\ ClientEnds
  /\ link' = NoLink
  /\ UNCHANGED <<server, wire, received, strayed>>

ServerFails == Server!GarbageCrash /\ UNCHANGED <<upload, network>>

RawStep ==
  /\ Server!ConsumerStep(Raw) \/ Server!PushFails
  /\ UNCHANGED <<upload, network>>

HandlerResumes(h) == Server!ProductResume(h) /\ UNCHANGED <<upload, network>>

Export == ExportStep /\ UNCHANGED <<server, network>>

Uploader(u) ==
  \/ (VectorHeadConsumerDataGenerate(u) \/ ConsumerResume(u)) /\ UNCHANGED <<server, network>>
  \/ SendMessage(u)
  \/ SendMessageFails(u)

Next ==
  \/ Export
  \/ \E u \in Uploaders : Uploader(u) 
  \/ \E h \in Handlers : Connect(h) \/ HandlerMessage(h) \/ HandlerResumes(h) \/ RemoveClient(h)
  \/ LinkLost \/ EndClient
  \/ ServerFails \/ RawStep

Spec == Init /\ [][Next]_vars

(* The threads run.  Nothing is asked of the network, of the users, or of  *)
(* the MQ.                                                                 *)
Fairness ==
  /\ WF_vars(Export)
  /\ \A u \in Uploaders : WF_vars(Uploader(u))
  /\ \A h \in Handlers : WF_vars(HandlerMessage(h)) /\ WF_vars(HandlerResumes(h))
  /\ WF_vars(RawStep)

FairSpec == Spec /\ Fairness

-----------------------------------------------------------------------------
(* The message behind an item of the server.                               *)
MessageOf(i) == IF i = Garbage THEN Wild ELSE received[i.from][i.n]

Items(S) == {MessageOf(i) : i \in S \ {NULL}}

Pushed == Items(ToSet(out[Raw]))

OnServer ==
  Items(ToSet(queue["m_raw_data"]) \cup {hand[t] : t \in Handlers \cup {Raw}})

LostOnServer == Items(dropped \cup failed)

Underway == UNION {ToSet(wire[h]) : h \in Handlers}

Everywhere == InMemory \cup gone \cup Underway \cup strayed \cup OnServer \cup LostOnServer \cup Pushed

(* Every changed row is still to be selected, or there is a message with   *)
(* it somewhere between the client's queue and the MQ, or the message was  *)
(* given up at a known place: the client's full queue, a failed send, the  *)
(* end of the client, a lost connection, the server's full queue, a failed *)
(* push (readData, PutOneMessageQueue, ProcessBinlogThread,                *)
(* handlerMessage, threadProcessRaw).                                      *)
RowTracked == \A r \in Rows : r \in unsaved \/ \E m \in Everywhere \ {Wild} : m.row = r

(* A row goes to the MQ twice only if the client has ended in between,     *)
(* after queueing it and before saving the times.                          *)
PushedOnce ==
  ends = 0 =>
    \A j, k \in DOMAIN out[Raw] :
      LET a == MessageOf(out[Raw][j])
          b == MessageOf(out[Raw][k])
      IN  (j # k /\ a # Wild /\ b # Wild) => a.row # b.row

(* While there is one upload thread, the messages of a round that came     *)
(* over one connection reach the MQ in the order of their numbers.         *)
RoundInOrder ==
  Cardinality(Uploaders) = 1 =>
    \A j, k \in DOMAIN out[Raw] :
      LET a == MessageOf(out[Raw][j])
          b == MessageOf(out[Raw][k])
      IN  (/\ j < k /\ a # Wild /\ b # Wild
           /\ out[Raw][j].from = out[Raw][k].from
           /\ a.round = b.round)
            => a.order < b.order

(* Every changed row gets to the MQ or is given up, unless the server ends *)
(* or one of its threads was cancelled with the mutex of the raw queue.    *)
RowSettles ==
  \A r \in Rows :
    <>(\/ \E m \in Pushed \cup gone \cup strayed \cup LostOnServer : m # Wild /\ m.row = r
       \/ ~up
       \/ abandoned # {})
=============================================================================
