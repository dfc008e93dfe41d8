------------------------------- MODULE Frames -------------------------------
(***************************************************************************)
(* One direction of a connection, byte by byte: mSend and mRecv            *)
(* (Commfun.cpp) under HandlerClientSocket::sendMessage and recvMessage on *)
(* the server and ClientSocketServer::SendMessage and its receive loop on  *)
(* the client.                                                             *)
(*                                                                         *)
(* A frame is a header, which holds the length, the body and the end mark  *)
(* "&over&"; header and body go out in one mSend, the mark in another.     *)
(* Byte i of message m's frame is <<m, i>>: what is read tells from which  *)
(* frame it is, although the code only sees its value.  No body contains   *)
(* the mark.                                                               *)
(*                                                                         *)
(* The two directions differ: the client's threads send under a mutex,     *)
(* close the socket when a send fails, and the server's recv times out;    *)
(* the server's threads (handler, heartbeat, dispatcher) send without a    *)
(* lock and go on after a failed send, and the client's recv waits for     *)
(* ever.  receiver says which one it is.                                   *)
(***************************************************************************)
EXTENDS Integers, FiniteSets, SequencesExt

CONSTANTS
  Threads,    \* that send on this connection
  Msgs,
  BodyLen,    \* length of each message's body
  HeaderLen,  \* sizeof(SOCKET_MESSAGE_HEADER)
  OverLen,    \* MESSAGE_BUFFER_OVER_LEN
  Room,       \* bytes the sockets' buffers hold
  NoMsg, NoThread, Garbled

ASSUME LengthAssumption ==
  /\ BodyLen \in [Msgs -> Nat]
  /\ HeaderLen \in Nat \ {0}
  /\ OverLen \in Nat \ {0}
  /\ Room \in Nat \ {0}

ASSUME ThreadAssumption == NoThread \notin Threads

VARIABLES
  receiver,   \* "server" or "client"
  todo,       \* messages not yet given to a thread
  thread,     \* what a sending thread is at: its message, which mSend, what
              \* is left of it
  lock,       \* owner of the mutex ClientSocketServer
  conn,       \* "open", or the side that has closed the socket
  wire,       \* bytes sent and not received
  buf,        \* bytes of the frame that is being received
  need,       \* bodyLen once the header is read, -1 before
  got,        \* messages handed on
  damaged     \* ghost: the receiver may be out of step with the frames

vars == <<receiver, todo, thread, lock, conn, wire, buf, need, got, damaged>>
sending   == <<todo, thread, lock>>
receiving == <<buf, need, got>>

FrameLen(m) == HeaderLen + BodyLen[m] + OverLen
Bytes(m, a, b) == [i \in 1 .. b - a + 1 |-> <<m, a + i - 1>>]
HeaderAndBody(m) == Bytes(m, 1, HeaderLen + BodyLen[m])
Over(m) == Bytes(m, HeaderLen + BodyLen[m] + 1, FrameLen(m))

Idle == [m |-> NoMsg, step |-> "idle", left |-> <<>>]

Init ==
  /\ receiver \in {"server", "client"}
  /\ todo = Msgs
  /\ thread = [t \in Threads |-> Idle]
  /\ lock = NoThread
  /\ conn = "open"
  /\ wire = <<>>
  /\ buf = <<>>
  /\ need = -1
  /\ got = <<>>
  /\ damaged = FALSE

-----------------------------------------------------------------------------
(* Sending.                                                                *)

Locked == receiver = "server"

(* Some but not all of t's frame has been sent.                            *)
Amid(t) ==
  \/ thread[t].step = "over"
  \/ thread[t].step = "data" /\ thread[t].left # HeaderAndBody(thread[t].m)

(* Mutant of SendMessage: the mutex is not taken.                          *)
SendMessageUnlocked(t, m) ==
  /\ thread[t] = Idle
  /\ m \in todo
  /\ conn = "open"
  /\ todo' = todo \ {m}
  /\ thread' = [thread EXCEPT ![t] = [m |-> m, step |-> "data", left |-> HeaderAndBody(m)]]
  /\ UNCHANGED <<receiver, lock, conn, wire, receiving, damaged>>

(* sendMessage / SendMessage: the buffer is made; the client takes the     *)
(* mutex, unless it has seen that the socket is closed.                    *)
SendMessage(t, m) ==
  /\ thread[t] = Idle
  /\ m \in todo
  /\ conn = "open"
  /\ Locked => lock = NoThread
  /\ todo' = todo \ {m}
  /\ thread' = [thread EXCEPT ![t] = [m |-> m, step |-> "data", left |-> HeaderAndBody(m)]]
  /\ lock' = IF Locked THEN t ELSE lock
  /\ UNCHANGED <<receiver, conn, wire, receiving, damaged>>

(* After n bytes have gone out: more of the same, the mark, or the end.    *)
AfterSend(p, n) ==
  IF n < Len(p.left) THEN [p EXCEPT !.left = SubSeq(p.left, n + 1, Len(p.left))]
  ELSE IF p.step = "data" THEN [p EXCEPT !.step = "over", !.left = Over(p.m)]
  ELSE Idle

(* mSend: send() takes what there is room for.                             *)
mSend(t) ==
  LET left == thread[t].left
      room == Room - Len(wire)
      n    == IF Len(left) < room THEN Len(left) ELSE room
  IN  /\ thread[t] # Idle
      /\ conn = "open"
      /\ n > 0
      /\ wire' = wire \o SubSeq(left, 1, n)
      /\ thread' = [thread EXCEPT ![t] = AfterSend(thread[t], n)]
      /\ lock' = IF AfterSend(thread[t], n) = Idle /\ Locked THEN NoThread ELSE lock
      /\ damaged' = (damaged \/ \E u \in Threads \ {t} : Amid(u))
      /\ UNCHANGED <<receiver, todo, conn, receiving>>

(* send() fails: after the time-out without room, or on a closed socket.   *)
(* The client closes the socket, the server goes on with it.               *)
mSendFails(t) ==
  /\ thread[t] # Idle
  /\ Len(wire) = Room \/ conn # "open"
  /\ thread' = [thread EXCEPT ![t] = Idle]
  /\ lock' = IF Locked THEN NoThread ELSE lock
  /\ conn' = IF Locked THEN "sender" ELSE conn
  /\ damaged' = (damaged \/ (~Locked /\ Amid(t)))
  /\ UNCHANGED <<receiver, todo, wire, receiving>>

-----------------------------------------------------------------------------
(* Receiving.                                                              *)

IsHeader(h) == \E m \in Msgs : h = Bytes(m, 1, HeaderLen)

(* The bodyLen that the bytes h may give: the true one, or anything, where *)
(* -1 stands for all lengths that malloc or mRecv refuses.                 *)
Lengths(h) ==
  IF IsHeader(h) THEN {BodyLen[h[1][1]]} ELSE {-1} \cup {BodyLen[m] : m \in Msgs}

(* The last bytes of f are the mark, of whatever frame.                    *)
EndsInOver(f) ==
  \A j \in 1 .. OverLen :
    LET b == f[Len(f) - OverLen + j] IN b[2] = FrameLen(b[1]) - OverLen + j

Content(f) ==
  IF \E m \in Msgs : f = Bytes(m, 1, FrameLen(m)) THEN f[1][1] ELSE Garbled

Reads == conn # "receiver" /\ wire # <<>>
Read  == Append(buf, Head(wire))

(* mRecv, inside a part of the frame.                                      *)
mRecv ==
  /\ Reads
  /\ IF need = -1 THEN Len(Read) < HeaderLen
     ELSE Len(Read) < HeaderLen + need + OverLen
  /\ buf' = Read
  /\ wire' = Tail(wire)
  /\ UNCHANGED <<receiver, sending, conn, need, got, damaged>>

(* Mutant of Header: a body of no bytes is waited for.                     *)
HeaderWaits ==
  /\ Reads
  /\ need = -1
  /\ Len(Read) = HeaderLen
  /\ \E n \in Lengths(Read) \ {0} :
       /\ need' = n
       /\ buf' = IF n = -1 THEN <<>> ELSE Read
       /\ conn' = IF n = -1 /\ receiver = "client" THEN "receiver" ELSE conn
  /\ wire' = Tail(wire)
  /\ UNCHANGED <<receiver, sending, got, damaged>>

(* The header is complete.  A length it cannot serve makes the server read *)
(* a header again and ends the client's thread, which closes the socket.   *)
Header ==
  /\ Reads
  /\ need = -1
  /\ Len(Read) = HeaderLen
  /\ \E n \in Lengths(Read) :
       /\ need' = n
       /\ buf' = IF n = -1 THEN <<>> ELSE Read
       /\ conn' = IF n = -1 /\ receiver = "client" THEN "receiver" ELSE conn
  /\ wire' = Tail(wire)
  /\ UNCHANGED <<receiver, sending, got, damaged>>

(* The frame is complete: handed on if it ends in the mark.                *)
Frame ==
  /\ Reads
  /\ need # -1
  /\ Len(Read) = HeaderLen + need + OverLen
  /\ got' = IF EndsInOver(Read) THEN Append(got, Content(Read)) ELSE got
  /\ buf' = <<>>
  /\ need' = -1
  /\ wire' = Tail(wire)
  /\ UNCHANGED <<receiver, sending, conn, damaged>>

(* What the receiver is going to read first.                               *)
Ahead ==
  wire \o (IF lock = NoThread THEN <<>> ELSE thread[lock].left)

(* Mutant of RecvTimeout: the next mRecv goes on with the body.            *)
RecvTimeoutKeeps ==
  /\ receiver = "server"
  /\ conn = "open"
  /\ buf # <<>> \/ damaged
  /\ buf' = <<>>
  /\ damaged' = (Ahead # <<>> /\ Head(Ahead)[2] # 1)
  /\ UNCHANGED <<receiver, sending, conn, wire, need, got>>

(* SO_RCVTIMEO on the server: mRecv gives up, what it has read is lost,    *)
(* recvMessage starts with a header again.  The channel is in step again   *)
(* if the next byte is the first of a frame.                               *)
RecvTimeout ==
  /\ receiver = "server"
  /\ conn = "open"
  /\ buf # <<>> \/ damaged
  /\ buf' = <<>>
  /\ need' = -1
  /\ damaged' = (Ahead # <<>> /\ Head(Ahead)[2] # 1)
  /\ UNCHANGED <<receiver, sending, conn, wire, got>>

Receive == mRecv \/ Header \/ Frame

Next ==
  \/ \E t \in Threads :
       \/ \E m \in Msgs : SendMessage(t, m)
       \/ mSend(t)
       \/ mSendFails(t)
  \/ Receive
  \/ RecvTimeout

Spec == Init /\ [][Next]_vars

(* The receiving thread runs.                                              *)
FairSpec == Spec /\ WF_vars(Receive)

-----------------------------------------------------------------------------
(* Bytes a and b may follow each other on an undisturbed wire.             *)
Follows(a, b) ==
  \/ a[1] = b[1] /\ b[2] = a[2] + 1
  \/ a[2] = FrameLen(a[1]) /\ b[2] = 1

(* Frames stand on the wire whole and one after the other: on the client's *)
(* side always, since its threads send under the mutex and close the       *)
(* socket behind a frame that was cut; on the server's for as long as no   *)
(* two threads send at once and no send fails half-way.                    *)
FramesWhole ==
  (Locked \/ ~damaged) => \A i \in 1 .. Len(wire) - 1 : Follows(wire[i], wire[i + 1])

(* The positions in s where a frame ends, and the k-th of them.            *)
FrameEnds(s) == {i \in DOMAIN s : s[i][2] = FrameLen(s[i][1])}
NthEnd(s, k) ==
  CHOOSE i \in FrameEnds(s) : Cardinality({j \in FrameEnds(s) : j <= i}) = k

(* The refinement: a message is in the abstract channel from its last byte *)
(* being sent to its last byte being received.                             *)
Ended(s) == [k \in 1 .. Cardinality(FrameEnds(s)) |-> s[NthEnd(s, k)][1]]
ChannelView == Ended(buf \o wire)

Channel == INSTANCE FrameChannel WITH chan <- ChannelView, intact <- ~damaged

(* Both directions implement FrameChannel: until two threads send at once, *)
(* a send fails half-way on a socket that stays open or a receive times    *)
(* out inside a frame, messages arrive whole, once and in order; and a     *)
(* time-out at the end of a frame puts the server back in step (mSend,     *)
(* mRecv, sendMessage, recvMessage, SendMessage, ThreadProcServer).        *)
ImplementsChannel == Channel!Spec

(* A message that is sent to its last byte arrives, unless the channel is  *)
(* disturbed first (mRecv's loop, recvMessage).                            *)
SentArrives ==
  \A m \in Msgs :
    Contains(ChannelView, m) ~> (Contains(got, m) \/ damaged)
=============================================================================
