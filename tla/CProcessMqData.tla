-------------------------- MODULE CProcessMqData --------------------------
(***************************************************************************)
(* The server's three in-memory queues (DataSync/CProcessMqData.cpp) and   *)
(* the threads around them:                                                *)
(*                                                                         *)
(*   m_raw_data        filled by the socket handler threads (uplink data   *)
(*                     of the stores), emptied by threadProcessRaw, which  *)
(*                     pushes to the message queue (MQ);                   *)
(*   m_exception_data  filled by the MQ client's listener threads, emptied *)
(*                     by threadProcessException, which sends to a store;  *)
(*   m_data            its only producer call is commented out in          *)
(*                     MyMessageListener.cpp, but threadProcess still      *)
(*                     waits for it.                                       *)
(*                                                                         *)
(* m_data and m_exception_data share one mutex and one pair of condition   *)
(* variables; m_raw_data has its own.  Everything between taking a mutex   *)
(* and releasing or sleeping on it touches only what the mutex protects,   *)
(* so each such segment is one step; a woken thread takes the mutex again  *)
(* in a later step.                                                        *)
(***************************************************************************)
EXTENDS Naturals, Sequences, FiniteSets

CONSTANTS
  Handlers,       \* socket handler threads: the producers of m_raw_data
  Listeners,      \* MQ listener threads: the producers of m_exception_data
  Cancellable,    \* the handlers the heartbeat thread may cancel
  MAX_QUEUE_DATA, \* capacity of each queue (1000 in the code)
  MaxMsgs,        \* bound: messages each producer receives
  MaxSpurious,    \* bound: returns of pthread_cond_wait without a signal
  NULL,           \* the null pointer, and an empty hand
  Garbage         \* what an uninitialised pointer points to

Producers == Handlers \cup Listeners

Item == [from : Producers, n : 1..MaxMsgs]

Consumers == {"threadProcess", "threadProcessException", "threadProcessRaw"}

Threads == Producers \cup Consumers

Queues == {"m_data", "m_exception_data", "m_raw_data"}

Locks == {"CProcessMqData", "CProcessMqRawData"}

ASSUME ConstantsAssumption ==
  /\ IsFiniteSet(Handlers)
  /\ Handlers \cap Listeners = {}
  /\ Producers \cap Consumers = {}
  /\ Cancellable \subseteq Handlers
  /\ MAX_QUEUE_DATA \in Nat \ {0}
  /\ MaxMsgs \in Nat
  /\ MaxSpurious \in Nat
  /\ NULL \notin Item
  /\ Garbage \notin Item \cup {NULL}

VARIABLES
  up,        \* the process is running
  boot,      \* how far main() has come
  queue,     \* the three deques
  pc,        \* where each thread is
  hand,      \* the MQ_DATA each thread holds
  abandoned, \* mutexes whose owner was cancelled while holding them
  sent,      \* how many messages each producer has received so far
  out,       \* what each consumer has handed on, in order
  dropped,   \* items given up by a producer woken from a full queue
  rejected,  \* messages a listener commits without queueing
  failed,    \* items whose pushMessage failed
  spurious   \* how often pthread_cond_wait has returned without a signal

vars == <<up, boot, queue, pc, hand, abandoned, sent, out, dropped, rejected, failed, spurious>>

QueueOf(t) ==
  IF t \in Handlers \cup {"threadProcessRaw"} THEN "m_raw_data"
  ELSE IF t \in Listeners \cup {"threadProcessException"} THEN "m_exception_data"
  ELSE "m_data"

LockOf(q) == IF q = "m_raw_data" THEN "CProcessMqRawData" ELSE "CProcessMqData"

Pcs == {"off", "run", "full", "fullWoken", "empty", "emptyWoken", "got", "dead"}

-----------------------------------------------------------------------------
(* lock.h: pthread_cond_signal under the mutex of q moves one thread that  *)
(* sleeps on that condition variable (place s) to s "Woken"; with nobody   *)
(* asleep it is lost.  Every thread of the lock is a candidate, whichever  *)
(* queue it waits for.                                                     *)
Sleepers(f, q, s) == {t \in Threads : f[t] = s /\ LockOf(QueueOf(t)) = LockOf(q)}

Woken(s) == IF s = "full" THEN "fullWoken" ELSE "emptyWoken"

Wake(f, q, s) ==
  IF Sleepers(f, q, s) = {} THEN {f}
  ELSE {[f EXCEPT ![u] = Woken(s)] : u \in Sleepers(f, q, s)}

MutexFree(q) == LockOf(q) \notin abandoned

-----------------------------------------------------------------------------
Init ==
  /\ up = TRUE
  /\ boot = 0
  /\ queue = [q \in Queues |-> <<>>]
  /\ pc = [t \in Threads |-> IF t \in Handlers THEN "run" ELSE "off"]
  /\ hand = [t \in Threads |-> NULL]
  /\ abandoned = {}
  /\ sent = [p \in Producers |-> 0]
  /\ out = [c \in Consumers |-> <<>>]
  /\ dropped = {}
  /\ rejected = {}
  /\ failed = {}
  /\ spurious = 0

(* main(): the sockets run first, then the consumer threads and the MQ     *)
(* listeners start in this order; the raw consumer comes last.             *)
Starts(k, ts) ==
  /\ up
  /\ boot = k
  /\ boot' = k + 1
  /\ pc' = [t \in Threads |-> IF t \in ts THEN "run" ELSE pc[t]]
  /\ UNCHANGED <<up, queue, hand, abandoned, sent, out, dropped, rejected, failed, spurious>>

StartThread == Starts(0, {"threadProcess"})

StartThreadException == Starts(1, {"threadProcessException"})

(* runServer() catches the MQ client's exceptions and returns false, which *)
(* main() ignores: the listeners then never run.                           *)
RunServer == Starts(2, Listeners) \/ Starts(2, {})

StartThreadRaw == Starts(3, {"threadProcessRaw"})

(* A thread that cannot be created, or a message queue configuration that  *)
(* cannot be loaded, throws: main() logs it and returns.                   *)
MainFails ==
  /\ up
  /\ boot < 4
  /\ up' = FALSE
  /\ UNCHANGED <<boot, queue, pc, hand, abandoned, sent, out, dropped, rejected, failed, spurious>>

-----------------------------------------------------------------------------
(* Mutants of Product: push_front for push_back; no signal of "empty".     *)
ProductFront(q, t) ==
  LET i == [from |-> t, n |-> sent[t] + 1] IN
  /\ up
  /\ pc[t] = "run" /\ sent[t] < MaxMsgs /\ MutexFree(q)
  /\ Len(queue[q]) < MAX_QUEUE_DATA
  /\ sent' = [sent EXCEPT ![t] = @ + 1]
  /\ queue' = [queue EXCEPT ![q] = <<i>> \o @]
  /\ pc' \in Wake(pc, q, "empty")
  /\ UNCHANGED <<up, boot, hand, abandoned, out, dropped, rejected, failed, spurious>>

ProductSilent(q, t) ==
  LET i == [from |-> t, n |-> sent[t] + 1] IN
  /\ up
  /\ pc[t] = "run" /\ sent[t] < MaxMsgs /\ MutexFree(q)
  /\ Len(queue[q]) < MAX_QUEUE_DATA
  /\ sent' = [sent EXCEPT ![t] = @ + 1]
  /\ queue' = [queue EXCEPT ![q] = Append(@, i)]
  /\ UNCHANGED <<up, boot, pc, hand, abandoned, out, dropped, rejected, failed, spurious>>

(* ProductRawData and ProductExceptionData up to the end or to the sleep   *)
(* on "full".                                                              *)
Product(q, t) ==
  LET i == [from |-> t, n |-> sent[t] + 1] IN
  /\ up
  /\ pc[t] = "run"
  /\ sent[t] < MaxMsgs
  /\ MutexFree(q)
  /\ sent' = [sent EXCEPT ![t] = @ + 1]
  /\ \/ /\ Len(queue[q]) >= MAX_QUEUE_DATA
        /\ pc' = [pc EXCEPT ![t] = "full"]
        /\ hand' = [hand EXCEPT ![t] = i]
        /\ UNCHANGED queue
     \/ /\ Len(queue[q]) < MAX_QUEUE_DATA
        /\ queue' = [queue EXCEPT ![q] = Append(@, i)]
        /\ pc' \in Wake(pc, q, "empty")
        /\ UNCHANGED hand
  /\ UNCHANGED <<up, boot, abandoned, out, dropped, rejected, failed, spurious>>

ProductRawData(h) == Product("m_raw_data", h)

ProductExceptionData(l) == Product("m_exception_data", l)

(* The rest of both after the sleep: the branch that slept does not push,  *)
(* so the item is given up, and "empty" is signalled all the same.         *)
ProductResume(t) ==
  /\ up
  /\ pc[t] = "fullWoken"
  /\ MutexFree(QueueOf(t))
  /\ dropped' = dropped \cup {hand[t]}
  /\ hand' = [hand EXCEPT ![t] = NULL]
  /\ pc' \in Wake([pc EXCEPT ![t] = "run"], QueueOf(t), "empty")
  /\ UNCHANGED <<up, boot, queue, abandoned, sent, out, rejected, failed, spurious>>

(* MessageListenerException::consume commits a message whose body is       *)
(* shorter than 5 bytes or whose key is empty without queueing it.         *)
ConsumeReject(l) ==
  /\ up
  /\ pc[l] = "run"
  /\ sent[l] < MaxMsgs
  /\ sent' = [sent EXCEPT ![l] = @ + 1]
  /\ rejected' = rejected \cup {[from |-> l, n |-> sent[l] + 1]}
  /\ UNCHANGED <<up, boot, queue, pc, hand, abandoned, out, dropped, failed, spurious>>

-----------------------------------------------------------------------------
(* Mutants of Pop: the signal of "full" is missing; front() without        *)
(* pop_front().                                                            *)
PopSilent(q, c) ==
  /\ queue[q] # <<>>
  /\ hand' = [hand EXCEPT ![c] = Head(queue[q])]
  /\ queue' = [queue EXCEPT ![q] = Tail(@)]
  /\ pc' = [pc EXCEPT ![c] = "got"]

PopKeeps(q, c) ==
  /\ queue[q] # <<>>
  /\ hand' = [hand EXCEPT ![c] = Head(queue[q])]
  /\ pc' \in Wake([pc EXCEPT ![c] = "got"], q, "full")
  /\ UNCHANGED queue

(* front() and pop_front(), then the signal of "full".                     *)
Pop(q, c) ==
  /\ queue[q] # <<>>
  /\ hand' = [hand EXCEPT ![c] = Head(queue[q])]
  /\ queue' = [queue EXCEPT ![q] = Tail(@)]
  /\ pc' \in Wake([pc EXCEPT ![c] = "got"], q, "full")

(* ConsumerData, ConsumerExceptionData and ConsumerRawData up to the end   *)
(* or to the sleep on "empty".                                             *)
Consumer(c) ==
  LET q == QueueOf(c) IN
  /\ up
  /\ pc[c] = "run"
  /\ MutexFree(q)
  /\ \/ /\ queue[q] = <<>>
        /\ pc' = [pc EXCEPT ![c] = "empty"]
        /\ UNCHANGED <<queue, hand>>
     \/ Pop(q, c)
  /\ UNCHANGED <<up, boot, abandoned, sent, out, dropped, rejected, failed, spurious>>

(* Mutant of EmptyReturn: retData uninitialised in all three.              *)
EmptyReturnWild(q) == {NULL, Garbage}

(* What the three return when the queue is still empty after the wait:     *)
(* retData is initialised to NULL except in ConsumerRawData.               *)
EmptyReturn(q) == IF q = "m_raw_data" THEN {NULL, Garbage} ELSE {NULL}

(* The rest after the sleep.  A NULL result sends the caller's loop back   *)
(* to its start.                                                           *)
ConsumerResume(c) ==
  LET q == QueueOf(c) IN
  /\ up
  /\ pc[c] = "emptyWoken"
  /\ MutexFree(q)
  /\ \/ Pop(q, c)
     \/ /\ queue[q] = <<>>
        /\ \E r \in EmptyReturn(q) :
             /\ hand' = [hand EXCEPT ![c] = r]
             /\ pc' \in Wake([pc EXCEPT ![c] = IF r = NULL THEN "run" ELSE "got"],
                             q, "full")
        /\ UNCHANGED queue
  /\ UNCHANGED <<up, boot, abandoned, sent, out, dropped, rejected, failed, spurious>>

(* The consumer threads' loop bodies.  threadProcessException calls        *)
(* dispatchOneMessage; threadProcessRaw calls pushMessage, whose result it *)
(* ignores, and deletes the item.                                          *)
HandOn(c) ==
  /\ up
  /\ pc[c] = "got"
  /\ out' = [out EXCEPT ![c] = Append(@, hand[c])]
  /\ hand' = [hand EXCEPT ![c] = NULL]
  /\ pc' = [pc EXCEPT ![c] = "run"]
  /\ UNCHANGED <<up, boot, queue, abandoned, sent, dropped, rejected, failed, spurious>>

PushFails ==
  LET c == "threadProcessRaw" IN
  /\ up
  /\ pc[c] = "got"
  /\ hand[c] \in Item
  /\ failed' = failed \cup {hand[c]}
  /\ hand' = [hand EXCEPT ![c] = NULL]
  /\ pc' = [pc EXCEPT ![c] = "run"]
  /\ UNCHANGED <<up, boot, queue, abandoned, sent, out, dropped, rejected, spurious>>

(* Reading or deleting through the uninitialised pointer may also end the  *)
(* process.                                                                *)
GarbageCrash ==
  /\ up
  /\ pc["threadProcessRaw"] = "got"
  /\ hand["threadProcessRaw"] = Garbage
  /\ up' = FALSE
  /\ UNCHANGED <<boot, queue, pc, hand, abandoned, sent, out, dropped, rejected, failed, spurious>>

-----------------------------------------------------------------------------
(* HandlerClientSocket::killClientThread, called by the heartbeat thread.  *)
(* A handler cancelled inside pthread_cond_wait takes the mutex again      *)
(* before it ends, and nothing releases it: ENTRY_MUTEX has no cleanup.    *)
KillClientThread(h) ==
  /\ up
  /\ \/ /\ pc[h] = "run"
        /\ UNCHANGED abandoned
     \/ /\ pc[h] \in {"full", "fullWoken"}
        /\ MutexFree("m_raw_data")
        /\ abandoned' = abandoned \cup {LockOf("m_raw_data")}
  /\ pc' = [pc EXCEPT ![h] = "dead"]
  /\ UNCHANGED <<up, boot, queue, hand, sent, out, dropped, rejected, failed, spurious>>

(* POSIX lets pthread_cond_wait return without a signal.                   *)
SpuriousWake(t) ==
  /\ up
  /\ spurious < MaxSpurious
  /\ spurious' = spurious + 1
  /\ pc[t] \in {"full", "empty"}
  /\ pc' = [pc EXCEPT ![t] = Woken(@)]
  /\ UNCHANGED <<up, boot, queue, hand, abandoned, sent, out, dropped, rejected, failed>>

-----------------------------------------------------------------------------
Main == StartThread \/ StartThreadException \/ RunServer \/ StartThreadRaw

ProducerStep(t) ==
  \/ t \in Handlers /\ ProductRawData(t)
  \/ t \in Listeners /\ (ProductExceptionData(t) \/ ConsumeReject(t))
  \/ ProductResume(t)

ConsumerStep(c) == Consumer(c) \/ ConsumerResume(c) \/ HandOn(c)

Next ==
  \/ Main
  \/ MainFails
  \/ \E t \in Producers : ProducerStep(t)
  \/ \E c \in Consumers : ConsumerStep(c)
  \/ PushFails
  \/ GarbageCrash
  \/ \E h \in Cancellable : KillClientThread(h)
  \/ \E t \in Threads : SpuriousWake(t)

Spec == Init /\ [][Next]_vars

(* main() goes on to the end unless it throws, and the scheduler lets      *)
(* every thread that can run make a step in the end.  A producer is not    *)
(* forced to receive another message, only to finish a call.               *)
Fairness ==
  /\ WF_vars(Main)
  /\ \A c \in Consumers : WF_vars(ConsumerStep(c))
  /\ \A t \in Producers : WF_vars(ProductResume(t))

FairSpec == Spec /\ Fairness

-----------------------------------------------------------------------------
MaybeItem == Item \cup {NULL, Garbage}

(* Every variable stays in its range: in particular a deque holds only     *)
(* data some producer received, and only the raw consumer ever holds an    *)
(* uninitialised pointer.                                                  *)
TypeOK ==
  /\ up \in BOOLEAN
  /\ boot \in 0..4
  /\ queue \in [Queues -> Seq(Item)]
  /\ pc \in [Threads -> Pcs]
  /\ hand \in [Threads -> MaybeItem]
  /\ \A t \in Threads \ {"threadProcessRaw"} : hand[t] # Garbage
  /\ abandoned \in SUBSET Locks
  /\ sent \in [Producers -> 0..MaxMsgs]
  /\ out \in [Consumers -> Seq(Item \cup {Garbage})]
  /\ dropped \in SUBSET Item
  /\ rejected \in SUBSET Item
  /\ failed \in SUBSET Item
  /\ spurious \in 0..MaxSpurious

(* The places where an item is: deque and position, consumer and position  *)
(* among what it handed on, thread, or the reason it was given up.         *)
Whereabouts(i) ==
  (UNION {{<<q, k>> : k \in {j \in DOMAIN queue[q] : queue[q][j] = i}} : q \in Queues})
  \cup (UNION {{<<c, k>> : k \in {j \in DOMAIN out[c] : out[c][j] = i}} : c \in Consumers})
  \cup {<<t>> : t \in {u \in Threads : hand[u] = i}}
  \cup {<<why, 1>> : why \in {w \in {"dropped", "rejected", "failed"} :
                                \/ w = "dropped" /\ i \in dropped
                                \/ w = "rejected" /\ i \in rejected
                                \/ w = "failed" /\ i \in failed}}

(* Every message a producer has received is in exactly one place: one      *)
(* deque, one thread, handed on once, or given up for one known reason.    *)
(* Nothing is duplicated and nothing vanishes between two threads          *)
(* (CProcessMqData.cpp, all Product* and Consumer* functions).             *)
Accounted ==
  \A i \in Item :
    Cardinality(Whereabouts(i)) = IF i.n <= sent[i.from] THEN 1 ELSE 0

Before(a, b) == (a \in Item /\ b \in Item /\ a.from = b.from) => a.n < b.n

(* What a consumer thread hands on (pushMessage, dispatchOneMessage) it    *)
(* hands on at most once and in the order its producer received it,        *)
(* whatever was dropped in between.                                        *)
HandedOnInOrder ==
  \A c \in Consumers : \A j, k \in DOMAIN out[c] :
    j < k => Before(out[c][j], out[c][k])

(* No wakeup is lost on the raw queue, which has one consumer and its own  *)
(* condition variables: threadProcessRaw never sleeps on data              *)
(* (ConsumerRawData, ProductRawData).                                      *)
NoLostWakeup ==
  pc["threadProcessRaw"] = "empty" => queue["m_raw_data"] = <<>>

(* While there are at most MAX_QUEUE_DATA handler threads, the raw queue   *)
(* holds an item for each handler asleep on "full": each pop wakes one, so *)
(* no handler is left asleep beside a drained queue.                       *)
SleepersCovered ==
  Cardinality({h \in Handlers : pc[h] = "full"}) <= Len(queue["m_raw_data"])

(* An item of the raw queue is pushed, or its push fails, unless the       *)
(* process ends first or a handler was cancelled inside its wait for room  *)
(* (CProcessMqData.cpp:231), which leaves the mutex locked: nothing else   *)
(* blocks threadProcessRaw.                                                *)
RawItemPushed ==
  \A i \in [from : Handlers, n : 1..MaxMsgs] :
    (\E k \in DOMAIN queue["m_raw_data"] : queue["m_raw_data"][k] = i)
      ~> (~up \/ LockOf("m_raw_data") \in abandoned \/ i \in failed
             \/ \E k \in DOMAIN out["threadProcessRaw"] : out["threadProcessRaw"][k] = i)

(* A handler thread that had to wait for room comes back from              *)
(* ProductRawData, unless the process ends first or a handler was          *)
(* cancelled inside its wait.                                              *)
HandlerReturns ==
  \A h \in Handlers :
    (pc[h] = "full") ~> (~up \/ LockOf("m_raw_data") \in abandoned \/ pc[h] = "run")

=============================================================================
