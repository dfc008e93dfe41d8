----------------------- MODULE CProcessMqDataProofs -----------------------
(***************************************************************************)
(* Proofs about the server's queues, for any number of threads and         *)
(* messages and any capacity.                                              *)
(***************************************************************************)
EXTENDS CProcessMqData, FiniteSetTheorems, TLAPS

(* A producer never waits on "empty", a consumer never on "full".          *)
PcOK ==
  /\ \A t \in Producers : pc[t] \in {"off", "run", "full", "fullWoken", "dead"}
  /\ \A c \in Consumers : pc[c] \in {"off", "run", "empty", "emptyWoken", "got"}
  /\ \A c \in Consumers : pc[c] = "got" => hand[c] # NULL
  /\ \A t \in Producers : pc[t] \in {"full", "fullWoken"} => hand[t] \in Item

TypeInv == TypeOK /\ PcOK

(* A signal moves at most one thread, and only from the place it sleeps.   *)
LEMMA WakeMoves ==
  ASSUME NEW f \in [Threads -> Pcs], NEW q \in Queues, NEW s \in {"full", "empty"},
         NEW g \in Wake(f, q, s)
  PROVE  /\ g \in [Threads -> Pcs]
         /\ \A t \in Threads : g[t] = f[t] \/ (f[t] = s /\ g[t] = Woken(s))
<1>1. CASE g = f
  BY <1>1
<1>2. CASE g # f
  <2>1. PICK u \in Sleepers(f, q, s) : g = [f EXCEPT ![u] = Woken(s)]
    BY <1>2 DEF Wake
  <2>2. u \in Threads /\ f[u] = s
    BY DEF Sleepers
  <2>3. Woken(s) \in Pcs
    BY DEF Woken, Pcs
  <2> QED
    BY <2>1, <2>2, <2>3
<1> QED
  BY <1>1, <1>2

(* The type invariant holds at the start.                                  *)
LEMMA InitTypeInv == Init => TypeInv
  BY ConstantsAssumption
     DEF Init, TypeInv, TypeOK, PcOK, Threads, Producers, Consumers, Pcs, MaybeItem, Queues, Locks

(* Every step keeps it.                                                    *)
LEMMA NextTypeInv == TypeInv /\ [Next]_vars => TypeInv'
<1> SUFFICES ASSUME TypeInv, [Next]_vars PROVE TypeInv'
  OBVIOUS
<1> USE ConstantsAssumption DEF TypeInv
<1>q. \A t \in Threads : QueueOf(t) \in Queues
  BY DEF QueueOf, Queues
<1>i. ASSUME NEW t \in Producers, sent[t] < MaxMsgs
      PROVE  /\ [from |-> t, n |-> sent[t] + 1] \in Item
             /\ [sent EXCEPT ![t] = @ + 1] \in [Producers -> 0..MaxMsgs]
  BY <1>i DEF TypeOK, Item
<1>1. ASSUME Main PROVE TypeInv'
  BY <1>1 DEF Main, StartThread, StartThreadException, RunServer, StartThreadRaw, Starts,
              TypeOK, PcOK, Threads, Producers, Consumers, Pcs
<1>2. CASE MainFails
  BY <1>2 DEF MainFails, TypeOK, PcOK
<1>3. ASSUME NEW q \in Queues, NEW t \in Producers, Product(q, t) PROVE TypeInv'
  <2> DEFINE i == [from |-> t, n |-> sent[t] + 1]
  <2>1. i \in Item /\ sent' \in [Producers -> 0..MaxMsgs]
    BY <1>3, <1>i DEF Product
  <2> HIDE DEF i
  <2>2. CASE /\ pc' = [pc EXCEPT ![t] = "full"]
             /\ hand' = [hand EXCEPT ![t] = i]
             /\ UNCHANGED queue
    BY <2>1, <2>2, <1>3 DEF Product, TypeOK, PcOK, Threads, Producers, Consumers, Pcs, MaybeItem
  <2>3. CASE /\ queue' = [queue EXCEPT ![q] = Append(@, i)]
             /\ pc' \in Wake(pc, q, "empty")
             /\ UNCHANGED hand
    <3>1. queue' \in [Queues -> Seq(Item)]
      BY <2>1, <2>3 DEF TypeOK
    <3>2. /\ pc' \in [Threads -> Pcs]
          /\ \A u \in Threads : pc'[u] = pc[u] \/ (pc[u] = "empty" /\ pc'[u] = "emptyWoken")
      BY <2>3, WakeMoves DEF TypeOK, Woken
    <3>3. PcOK'
      BY <3>2, <2>3 DEF PcOK, Threads
    <3> QED
      BY <3>1, <3>2, <3>3, <2>1, <2>3, <1>3 DEF Product, TypeOK
  <2> QED
    BY <1>3, <2>2, <2>3 DEF Product, i
<1>4. ASSUME NEW t \in Producers, ProductResume(t) PROVE TypeInv'
  <2> DEFINE f == [pc EXCEPT ![t] = "run"]
  <2>1. f \in [Threads -> Pcs]
    BY DEF TypeOK, Pcs
  <2>2. /\ pc' \in [Threads -> Pcs]
        /\ \A u \in Threads : pc'[u] = f[u] \/ (f[u] = "empty" /\ pc'[u] = "emptyWoken")
    <3>1. pc' \in Wake(f, QueueOf(t), "empty") /\ QueueOf(t) \in Queues
      BY <1>4, <1>q DEF ProductResume, Threads
    <3> HIDE DEF f
    <3> QED
      BY <3>1, <2>1, WakeMoves DEF Woken
  <2>3. hand[t] \in Item
    BY <1>4 DEF ProductResume, PcOK
  <2>4. PcOK'
    BY <1>4, <2>2 DEF ProductResume, TypeOK, PcOK, Threads
  <2> QED
    BY <1>4, <2>2, <2>3, <2>4, ZenonT(60) DEF ProductResume, TypeOK, MaybeItem
<1>5. ASSUME NEW t \in Listeners, ConsumeReject(t) PROVE TypeInv'
  BY <1>5, <1>i DEF ConsumeReject, TypeOK, PcOK, Producers
<1>6. ASSUME NEW c \in Consumers, NEW q \in Queues, q = QueueOf(c), Pop(q, c),
             UNCHANGED <<up, boot, abandoned, sent, out, dropped, rejected, failed, spurious>>
      PROVE TypeInv'
  <2> DEFINE f == [pc EXCEPT ![c] = "got"]
  <2>1. f \in [Threads -> Pcs]
    BY DEF TypeOK, Pcs
  <2>2. /\ pc' \in [Threads -> Pcs]
        /\ \A u \in Threads : pc'[u] = f[u] \/ (f[u] = "full" /\ pc'[u] = "fullWoken")
    <3>1. pc' \in Wake(f, q, "full")
      BY <1>6 DEF Pop
    <3> HIDE DEF f
    <3> QED
      BY <3>1, <2>1, WakeMoves DEF Woken
  <2>3. Head(queue[q]) \in Item /\ Tail(queue[q]) \in Seq(Item)
    BY <1>6 DEF Pop, TypeOK
  <2>4. hand' \in [Threads -> MaybeItem] /\ queue' \in [Queues -> Seq(Item)]
    BY <1>6, <2>3 DEF Pop, TypeOK, MaybeItem
  <2>5. Head(queue[q]) # NULL
    BY <2>3 DEF TypeOK, Item, ConstantsAssumption
  <2>6. /\ hand'[c] \notin {NULL, Garbage}
        /\ \A u \in Threads \ {c} : hand'[u] = hand[u]
    BY <1>6, <2>3, <2>5 DEF Pop, TypeOK, Threads
  <2>7. PcOK'
    BY <1>6, <2>2, <2>6, ZenonT(60) DEF TypeOK, PcOK, Threads
  <2> QED
    BY <1>6, <2>2, <2>4, <2>6, <2>7 DEF TypeOK, Threads
<1>7. ASSUME NEW c \in Consumers, Consumer(c) PROVE TypeInv'
  <2>1. CASE /\ pc' = [pc EXCEPT ![c] = "empty"]
             /\ UNCHANGED <<queue, hand>>
    BY <1>7, <2>1 DEF Consumer, TypeOK, PcOK, Threads, Pcs
  <2>2. CASE Pop(QueueOf(c), c)
    BY <1>7, <1>6, <1>q, <2>2 DEF Consumer, Threads
  <2> QED
    BY <1>7, <2>1, <2>2 DEF Consumer
<1>8. ASSUME NEW c \in Consumers, ConsumerResume(c) PROVE TypeInv'
  <2>1. CASE Pop(QueueOf(c), c)
    BY <1>8, <1>6, <1>q, <2>1 DEF ConsumerResume, Threads
  <2>2. ASSUME NEW r \in EmptyReturn(QueueOf(c)),
               hand' = [hand EXCEPT ![c] = r],
               pc' \in Wake([pc EXCEPT ![c] = IF r = NULL THEN "run" ELSE "got"],
                            QueueOf(c), "full"),
               UNCHANGED queue
        PROVE  TypeInv'
    <3> DEFINE f == [pc EXCEPT ![c] = IF r = NULL THEN "run" ELSE "got"]
    <3>1. f \in [Threads -> Pcs]
      BY DEF TypeOK, Pcs
    <3>2. /\ pc' \in [Threads -> Pcs]
          /\ \A u \in Threads : pc'[u] = f[u] \/ (f[u] = "full" /\ pc'[u] = "fullWoken")
      <4>1. pc' \in Wake(f, QueueOf(c), "full") /\ QueueOf(c) \in Queues
        BY <2>2, <1>q DEF Threads
      <4> HIDE DEF f
      <4> QED
        BY <4>1, <3>1, WakeMoves DEF Woken
    <3>3. r \in {NULL, Garbage} /\ (c # "threadProcessRaw" => r = NULL)
      BY <2>2 DEF EmptyReturn, QueueOf, Consumers, Producers
    <3>4. hand' \in [Threads -> MaybeItem]
      BY <2>2, <3>3 DEF TypeOK, MaybeItem
    <3>5. PcOK'
      BY <2>2, <3>2, <3>3, ZenonT(60) DEF TypeOK, PcOK, Threads
    <3> QED
      BY <1>8, <2>2, <3>2, <3>3, <3>4, <3>5 DEF ConsumerResume, TypeOK, Threads
  <2> QED
    BY <1>8, <2>1, <2>2 DEF ConsumerResume
<1>9. ASSUME NEW c \in Consumers, HandOn(c) PROVE TypeInv'
  <2>1. hand[c] \in Item \cup {Garbage}
    BY <1>9 DEF HandOn, TypeOK, PcOK, MaybeItem, Threads
  <2>2. out' \in [Consumers -> Seq(Item \cup {Garbage})]
    BY <1>9, <2>1 DEF HandOn, TypeOK
  <2> QED
    BY <1>9, <2>2 DEF HandOn, TypeOK, PcOK, Threads, MaybeItem, Pcs
<1>10. CASE PushFails
  BY <1>10 DEF PushFails, TypeOK, PcOK, Threads, MaybeItem, Pcs, Consumers
<1>11. CASE GarbageCrash
  BY <1>11 DEF GarbageCrash, TypeOK, PcOK
<1>12. ASSUME NEW h \in Cancellable, KillClientThread(h) PROVE TypeInv'
  BY <1>12 DEF KillClientThread, TypeOK, PcOK, Threads, Producers, Pcs, Locks, LockOf
<1>13. ASSUME NEW t \in Threads, SpuriousWake(t) PROVE TypeInv'
  BY <1>13 DEF SpuriousWake, TypeOK, PcOK, Threads, Producers, Pcs, Woken
<1>14. CASE UNCHANGED vars
  BY <1>14 DEF vars, TypeOK, PcOK
<1> QED
  BY <1>1, <1>2, <1>3, <1>4, <1>5, <1>7, <1>8, <1>9, <1>10, <1>11, <1>12, <1>13, <1>14
     DEF Next, ProducerStep, ConsumerStep, ProductRawData, ProductExceptionData, Producers, Queues

(* TypeOK holds in every reachable state, for all constants that satisfy   *)
(* the assumption: the deques hold only received data, and only            *)
(* ConsumerRawData can hand out an uninitialised pointer.                  *)
THEOREM TypeCorrect == Spec => []TypeOK
<1>1. Spec => []TypeInv
  BY InitTypeInv, NextTypeInv, PTL DEF Spec
<1> QED
  BY <1>1, PTL DEF TypeInv

-----------------------------------------------------------------------------
(* The signal of "empty" after a push reaches the raw consumer if it       *)
(* sleeps: nobody else waits on that condition variable.                   *)
LEMMA RawSignalReaches ==
  ASSUME TypeInv, pc["threadProcessRaw"] = "empty",
         NEW g \in Wake(pc, "m_raw_data", "empty")
  PROVE  g["threadProcessRaw"] = "emptyWoken"
<1> DEFINE R == "threadProcessRaw"
<1>1. R \in Threads
  BY DEF Threads, Consumers
<1>2. ASSUME NEW t \in Sleepers(pc, "m_raw_data", "empty") PROVE t = R
  <2>1. t \in Consumers
    BY DEF Sleepers, TypeInv, PcOK, Threads
  <2>2. QueueOf(t) = "m_raw_data"
    BY DEF Sleepers, LockOf, QueueOf
  <2> QED
    BY <2>1, <2>2, ConstantsAssumption DEF QueueOf, Producers
<1>3. R \in Sleepers(pc, "m_raw_data", "empty")
  BY <1>1 DEF Sleepers, QueueOf
<1>4. g = [pc EXCEPT ![R] = "emptyWoken"]
  <2>1. PICK u \in Sleepers(pc, "m_raw_data", "empty") : g = [pc EXCEPT ![u] = "emptyWoken"]
    BY <1>3 DEF Wake, Woken
  <2> QED
    BY <2>1, <1>2
<1> QED
  BY <1>1, <1>4 DEF TypeInv, TypeOK

(* Every step keeps the raw consumer from sleeping on data.                *)
LEMMA NextNoLostWakeup == TypeInv /\ NoLostWakeup /\ [Next]_vars => NoLostWakeup'
<1> SUFFICES ASSUME TypeInv, NoLostWakeup, [Next]_vars PROVE NoLostWakeup'
  OBVIOUS
<1> DEFINE R == "threadProcessRaw"
           Quiet == /\ UNCHANGED queue
                    /\ pc'[R] = "empty" => pc[R] = "empty"
<1>r. R \in Threads /\ R \in Consumers /\ R \notin Producers
  BY ConstantsAssumption DEF Threads, Consumers
<1>t. pc \in [Threads -> Pcs] /\ queue \in [Queues -> Seq(Item)]
  BY DEF TypeInv, TypeOK
<1>q. \A t \in Threads : QueueOf(t) \in Queues
  BY DEF QueueOf, Queues
<1>k. \A c \in Consumers : c # R => QueueOf(c) # "m_raw_data"
  BY ConstantsAssumption DEF QueueOf, Consumers, Producers
<1>1. Quiet => NoLostWakeup'
  BY DEF NoLostWakeup
<1>w. ASSUME NEW f \in [Threads -> Pcs], NEW q \in Queues, NEW s \in {"full", "empty"},
             pc' \in Wake(f, q, s), pc'[R] = "empty"
      PROVE  f[R] = "empty"
  BY <1>w, <1>r, WakeMoves DEF Woken
<1>2. ASSUME Main \/ MainFails PROVE Quiet
  BY <1>2, <1>r, <1>t DEF Main, MainFails, StartThread, StartThreadException, RunServer,
                          StartThreadRaw, Starts
<1>3. ASSUME NEW q \in {"m_raw_data", "m_exception_data"}, NEW t \in Producers, Product(q, t)
      PROVE  NoLostWakeup'
  <2>0. q \in Queues
    BY DEF Queues
  <2>1. CASE pc' = [pc EXCEPT ![t] = "full"] /\ UNCHANGED queue
    BY <2>1, <1>1, <1>r, <1>t
  <2> DEFINE i == [from |-> t, n |-> sent[t] + 1]
  <2>2. CASE /\ queue' = [queue EXCEPT ![q] = Append(@, i)]
             /\ pc' \in Wake(pc, q, "empty")
    <3>1. CASE q = "m_raw_data"
      <4>1. pc'[R] # "empty"
        <5>1. CASE pc[R] = "empty"
          BY <2>2, <3>1, <5>1, RawSignalReaches
        <5>2. CASE pc[R] # "empty"
          BY <2>2, <2>0, <5>2, <1>t, <1>w
        <5> QED
          BY <5>1, <5>2
      <4> QED
        BY <4>1 DEF NoLostWakeup
    <3>2. CASE q # "m_raw_data"
      <4>1. queue'["m_raw_data"] = queue["m_raw_data"]
        BY <2>2, <3>2, <1>t DEF Queues
      <4>2. pc'[R] = "empty" => pc[R] = "empty"
        BY <2>2, <2>0, <1>t, <1>w
      <4> QED
        BY <4>1, <4>2 DEF NoLostWakeup
    <3> QED
      BY <3>1, <3>2
  <2> QED
    BY <1>3, <2>1, <2>2 DEF Product
<1>4. ASSUME NEW t \in Producers, ProductResume(t) PROVE Quiet
  <2> DEFINE f == [pc EXCEPT ![t] = "run"]
  <2>1. /\ f \in [Threads -> Pcs] /\ f[R] = pc[R]
        /\ pc' \in Wake(f, QueueOf(t), "empty") /\ QueueOf(t) \in Queues
    BY <1>4, <1>r, <1>t, <1>q DEF ProductResume, Pcs, Threads
  <2> HIDE DEF f
  <2>2. pc'[R] = "empty" => pc[R] = "empty"
    BY <2>1, <1>w
  <2> QED
    BY <1>4, <2>2 DEF ProductResume
<1>5. ASSUME NEW t \in Listeners, ConsumeReject(t) PROVE Quiet
  BY <1>5 DEF ConsumeReject
<1>6. ASSUME NEW c \in Consumers, Pop(QueueOf(c), c) PROVE NoLostWakeup'
  <2> DEFINE f == [pc EXCEPT ![c] = "got"]
  <2>1. /\ f \in [Threads -> Pcs] /\ f[R] \in {pc[R], "got"} /\ (c = R => f[R] = "got")
        /\ pc' \in Wake(f, QueueOf(c), "full") /\ QueueOf(c) \in Queues
    BY <1>6, <1>r, <1>t, <1>q DEF Pop, Pcs, Threads
  <2> HIDE DEF f
  <2>2. pc'[R] = "empty" => pc[R] = "empty" /\ c # R
    BY <2>1, <1>w
  <2>3. c # R => queue'["m_raw_data"] = queue["m_raw_data"]
    BY <1>6, <1>k, <1>t DEF Pop, Queues
  <2> QED
    BY <2>2, <2>3 DEF NoLostWakeup
<1>7. ASSUME NEW c \in Consumers, Consumer(c) PROVE NoLostWakeup'
  <2>1. CASE /\ queue[QueueOf(c)] = <<>>
             /\ pc' = [pc EXCEPT ![c] = "empty"]
             /\ UNCHANGED queue
    <3>1. CASE c = R
      BY <2>1, <3>1 DEF NoLostWakeup, QueueOf
    <3>2. CASE c # R
      BY <2>1, <3>2, <1>1, <1>t, <1>r
    <3> QED
      BY <3>1, <3>2
  <2> QED
    BY <1>6, <1>7, <2>1 DEF Consumer
<1>8. ASSUME NEW c \in Consumers, ConsumerResume(c) PROVE NoLostWakeup'
  <2>1. ASSUME NEW r, UNCHANGED queue,
               pc' \in Wake([pc EXCEPT ![c] = IF r = NULL THEN "run" ELSE "got"],
                            QueueOf(c), "full")
        PROVE  Quiet
    <3> DEFINE f == [pc EXCEPT ![c] = IF r = NULL THEN "run" ELSE "got"]
    <3>1. /\ f \in [Threads -> Pcs] /\ (f[R] = "empty" => pc[R] = "empty")
          /\ pc' \in Wake(f, QueueOf(c), "full") /\ QueueOf(c) \in Queues
      BY <2>1, <1>r, <1>t, <1>q DEF Pcs, Threads
    <3> HIDE DEF f
    <3> QED
      BY <3>1, <2>1, <1>w
  <2> QED
    BY <1>1, <1>6, <1>8, <2>1 DEF ConsumerResume
<1>9. ASSUME NEW c \in Consumers, HandOn(c) PROVE Quiet
  BY <1>9, <1>t, <1>r DEF HandOn
<1>10. ASSUME PushFails \/ GarbageCrash PROVE Quiet
  BY <1>10, <1>t, <1>r DEF PushFails, GarbageCrash
<1>11. ASSUME NEW h \in Cancellable, KillClientThread(h) PROVE Quiet
  BY <1>11, <1>t, <1>r DEF KillClientThread
<1>12. ASSUME NEW t \in Threads, SpuriousWake(t) PROVE Quiet
  BY <1>12, <1>t, <1>r DEF SpuriousWake, Woken
<1>13. CASE UNCHANGED vars
  BY <1>13, <1>1 DEF vars
<1> HIDE DEF Quiet
<1> QED
  BY <1>1, <1>2, <1>3, <1>4, <1>5, <1>7, <1>8, <1>9, <1>10, <1>11, <1>12, <1>13
     DEF Next, ProducerStep, ConsumerStep, ProductRawData, ProductExceptionData, Producers

(* threadProcessRaw never sleeps on a non-empty raw queue, for any number  *)
(* of handler threads, cancellations and spurious wakeups: the uplink      *)
(* queue has no lost wakeup.  (The shared queues do: run MqSharedLost.)    *)
THEOREM NoLostWakeupHolds == Spec => []NoLostWakeup
<1>1. Init => NoLostWakeup
  BY DEF Init, NoLostWakeup, Queues
<1>2. Spec => [](TypeInv /\ NoLostWakeup)
  BY <1>1, InitTypeInv, NextTypeInv, NextNoLostWakeup, PTL DEF Spec
<1> QED
  BY <1>2, PTL

-----------------------------------------------------------------------------
FullSleepers == {h \in Handlers : pc[h] = "full"}

(* A signal of "full" on the raw queue wakes one handler if any sleeps.    *)
LEMMA RawFullSignal ==
  ASSUME TypeInv, NEW f \in [Threads -> Pcs],
         \A h \in Handlers : f[h] = pc[h],
         \A c \in Consumers : f[c] # "full",
         NEW g \in Wake(f, "m_raw_data", "full"),
         FullSleepers # {}
  PROVE  \E u \in FullSleepers :
           {h \in Handlers : g[h] = "full"} = FullSleepers \ {u}
<1>1. Sleepers(f, "m_raw_data", "full") = FullSleepers
  <2>1. \A t \in Listeners : LockOf(QueueOf(t)) # LockOf("m_raw_data")
    BY ConstantsAssumption DEF LockOf, QueueOf, Producers, Consumers
  <2>2. \A h \in Handlers : QueueOf(h) = "m_raw_data"
    BY DEF QueueOf
  <2> QED
    BY <2>1, <2>2 DEF Sleepers, FullSleepers, Threads, Producers
<1>2. PICK u \in FullSleepers : g = [f EXCEPT ![u] = "fullWoken"]
  BY <1>1 DEF Wake, Woken
<1>3. {h \in Handlers : g[h] = "full"} = FullSleepers \ {u}
  BY <1>2 DEF FullSleepers, Threads, Producers
<1> QED
  BY <1>3

(* Every step keeps the sleeping handlers covered by what is queued.       *)
LEMMA NextSleepersCovered ==
  ASSUME Cardinality(Handlers) <= MAX_QUEUE_DATA
  PROVE  TypeInv /\ SleepersCovered /\ [Next]_vars => SleepersCovered'
<1> SUFFICES ASSUME TypeInv, SleepersCovered, [Next]_vars PROVE SleepersCovered'
  OBVIOUS
<1> DEFINE q0 == queue["m_raw_data"]
           Calm == FullSleepers' \subseteq FullSleepers /\ Len(queue'["m_raw_data"]) >= Len(q0)
<1>f. /\ IsFiniteSet(FullSleepers)
      /\ Cardinality(FullSleepers) \in Nat
      /\ IsFiniteSet(FullSleepers')
      /\ Cardinality(FullSleepers') \in Nat
      /\ Cardinality(FullSleepers') <= Cardinality(Handlers)
      /\ Cardinality(Handlers) \in Nat
  <2>1. FullSleepers \subseteq Handlers /\ FullSleepers' \subseteq Handlers
    BY DEF FullSleepers
  <2> QED
    BY <2>1, FS_Subset, FS_CardinalityType, ConstantsAssumption
<1>t. /\ pc \in [Threads -> Pcs] /\ queue \in [Queues -> Seq(Item)] /\ q0 \in Seq(Item)
      /\ MAX_QUEUE_DATA \in Nat
  BY ConstantsAssumption DEF TypeInv, TypeOK, Queues
<1>h. Handlers \subseteq Threads /\ Handlers \cap Consumers = {}
      /\ Handlers \cap Listeners = {} /\ Listeners \subseteq Threads
  BY ConstantsAssumption DEF Threads, Producers
<1>u. TypeInv'
  BY NextTypeInv
<1>s. SleepersCovered <=> Cardinality(FullSleepers) <= Len(q0)
  BY DEF SleepersCovered, FullSleepers
<1>s2. SleepersCovered' <=> Cardinality(FullSleepers') <= Len(queue'["m_raw_data"])
  BY DEF SleepersCovered, FullSleepers
<1>q. \A t \in Threads : QueueOf(t) \in Queues
  BY DEF QueueOf, Queues
<1>k. \A c \in Consumers : c # "threadProcessRaw" => QueueOf(c) # "m_raw_data"
  BY ConstantsAssumption DEF QueueOf, Consumers, Producers
<1>l. Len(q0) \in Nat /\ Len(queue'["m_raw_data"]) \in Nat
  BY <1>t, <1>u DEF TypeInv, TypeOK, Queues
<1>1. ASSUME Calm PROVE SleepersCovered'
  <2>1. Cardinality(FullSleepers') <= Cardinality(FullSleepers)
    BY <1>1, <1>f, FS_Subset
  <2> QED
    BY <2>1, <1>1, <1>f, <1>s, <1>s2, <1>l
<1>w. ASSUME NEW f \in [Threads -> Pcs], NEW q \in Queues, NEW s \in {"full", "empty"},
             pc' \in Wake(f, q, s),
             \A h \in Handlers : f[h] = "full" => pc[h] = "full"
      PROVE  FullSleepers' \subseteq FullSleepers
  BY <1>w, <1>h, WakeMoves DEF Woken, FullSleepers
<1>2. ASSUME Main \/ MainFails PROVE Calm
  BY <1>2, <1>h, <1>t, <1>l DEF FullSleepers, Main, MainFails, StartThread, StartThreadException,
                                RunServer, StartThreadRaw, Starts
<1>3. ASSUME NEW h \in Handlers, Product("m_raw_data", h) PROVE SleepersCovered'
  <2>1. CASE Len(q0) >= MAX_QUEUE_DATA /\ UNCHANGED queue
    BY <2>1, <1>f, <1>t, <1>s2, <1>l
  <2> DEFINE i == [from |-> h, n |-> sent[h] + 1]
  <2>2. CASE queue' = [queue EXCEPT !["m_raw_data"] = Append(@, i)] /\ pc' \in Wake(pc, "m_raw_data", "empty")
    <3>1. FullSleepers' \subseteq FullSleepers
      BY <2>2, <1>t, <1>w DEF Queues
    <3>2. Len(queue'["m_raw_data"]) = Len(q0) + 1
      BY <2>2, <1>t DEF Queues
    <3> QED
      BY <3>1, <3>2, <1>1, <1>l
  <2> QED
    BY <1>3, <2>1, <2>2 DEF Product
<1>4. ASSUME NEW t \in Listeners, Product("m_exception_data", t) PROVE Calm
  <2>1. Len(queue'["m_raw_data"]) = Len(q0)
    BY <1>4, <1>t DEF Product, Queues
  <2>2. FullSleepers' \subseteq FullSleepers
    <3>1. CASE pc' = [pc EXCEPT ![t] = "full"]
      BY <3>1, <1>h, <1>t DEF FullSleepers
    <3>2. CASE pc' \in Wake(pc, "m_exception_data", "empty")
      BY <3>2, <1>t, <1>w DEF Queues
    <3> QED
      BY <1>4, <3>1, <3>2 DEF Product
  <2> QED
    BY <2>1, <2>2, <1>l
<1>5. ASSUME NEW t \in Producers, ProductResume(t) PROVE Calm
  <2> DEFINE f == [pc EXCEPT ![t] = "run"]
  <2>1. /\ f \in [Threads -> Pcs] /\ \A h \in Handlers : f[h] = "full" => pc[h] = "full"
        /\ pc' \in Wake(f, QueueOf(t), "empty") /\ QueueOf(t) \in Queues
    BY <1>5, <1>t, <1>h, <1>q DEF ProductResume, Pcs, Threads
  <2> HIDE DEF f
  <2>2. FullSleepers' \subseteq FullSleepers
    BY <2>1, <1>w
  <2> QED
    BY <1>5, <2>2, <1>l DEF ProductResume
<1>6. ASSUME NEW t \in Listeners, ConsumeReject(t) PROVE Calm
  BY <1>6, <1>l DEF ConsumeReject, FullSleepers
<1>7. ASSUME NEW c \in Consumers, Pop(QueueOf(c), c) PROVE SleepersCovered'
  <2> DEFINE f == [pc EXCEPT ![c] = "got"]
  <2>1. /\ f \in [Threads -> Pcs]
        /\ \A h \in Handlers : f[h] = pc[h]
        /\ \A d \in Consumers : f[d] # "full"
        /\ pc' \in Wake(f, QueueOf(c), "full") /\ QueueOf(c) \in Queues
    BY <1>7, <1>t, <1>h, <1>q DEF Pop, Pcs, Threads, TypeInv, PcOK
  <2> HIDE DEF f
  <2>w. FullSleepers' \subseteq FullSleepers
    BY <2>1, <1>w
  <2>2. CASE QueueOf(c) # "m_raw_data"
    <3>1. queue'["m_raw_data"] = q0
      BY <1>7, <2>2, <1>t DEF Pop, Queues
    <3> QED
      BY <3>1, <2>w, <1>1, <1>l
  <2>3. CASE QueueOf(c) = "m_raw_data"
    <3>1. Len(queue'["m_raw_data"]) = Len(q0) - 1 /\ Len(q0) >= 1
      BY <1>7, <2>3, <1>t DEF Pop, Queues
    <3>2. CASE FullSleepers = {}
      <4>1. FullSleepers' = {}
        BY <3>2, <2>w
      <4>2. Cardinality(FullSleepers') = 0
        BY <4>1, FS_EmptySet
      <4> QED
        BY <4>2, <3>1, <1>s2, <1>l
    <3>3. CASE FullSleepers # {}
      <4>0. pc' \in Wake(f, "m_raw_data", "full")
        BY <2>1, <2>3
      <4>1. PICK u \in FullSleepers : {h \in Handlers : pc'[h] = "full"} = FullSleepers \ {u}
        BY ONLY <4>0, <2>1, <3>3, TypeInv, RawFullSignal
      <4>2. FullSleepers' = FullSleepers \ {u}
        BY <4>1 DEF FullSleepers
      <4>3. Cardinality(FullSleepers') = Cardinality(FullSleepers) - 1
        BY <4>2, <1>f, FS_RemoveElement
      <4> QED
        BY <4>3, <3>1, <1>f, <1>s, <1>s2, <1>l
    <3> QED
      BY <3>2, <3>3
  <2> QED
    BY <2>2, <2>3
<1>8. ASSUME NEW c \in Consumers, Consumer(c) PROVE SleepersCovered'
  <2>1. CASE pc' = [pc EXCEPT ![c] = "empty"] /\ UNCHANGED queue
    BY <2>1, <1>1, <1>h, <1>t, <1>l DEF FullSleepers
  <2> QED
    BY <1>7, <1>8, <2>1 DEF Consumer
<1>9. ASSUME NEW c \in Consumers, ConsumerResume(c) PROVE SleepersCovered'
  <2>1. ASSUME NEW r, UNCHANGED queue,
               pc' \in Wake([pc EXCEPT ![c] = IF r = NULL THEN "run" ELSE "got"],
                            QueueOf(c), "full")
        PROVE  Calm
    <3> DEFINE f == [pc EXCEPT ![c] = IF r = NULL THEN "run" ELSE "got"]
    <3>1. /\ f \in [Threads -> Pcs] /\ \A h \in Handlers : f[h] = "full" => pc[h] = "full"
          /\ pc' \in Wake(f, QueueOf(c), "full") /\ QueueOf(c) \in Queues
      BY <2>1, <1>t, <1>h, <1>q DEF Pcs, Threads
    <3> HIDE DEF f
    <3>2. FullSleepers' \subseteq FullSleepers
      BY <3>1, <1>w
    <3> QED
      BY <3>2, <2>1, <1>l
  <2> QED
    BY <1>1, <1>7, <1>9, <2>1 DEF ConsumerResume
<1>10. ASSUME NEW c \in Consumers, HandOn(c) PROVE Calm
  BY <1>10, <1>t, <1>h, <1>l DEF HandOn, FullSleepers
<1>11. ASSUME PushFails \/ GarbageCrash PROVE Calm
  BY <1>11, <1>t, <1>h, <1>l DEF PushFails, GarbageCrash, FullSleepers, Consumers
<1>12. ASSUME NEW h \in Cancellable, KillClientThread(h) PROVE Calm
  BY <1>12, <1>t, <1>h, <1>l DEF KillClientThread, FullSleepers
<1>13. ASSUME NEW t \in Threads, SpuriousWake(t) PROVE Calm
  BY <1>13, <1>t, <1>h, <1>l DEF SpuriousWake, FullSleepers, Woken
<1>14. CASE UNCHANGED vars
  BY <1>14, <1>1, <1>l DEF vars, FullSleepers
<1> HIDE DEF Calm
<1> QED
  BY <1>1, <1>2, <1>3, <1>4, <1>5, <1>6, <1>8, <1>9, <1>10, <1>11, <1>12, <1>13, <1>14
     DEF Next, ProducerStep, ConsumerStep, ProductRawData, ProductExceptionData, Producers

(* With no more handler threads than the queue has places (1000), the raw  *)
(* queue always holds at least one item per handler asleep on "full": the  *)
(* pops that are due wake all of them, so back-pressure alone never        *)
(* strands a handler thread.                                               *)
THEOREM SleepersCoveredHolds ==
  ASSUME Cardinality(Handlers) <= MAX_QUEUE_DATA
  PROVE  Spec => []SleepersCovered
<1>1. Init => SleepersCovered
  <2> SUFFICES ASSUME Init PROVE SleepersCovered
    OBVIOUS
  <2>1. {h \in Handlers : pc[h] = "full"} = {}
    <3>1. \A h \in Handlers : pc[h] = "run"
      BY DEF Init, Threads, Producers
    <3> QED
      BY <3>1
  <2>2. Len(queue["m_raw_data"]) = 0
    BY DEF Init, Queues
  <2>3. Cardinality({h \in Handlers : pc[h] = "full"}) = 0
    BY <2>1, FS_EmptySet
  <2> QED
    BY <2>2, <2>3 DEF SleepersCovered
<1>2. TypeInv /\ SleepersCovered /\ [Next]_vars => SleepersCovered'
  BY NextSleepersCovered
<1>3. Spec => [](TypeInv /\ SleepersCovered)
  BY <1>1, <1>2, InitTypeInv, NextTypeInv, PTL DEF Spec
<1> QED
  BY <1>3, PTL

-----------------------------------------------------------------------------
(* Order.  A deque s, the item h its consumer holds, what the consumer has *)
(* handed on (o) and the producers' counters st are ordered when each      *)
(* producer's numbers grow along o, h, s and none exceeds its counter.     *)
Known(a, st) == a \in Item => a.n <= st[a.from]

Ordered(s, h, o, st) ==
  /\ \A k \in DOMAIN s : Known(s[k], st) /\ Before(h, s[k])
  /\ \A j, k \in DOMAIN s : j < k => Before(s[j], s[k])
  /\ Known(h, st)
  /\ \A j \in DOMAIN o : /\ Known(o[j], st) /\ Before(o[j], h)
                         /\ \A k \in DOMAIN s : Before(o[j], s[k])
  /\ \A j, k \in DOMAIN o : j < k => Before(o[j], o[k])

OrderInv == \A c \in Consumers : Ordered(queue[QueueOf(c)], hand[c], out[c], sent)

(* An item that is not queued leaves the others in order.                  *)
LEMMA OrderedSent ==
  ASSUME NEW s, NEW h, NEW o, NEW st \in [Producers -> 0..MaxMsgs], NEW t \in Producers,
         Ordered(s, h, o, st)
  PROVE  Ordered(s, h, o, [st EXCEPT ![t] = @ + 1])
<1> DEFINE st2 == [st EXCEPT ![t] = @ + 1]
<1>1. \A a : Known(a, st) => Known(a, st2)
  BY ConstantsAssumption DEF Known, Item
<1> HIDE DEF st2
<1>2. Ordered(s, h, o, st2)
  BY <1>1 DEF Ordered
<1> QED
  BY <1>2 DEF st2

(* An item that is queued comes behind its producer's earlier ones.        *)
LEMMA OrderedPush ==
  ASSUME NEW s \in Seq(Item), NEW h, NEW o, NEW st \in [Producers -> 0..MaxMsgs],
         NEW t \in Producers, Ordered(s, h, o, st), st[t] < MaxMsgs
  PROVE  Ordered(Append(s, [from |-> t, n |-> st[t] + 1]), h, o, [st EXCEPT ![t] = @ + 1])
<1> DEFINE i == [from |-> t, n |-> st[t] + 1]
           st2 == [st EXCEPT ![t] = @ + 1]
<1>1. i \in Item /\ i.from = t /\ i.n = st[t] + 1
  BY ConstantsAssumption DEF Item
<1>2. \A a : Known(a, st) => Before(a, i)
  <2> SUFFICES ASSUME NEW a \in Item, a.n <= st[t], a.from = t PROVE a.n < st[t] + 1
    BY <1>1 DEF Known, Before
  <2> QED
    BY DEF Item
<1>3. Known(i, st2)
  BY <1>1 DEF Known
<1>4. Ordered(s, h, o, st2)
  BY OrderedSent
<1> HIDE DEF i, st2
<1>5. /\ DOMAIN Append(s, i) = DOMAIN s \cup {Len(s) + 1}
      /\ Append(s, i)[Len(s) + 1] = i
      /\ \A k \in DOMAIN s : Append(s, i)[k] = s[k] /\ k < Len(s) + 1 /\ ~(Len(s) + 1 < k)
      /\ ~(Len(s) + 1 < Len(s) + 1)
  BY <1>1
<1>6. \A k \in DOMAIN Append(s, i) : Known(Append(s, i)[k], st2) /\ Before(h, Append(s, i)[k])
  BY <1>2, <1>3, <1>4, <1>5 DEF Ordered
<1>7. \A j, k \in DOMAIN Append(s, i) : j < k => Before(Append(s, i)[j], Append(s, i)[k])
  BY <1>2, <1>4, <1>5 DEF Ordered
<1>8. \A j \in DOMAIN o : \A k \in DOMAIN Append(s, i) : Before(o[j], Append(s, i)[k])
  BY <1>2, <1>4, <1>5 DEF Ordered
<1>9. Ordered(Append(s, i), h, o, st2)
  BY <1>4, <1>6, <1>7, <1>8 DEF Ordered
<1> QED
  BY <1>9 DEF i, st2

(* An item that is taken is before those left in the deque.                *)
LEMMA OrderedPop ==
  ASSUME NEW s \in Seq(Item), s # <<>>, NEW h, NEW o, NEW st, Ordered(s, h, o, st)
  PROVE  Ordered(Tail(s), Head(s), o, st)
<1>1. /\ 1 \in DOMAIN s /\ Head(s) = s[1]
      /\ \A k \in DOMAIN Tail(s) : Tail(s)[k] = s[k + 1] /\ k + 1 \in DOMAIN s /\ 1 < k + 1
      /\ \A j, k \in DOMAIN Tail(s) : j < k => j + 1 < k + 1
  OBVIOUS
<1> QED
  BY <1>1 DEF Ordered

(* What is no item may be held at any time.                                *)
LEMMA OrderedForget ==
  ASSUME NEW s, NEW h, NEW o, NEW st, Ordered(s, h, o, st), NEW r, r \notin Item
  PROVE  Ordered(s, r, o, st)
  BY DEF Ordered, Known, Before

(* An item that is handed on comes behind those handed on before.          *)
LEMMA OrderedHandOn ==
  ASSUME NEW s, NEW T, NEW h \in T, NEW o \in Seq(T), NEW st, Ordered(s, h, o, st)
  PROVE  Ordered(s, NULL, Append(o, h), st)
<1>1. /\ DOMAIN Append(o, h) = DOMAIN o \cup {Len(o) + 1}
      /\ Append(o, h)[Len(o) + 1] = h
      /\ \A k \in DOMAIN o : Append(o, h)[k] = o[k] /\ ~(Len(o) + 1 < k)
      /\ ~(Len(o) + 1 < Len(o) + 1)
  OBVIOUS
<1>2. \A a : Before(NULL, a) /\ Before(a, NULL) /\ Known(NULL, st)
  BY ConstantsAssumption DEF Before, Known
<1>3. \A j \in DOMAIN Append(o, h) :
        /\ Known(Append(o, h)[j], st)
        /\ \A k \in DOMAIN s : Before(Append(o, h)[j], s[k])
  BY <1>1 DEF Ordered
<1>4. \A j, k \in DOMAIN Append(o, h) : j < k => Before(Append(o, h)[j], Append(o, h)[k])
  BY <1>1 DEF Ordered
<1> QED
  BY <1>2, <1>3, <1>4 DEF Ordered

(* Every step keeps the order of what each consumer hands on.              *)
LEMMA NextOrderInv == TypeInv /\ OrderInv /\ [Next]_vars => OrderInv'
<1> SUFFICES ASSUME TypeInv, OrderInv, [Next]_vars PROVE OrderInv'
  OBVIOUS
<1> DEFINE O(c) == Ordered(queue[QueueOf(c)], hand[c], out[c], sent)
           Same(c) == /\ queue'[QueueOf(c)] = queue[QueueOf(c)]
                      /\ hand'[c] = hand[c] /\ out'[c] = out[c]
<1>o. \A c \in Consumers : O(c)
  BY DEF OrderInv
<1>q. \A t \in Threads : QueueOf(t) \in Queues
  BY DEF QueueOf, Queues
<1>d. \A c, d \in Consumers : QueueOf(c) = QueueOf(d) => c = d
  BY ConstantsAssumption DEF QueueOf, Consumers, Producers
<1>c. Consumers \subseteq Threads /\ Producers \subseteq Threads
  BY DEF Threads
<1>t. /\ queue \in [Queues -> Seq(Item)] /\ hand \in [Threads -> MaybeItem]
      /\ sent \in [Producers -> 0..MaxMsgs] /\ out \in [Consumers -> Seq(Item \cup {Garbage})]
  BY DEF TypeInv, TypeOK
<1>p. \A t \in Producers : t \notin Consumers
  BY ConstantsAssumption
<1>s. ASSUME \A c \in Consumers : Same(c), UNCHANGED sent PROVE OrderInv'
  BY <1>s, <1>o DEF OrderInv
<1> HIDE DEF O
<1>1. CASE Main \/ MainFails \/ GarbageCrash \/ UNCHANGED vars
  BY <1>1, <1>s DEF Main, MainFails, StartThread, StartThreadException, RunServer,
                    StartThreadRaw, Starts, GarbageCrash, vars
<1>2. ASSUME NEW q \in Queues, NEW t \in Producers, Product(q, t) PROVE OrderInv'
  <2> SUFFICES ASSUME NEW c \in Consumers
               PROVE  Ordered(queue'[QueueOf(c)], hand'[c], out'[c], sent')
    BY DEF OrderInv
  <2>1. /\ hand'[c] = hand[c] /\ out'[c] = out[c]
        /\ sent' = [sent EXCEPT ![t] = @ + 1] /\ sent[t] < MaxMsgs
    BY <1>2, <1>p, <1>t, <1>c DEF Product
  <2>2. CASE queue'[QueueOf(c)] = queue[QueueOf(c)]
    BY <2>1, <2>2, <1>o, <1>t, OrderedSent DEF O
  <2>3. CASE queue'[QueueOf(c)] # queue[QueueOf(c)]
    <3>1. queue'[QueueOf(c)] = Append(queue[QueueOf(c)], [from |-> t, n |-> sent[t] + 1])
      BY <1>2, <2>3, <1>t, <1>q, <1>c DEF Product
    <3>2. queue[QueueOf(c)] \in Seq(Item)
      BY <1>t, <1>q, <1>c
    <3>3. Ordered(Append(queue[QueueOf(c)], [from |-> t, n |-> sent[t] + 1]),
                  hand[c], out[c], [sent EXCEPT ![t] = @ + 1])
      <4> DEFINE s == queue[QueueOf(c)]
                 h == hand[c]
                 o == out[c]
      <4>1. Ordered(s, h, o, sent) /\ s \in Seq(Item)
        BY <1>o, <3>2 DEF O
      <4> HIDE DEF s, h, o
      <4>2. Ordered(Append(s, [from |-> t, n |-> sent[t] + 1]), h, o, [sent EXCEPT ![t] = @ + 1])
        BY ONLY <4>1, <2>1, <1>t, OrderedPush
      <4> QED
        BY <4>2 DEF s, h, o
    <3> QED
      BY <2>1, <3>1, <3>3
  <2> QED
    BY <2>2, <2>3
<1>3. ASSUME NEW t \in Producers, ProductResume(t) PROVE OrderInv'
  BY <1>3, <1>s, <1>p, <1>t, <1>c DEF ProductResume
<1>4. ASSUME NEW t \in Listeners, ConsumeReject(t) PROVE OrderInv'
  <2>1. t \in Producers
    BY DEF Producers
  <2> QED
    BY <1>4, <2>1, <1>o, <1>t, OrderedSent DEF ConsumeReject, OrderInv, O
<1>5. ASSUME NEW c \in Consumers, Pop(QueueOf(c), c), UNCHANGED <<out, sent>> PROVE OrderInv'
  <2> SUFFICES ASSUME NEW d \in Consumers
               PROVE  Ordered(queue'[QueueOf(d)], hand'[d], out'[d], sent')
    BY DEF OrderInv
  <2>1. CASE d = c
    <3>1. /\ queue[QueueOf(c)] \in Seq(Item) /\ queue[QueueOf(c)] # <<>>
          /\ queue'[QueueOf(c)] = Tail(queue[QueueOf(c)])
          /\ hand'[c] = Head(queue[QueueOf(c)])
      BY <1>5, <1>t, <1>q, <1>c DEF Pop
    <3> QED
      BY <2>1, <3>1, <1>5, <1>o, OrderedPop DEF O
  <2>2. CASE d # c
    BY <2>2, <1>5, <1>o, <1>t, <1>q, <1>c, <1>d DEF Pop, O
  <2> QED
    BY <2>1, <2>2
<1>6. ASSUME NEW c \in Consumers, Consumer(c) PROVE OrderInv'
  <2>1. CASE UNCHANGED <<queue, hand, out, sent>>
    BY <2>1, <1>s
  <2> QED
    BY <1>5, <1>6, <2>1 DEF Consumer
<1>7. ASSUME NEW c \in Consumers, UNCHANGED <<queue, out, sent>>, NEW r,
             r \notin Item, hand' = [hand EXCEPT ![c] = r]
      PROVE  OrderInv'
  <2> SUFFICES ASSUME NEW d \in Consumers
               PROVE  Ordered(queue'[QueueOf(d)], hand'[d], out'[d], sent')
    BY DEF OrderInv
  <2>1. CASE d = c
    BY <2>1, <1>7, <1>o, <1>t, <1>c, OrderedForget DEF O
  <2>2. CASE d # c
    BY <2>2, <1>7, <1>o, <1>t, <1>c DEF O
  <2> QED
    BY <2>1, <2>2
<1>8. ASSUME NEW c \in Consumers, ConsumerResume(c) PROVE OrderInv'
  <2>1. ASSUME NEW r \in EmptyReturn(QueueOf(c)), hand' = [hand EXCEPT ![c] = r],
               UNCHANGED <<queue, out, sent>>
        PROVE  OrderInv'
    BY <2>1, <1>7, ConstantsAssumption DEF EmptyReturn
  <2> QED
    BY <1>5, <1>8, <2>1 DEF ConsumerResume
<1>9. ASSUME NEW c \in Consumers, HandOn(c) PROVE OrderInv'
  <2> SUFFICES ASSUME NEW d \in Consumers
               PROVE  Ordered(queue'[QueueOf(d)], hand'[d], out'[d], sent')
    BY DEF OrderInv
  <2>1. hand[c] \in Item \cup {Garbage} /\ out[c] \in Seq(Item \cup {Garbage})
    BY <1>9, <1>t, <1>c DEF HandOn, TypeInv, PcOK, MaybeItem
  <2>2. CASE d = c
    <3>1. hand'[d] = NULL /\ out'[d] = Append(out[c], hand[c])
      BY <2>2, <1>9, <1>t, <1>c DEF HandOn
    <3>2. queue' = queue /\ sent' = sent
      BY <1>9 DEF HandOn
    <3>3. Ordered(queue[QueueOf(c)], NULL, Append(out[c], hand[c]), sent)
      BY <2>1, <1>o, OrderedHandOn DEF O
    <3> QED
      BY <2>2, <3>1, <3>2, <3>3
  <2>3. CASE d # c
    BY <2>3, <1>9, <1>o, <1>t, <1>c DEF HandOn, O
  <2> QED
    BY <2>2, <2>3
<1>10. CASE PushFails
  <2>1. "threadProcessRaw" \in Consumers
    BY DEF Consumers
  <2> QED
    BY <1>10, <2>1, <1>7, ConstantsAssumption DEF PushFails
<1>11. ASSUME NEW h \in Cancellable, KillClientThread(h) PROVE OrderInv'
  BY <1>11, <1>s DEF KillClientThread
<1>12. ASSUME NEW t \in Threads, SpuriousWake(t) PROVE OrderInv'
  BY <1>12, <1>s DEF SpuriousWake
<1> QED
  BY <1>1, <1>2, <1>3, <1>4, <1>6, <1>8, <1>9, <1>10, <1>11, <1>12
     DEF Next, ProducerStep, ConsumerStep, ProductRawData, ProductExceptionData, Producers, Queues

(* What pushMessage and dispatchOneMessage are given is, for each handler  *)
(* and each listener, in the order it was received and without a repeat,   *)
(* for any number of threads and messages and any capacity.                *)
THEOREM HandedOnInOrderHolds == Spec => []HandedOnInOrder
<1>1. Init => OrderInv
  BY ConstantsAssumption
     DEF Init, OrderInv, Ordered, Known, Before, Queues, QueueOf, Threads
<1>2. OrderInv => HandedOnInOrder
  BY DEF OrderInv, Ordered, HandedOnInOrder
<1>3. Spec => [](TypeInv /\ OrderInv)
  BY <1>1, InitTypeInv, NextTypeInv, NextOrderInv, PTL DEF Spec
<1> QED
  BY <1>2, <1>3, PTL

-----------------------------------------------------------------------------
(* x occurs in one of the sequences of Q; no member of T occurs twice.     *)
Occurs(Q, x) == \E a \in DOMAIN Q : \E j \in DOMAIN Q[a] : Q[a][j] = x
Once(Q, T) ==
  \A a, b \in DOMAIN Q : \A j \in DOMAIN Q[a], k \in DOMAIN Q[b] :
    Q[a][j] = Q[b][k] /\ Q[a][j] \in T => a = b /\ j = k

(* x, new if it is a member of T, goes to the end of the sequence Q[a].    *)
Push(X, S, T, Q, a, x, R) ==
  /\ Q \in [X -> Seq(S)] /\ a \in X /\ x \in S
  /\ R = [Q EXCEPT ![a] = Append(@, x)]
  /\ Once(Q, T) /\ (x \in T => ~Occurs(Q, x))

(* A new item in a deque is there once.                                    *)
LEMMA OncePush ==
  ASSUME NEW X, NEW S, NEW T, NEW Q, NEW a, NEW x, NEW R, Push(X, S, T, Q, a, x, R)
  PROVE  Once(R, T) /\ \A y \in S : Occurs(R, y) <=> (Occurs(Q, y) \/ y = x)
<1>1. /\ DOMAIN Q = X /\ DOMAIN R = X /\ \A b \in X \ {a} : R[b] = Q[b]
      /\ R[a] = Append(Q[a], x) /\ (\A b \in X : Q[b] \in Seq(S)) /\ x \in S /\ a \in X
      /\ Once(Q, T) /\ (x \in T => ~Occurs(Q, x))
  BY DEF Push
<1>2. /\ DOMAIN Q[a] = 1..Len(Q[a]) /\ Len(Q[a]) \in Nat
      /\ DOMAIN R[a] = 1..(Len(Q[a]) + 1)
      /\ \A j \in DOMAIN Q[a] : R[a][j] = Q[a][j]
      /\ R[a][Len(Q[a]) + 1] = x
  BY <1>1
<1>3. \A b \in X : \A j \in DOMAIN R[b] :
        \/ j \in DOMAIN Q[b] /\ R[b][j] = Q[b][j]
        \/ b = a /\ j = Len(Q[a]) + 1 /\ R[b][j] = x
  BY <1>1, <1>2
<1>o. \A b, c \in X : \A j \in DOMAIN Q[b], k \in DOMAIN Q[c] :
        Q[b][j] = Q[c][k] /\ Q[b][j] \in T => b = c /\ j = k
  BY <1>1 DEF Once
<1>4. Once(R, T)
  <2> SUFFICES ASSUME NEW b \in X, NEW c \in X, NEW j \in DOMAIN R[b], NEW k \in DOMAIN R[c],
                      R[b][j] = R[c][k], R[b][j] \in T
               PROVE  b = c /\ j = k
    BY <1>1 DEF Once
  <2>1. CASE j \in DOMAIN Q[b] /\ R[b][j] = Q[b][j] /\ k \in DOMAIN Q[c] /\ R[c][k] = Q[c][k]
    BY <1>o, <2>1, ZenonT(60)
  <2>2. CASE j \in DOMAIN Q[b] /\ R[b][j] = Q[b][j] /\ R[c][k] = x
    BY <1>1, <2>2 DEF Occurs
  <2>3. CASE k \in DOMAIN Q[c] /\ R[c][k] = Q[c][k] /\ R[b][j] = x
    BY <1>1, <2>3 DEF Occurs
  <2> QED
    BY <1>3, <2>1, <2>2, <2>3
<1>5. ASSUME NEW y, Occurs(R, y) PROVE Occurs(Q, y) \/ y = x
  BY <1>1, <1>3, <1>5 DEF Occurs
<1>6. ASSUME NEW y, Occurs(Q, y) PROVE Occurs(R, y)
  <2>1. PICK b \in X : \E j \in DOMAIN Q[b] : Q[b][j] = y
    BY <1>1, <1>6 DEF Occurs
  <2>2. PICK j \in DOMAIN Q[b] : Q[b][j] = y
    BY <2>1
  <2>3. j \in DOMAIN R[b] /\ R[b][j] = y
    BY <1>1, <1>2, <2>2
  <2> QED
    BY <1>1, <2>3 DEF Occurs
<1>7. Occurs(R, x)
  <2>1. Len(Q[a]) + 1 \in DOMAIN R[a]
    BY <1>2
  <2> QED
    BY <1>1, <1>2, <2>1 DEF Occurs
<1> QED
  BY <1>4, <1>5, <1>6, <1>7

(* An item that is taken is in no deque any more.                          *)
LEMMA OncePop ==
  ASSUME NEW X, NEW T, NEW Q \in [X -> Seq(T)], NEW a \in X, Q[a] # <<>>,
         NEW R, R = [Q EXCEPT ![a] = Tail(@)], Once(Q, T)
  PROVE  Once(R, T) /\ \A y \in T : Occurs(R, y) <=> (Occurs(Q, y) /\ y # Head(Q[a]))
<1>1. /\ DOMAIN Q = X /\ DOMAIN R = X /\ \A b \in X \ {a} : R[b] = Q[b]
      /\ R[a] = Tail(Q[a]) /\ \A b \in X : Q[b] \in Seq(T)
  OBVIOUS
<1>2. /\ DOMAIN Q[a] = 1..Len(Q[a]) /\ Len(Q[a]) \in Nat \ {0}
      /\ DOMAIN R[a] = 1..(Len(Q[a]) - 1)
      /\ \A j \in DOMAIN R[a] : j + 1 \in DOMAIN Q[a] /\ R[a][j] = Q[a][j + 1] /\ j \in Nat
      /\ Head(Q[a]) = Q[a][1] /\ 1 \in DOMAIN Q[a]
  BY <1>1
<1>o. \A b, c \in X : \A j \in DOMAIN Q[b], k \in DOMAIN Q[c] :
        Q[b][j] = Q[c][k] /\ Q[b][j] \in T => b = c /\ j = k
  BY <1>1 DEF Once
<1>m. \A b \in X : \A j \in DOMAIN Q[b] : Q[b][j] \in T
  BY <1>1
<1>3. Once(R, T)
  <2> SUFFICES ASSUME NEW b \in X, NEW c \in X, NEW j \in DOMAIN R[b], NEW k \in DOMAIN R[c],
                      R[b][j] = R[c][k], R[b][j] \in T
               PROVE  b = c /\ j = k
    BY <1>1 DEF Once
  <2>1. CASE b # a /\ c # a
    BY <1>1, <1>o, <2>1
  <2>2. CASE b = a /\ c # a
    BY <1>1, <1>2, <1>o, <2>2
  <2>3. CASE b # a /\ c = a
    BY <1>1, <1>2, <1>o, <2>3
  <2>4. CASE b = a /\ c = a
    <3>1. j + 1 = k + 1
      BY <1>2, <1>o, <2>4
    <3> QED
      BY <1>2, <2>4, <3>1
  <2> QED
    BY <2>1, <2>2, <2>3, <2>4
<1>4. ASSUME NEW y \in T, Occurs(R, y) PROVE Occurs(Q, y) /\ y # Head(Q[a])
  <2>1. PICK b \in X : \E j \in DOMAIN R[b] : R[b][j] = y
    BY <1>1, <1>4 DEF Occurs
  <2>2. PICK j \in DOMAIN R[b] : R[b][j] = y
    BY <2>1
  <2>3. CASE b = a
    <3>1. j + 1 \in DOMAIN Q[a] /\ Q[a][j + 1] = y /\ j + 1 # 1
      BY <1>2, <2>2, <2>3
    <3>2. Q[a][1] # y
      BY <1>2, <1>o, <3>1
    <3> QED
      BY <1>1, <1>2, <3>1, <3>2 DEF Occurs
  <2>4. CASE b # a
    <3>1. j \in DOMAIN Q[b] /\ Q[b][j] = y
      BY <1>1, <2>2, <2>4
    <3>2. Q[a][1] # y
      BY <1>2, <1>o, <2>4, <3>1
    <3> QED
      BY <1>1, <1>2, <3>1, <3>2 DEF Occurs
  <2> QED
    BY <2>3, <2>4
<1>5. ASSUME NEW y \in T, Occurs(Q, y), y # Head(Q[a]) PROVE Occurs(R, y)
  <2>1. PICK b \in X : \E j \in DOMAIN Q[b] : Q[b][j] = y
    BY <1>1, <1>5 DEF Occurs
  <2>2. PICK j \in DOMAIN Q[b] : Q[b][j] = y
    BY <2>1
  <2>3. CASE b = a
    <3>1. j - 1 \in DOMAIN R[a] /\ (j - 1) + 1 = j
      BY <1>2, <1>5, <2>2, <2>3
    <3>2. R[a][j - 1] = y
      BY <1>2, <2>2, <2>3, <3>1
    <3> QED
      BY <1>1, <3>1, <3>2 DEF Occurs
  <2>4. CASE b # a
    BY <1>1, <2>2, <2>4 DEF Occurs
  <2> QED
    BY <2>3, <2>4
<1> QED
  BY <1>3, <1>4, <1>5

(* A thread that is not inside a call holds nothing; a thread that main()  *)
(* has not started is off.                                                 *)
HandInv ==
  /\ \A t \in Threads : pc[t] \in {"off", "run", "empty", "emptyWoken"} => hand[t] = NULL
  /\ boot <= 0 => pc["threadProcess"] = "off"
  /\ boot <= 1 => pc["threadProcessException"] = "off"
  /\ boot <= 2 => \A t \in Listeners : pc[t] = "off"
  /\ boot <= 3 => pc["threadProcessRaw"] = "off"

(* Every step keeps the threads outside a call empty-handed.               *)
LEMMA NextHandInv == TypeInv /\ HandInv /\ [Next]_vars => HandInv'
<1> SUFFICES ASSUME TypeInv, HandInv, [Next]_vars PROVE HandInv'
  OBVIOUS
<1>t. /\ pc \in [Threads -> Pcs] /\ hand \in [Threads -> MaybeItem] /\ boot \in 0..4
      /\ Consumers \subseteq Threads /\ Producers \subseteq Threads /\ Listeners \subseteq Threads
      /\ {"threadProcess", "threadProcessException", "threadProcessRaw"} \subseteq Threads
      /\ \A t \in Threads : QueueOf(t) \in Queues
  BY DEF TypeInv, TypeOK, Threads, Producers, Consumers, QueueOf, Queues
<1> DEFINE Idle == {"off", "run", "empty", "emptyWoken"}
           Empties(f) == \A t \in Threads : f[t] \in Idle => hand'[t] = NULL
           Moves(f) == \A t \in Threads : (pc[t] = "off" <=> f[t] = "off")
<1>p. ASSUME NEW f \in [Threads -> Pcs], NEW q \in Queues, NEW s \in {"full", "empty"},
             pc' \in Wake(f, q, s), Empties(f), Moves(f), UNCHANGED boot
      PROVE  HandInv'
  <2>1. \A t \in Threads : pc'[t] = f[t] \/ (f[t] = s /\ pc'[t] = Woken(s))
    BY <1>p, WakeMoves
  <2>2. Empties(pc') /\ Moves(pc')
    BY <1>p, <2>1 DEF Woken
  <2> QED
    BY <1>p, <1>t, <2>2 DEF HandInv
<1>s. ASSUME Empties(pc'), Moves(pc'), UNCHANGED boot PROVE HandInv'
  BY <1>s, <1>t DEF HandInv
<1>1. CASE Main
  <2>1. ASSUME NEW k \in 0..3, NEW ts, Starts(k, ts), \A t \in ts : t \in Threads /\ pc[t] = "off"
        PROVE  /\ Empties(pc') /\ boot' = k + 1 /\ boot = k
               /\ \A t \in Threads \ ts : pc'[t] = pc[t]
    BY <1>t, <2>1 DEF Starts, HandInv
  <2>2. CASE StartThread
    BY <1>t, <2>1, <2>2, ConstantsAssumption DEF StartThread, HandInv, Starts, Consumers, Producers
  <2>3. CASE StartThreadException
    BY <1>t, <2>1, <2>3, ConstantsAssumption DEF StartThreadException, HandInv, Starts, Consumers, Producers
  <2>4. CASE RunServer
    BY <1>t, <2>1, <2>4, ConstantsAssumption DEF RunServer, HandInv, Starts, Consumers, Producers
  <2>5. CASE StartThreadRaw
    BY <1>t, <2>1, <2>5, ConstantsAssumption DEF StartThreadRaw, HandInv, Starts, Consumers, Producers
  <2> QED
    BY <1>1, <2>2, <2>3, <2>4, <2>5 DEF Main
<1>2. CASE MainFails \/ GarbageCrash \/ UNCHANGED vars
  BY <1>2 DEF MainFails, GarbageCrash, vars, HandInv
<1>3. ASSUME NEW q \in Queues, NEW t \in Producers, Product(q, t) PROVE HandInv'
  <2>1. CASE UNCHANGED hand
    <3>1. Empties(pc)
      BY <2>1 DEF HandInv
    <3>2. CASE pc' \in Wake(pc, q, "empty")
      BY <1>3, <1>p, <1>t, <3>1, <3>2 DEF Product
    <3>3. CASE pc' = [pc EXCEPT ![t] = "full"]
      <4>1. Empties(pc') /\ Moves(pc')
        BY <1>3, <1>t, <3>1, <3>3 DEF Product
      <4> QED
        BY <1>3, <1>s, <4>1 DEF Product
    <3> QED
      BY <1>3, <3>2, <3>3 DEF Product
  <2>2. CASE pc' = [pc EXCEPT ![t] = "full"] /\ \E i : hand' = [hand EXCEPT ![t] = i]
    <3>1. Empties(pc') /\ Moves(pc')
      BY <1>3, <1>t, <2>2 DEF Product, HandInv
    <3> QED
      BY <1>3, <1>s, <3>1 DEF Product
  <2> QED
    BY <1>3, <2>1, <2>2 DEF Product
<1>4. ASSUME NEW t \in Producers, ProductResume(t) PROVE HandInv'
  <2>1. PICK f : f = [pc EXCEPT ![t] = "run"] OBVIOUS
  <2>2. f \in [Threads -> Pcs] /\ pc' \in Wake(f, QueueOf(t), "empty") /\ QueueOf(t) \in Queues
    BY <1>4, <1>t, <2>1 DEF ProductResume, Pcs
  <2>3. Empties(f) /\ Moves(f)
    BY <1>4, <1>t, <2>1 DEF ProductResume, HandInv
  <2> QED
    BY <1>4, <1>p, <2>2, <2>3 DEF ProductResume
<1>5. ASSUME NEW t \in Listeners, ConsumeReject(t) PROVE HandInv'
  BY <1>5 DEF ConsumeReject, HandInv
<1>6. ASSUME NEW c \in Consumers, NEW r, hand' = [hand EXCEPT ![c] = r], UNCHANGED boot,
             NEW z \in {"run", "got"}, z = "run" => r = NULL, pc[c] # "off",
             pc' \in Wake([pc EXCEPT ![c] = z], QueueOf(c), "full")
      PROVE HandInv'
  <2>1. PICK f : f = [pc EXCEPT ![c] = z] OBVIOUS
  <2>2. f \in [Threads -> Pcs] /\ pc' \in Wake(f, QueueOf(c), "full") /\ QueueOf(c) \in Queues
    BY <1>6, <1>t, <2>1 DEF Pcs
  <2>3. Empties(f) /\ Moves(f)
    BY <1>6, <1>t, <2>1 DEF HandInv
  <2> QED
    BY <1>6, <1>p, <2>2, <2>3
<1>7. ASSUME NEW c \in Consumers, Consumer(c) PROVE HandInv'
  <2>1. CASE pc' = [pc EXCEPT ![c] = "empty"] /\ UNCHANGED <<queue, hand>>
    <3>1. Empties(pc') /\ Moves(pc')
      BY <1>7, <1>t, <2>1 DEF Consumer, HandInv
    <3> QED
      BY <1>7, <1>s, <3>1 DEF Consumer
  <2>2. CASE Pop(QueueOf(c), c)
    BY <1>6, <1>7, <2>2 DEF Consumer, Pop
  <2> QED
    BY <1>7, <2>1, <2>2 DEF Consumer
<1>8. ASSUME NEW c \in Consumers, ConsumerResume(c) PROVE HandInv'
  <2>1. CASE Pop(QueueOf(c), c)
    BY <1>6, <1>8, <2>1 DEF ConsumerResume, Pop
  <2>2. ASSUME NEW r \in EmptyReturn(QueueOf(c)),
               hand' = [hand EXCEPT ![c] = r],
               pc' \in Wake([pc EXCEPT ![c] = IF r = NULL THEN "run" ELSE "got"],
                            QueueOf(c), "full")
        PROVE  HandInv'
    <3>1. PICK z \in {"run", "got"} : z = IF r = NULL THEN "run" ELSE "got"
      OBVIOUS
    <3>2. UNCHANGED boot /\ pc[c] # "off"
      BY <1>8 DEF ConsumerResume
    <3>3. pc' \in Wake([pc EXCEPT ![c] = z], QueueOf(c), "full") /\ (z = "run" => r = NULL)
      BY <2>2, <3>1
    <3> QED
      BY <1>6, <2>2, <3>2, <3>3
  <2> QED
    BY <1>8, <2>1, <2>2 DEF ConsumerResume
<1>9. ASSUME NEW c \in Consumers, HandOn(c) \/ (c = "threadProcessRaw" /\ PushFails) PROVE HandInv'
  <2>1. /\ hand' = [hand EXCEPT ![c] = NULL] /\ pc' = [pc EXCEPT ![c] = "run"] /\ UNCHANGED boot
        /\ pc[c] = "got"
    BY <1>9 DEF HandOn, PushFails
  <2>2. Empties(pc') /\ Moves(pc')
    BY <1>t, <2>1 DEF HandInv
  <2> QED
    BY <1>s, <2>1, <2>2
<1>10. CASE PushFails
  BY <1>9, <1>10 DEF Consumers
<1>11. ASSUME NEW h \in Cancellable, KillClientThread(h) PROVE HandInv'
  <2>1. h \in Threads
    BY ConstantsAssumption DEF Threads, Producers
  <2>2. Empties(pc') /\ Moves(pc')
    BY <1>11, <1>t, <2>1 DEF KillClientThread, HandInv
  <2> QED
    BY <1>11, <1>s, <2>2 DEF KillClientThread
<1>12. ASSUME NEW t \in Threads, SpuriousWake(t) PROVE HandInv'
  <2>1. Empties(pc') /\ Moves(pc')
    BY <1>12, <1>t DEF SpuriousWake, HandInv, Woken
  <2> QED
    BY <1>12, <1>s, <2>1 DEF SpuriousWake
<1> QED
  BY <1>1, <1>2, <1>3, <1>4, <1>5, <1>7, <1>8, <1>9, <1>10, <1>11, <1>12
     DEF Next, ProducerStep, ConsumerStep, ProductRawData, ProductExceptionData, Producers, Queues

(* Item i is at place p, and nowhere else; p says which kind of place.     *)
PlaceNames == {"nowhere", "queue", "out", "hand", "dropped", "rejected", "failed"}
Held(i) == \E t \in Threads : hand[t] = i

IsAt(i, p) ==
  /\ ~(i.n <= sent[i.from]) <=> p = "nowhere"
  /\ Occurs(queue, i) <=> p = "queue"
  /\ Occurs(out, i) <=> p = "out"
  /\ Held(i) <=> p = "hand"
  /\ i \in dropped <=> p = "dropped"
  /\ i \in rejected <=> p = "rejected"
  /\ i \in failed <=> p = "failed"

(* Of each kind, an item is in one place at most.                          *)
OneEach ==
  /\ Once(queue, Item)
  /\ Once(out, Item)
  /\ \A t, u \in Threads : hand[t] = hand[u] /\ hand[t] \in Item => t = u

AccountedInv == OneEach /\ \A i \in Item : \E p \in PlaceNames : IsAt(i, p)

(* Every step moves an item from one place to one other.                   *)
LEMMA NextAccountedInv ==
  ASSUME TypeInv, HandInv, AccountedInv, [Next]_vars
  PROVE  AccountedInv'
<1>t. /\ pc \in [Threads -> Pcs] /\ hand \in [Threads -> MaybeItem] /\ boot \in 0..4
      /\ queue \in [Queues -> Seq(Item)] /\ out \in [Consumers -> Seq(Item \cup {Garbage})]
      /\ sent \in [Producers -> 0..MaxMsgs]
      /\ Consumers \subseteq Threads /\ Producers \subseteq Threads
      /\ \A t \in Threads : QueueOf(t) \in Queues
      /\ NULL \notin Item /\ Garbage \notin Item /\ MaxMsgs \in Nat
  BY ConstantsAssumption DEF TypeInv, TypeOK, Threads, QueueOf, Queues
<1> DEFINE SentKept(i) == i.n <= sent'[i.from] <=> i.n <= sent[i.from]
           Kept(i) == /\ SentKept(i)
                      /\ Occurs(queue, i)' <=> Occurs(queue, i)
                      /\ Occurs(out, i)' <=> Occurs(out, i)
                      /\ Held(i)' <=> Held(i)
                      /\ i \in dropped' <=> i \in dropped
                      /\ i \in rejected' <=> i \in rejected
                      /\ i \in failed' <=> i \in failed
<1>k. ASSUME NEW i \in Item, Kept(i) PROVE \E p \in PlaceNames : IsAt(i, p)'
  <2>1. PICK p \in PlaceNames : IsAt(i, p)
    BY DEF AccountedInv
  <2>2. IsAt(i, p)'
    BY <1>k, <2>1 DEF IsAt
  <2> QED
    BY <2>2
<1>m. ASSUME NEW i \in Item, NEW q \in PlaceNames, IsAt(i, q)',
             OneEach', \A j \in Item \ {i} : Kept(j)
      PROVE  AccountedInv'
  BY <1>k, <1>m DEF AccountedInv
<1> DEFINE Quiet == UNCHANGED <<queue, hand, out, sent, dropped, rejected, failed>>
<1>z. Quiet => AccountedInv'
  <2> SUFFICES ASSUME Quiet PROVE AccountedInv'
    OBVIOUS
  <2> QED
    BY DEF AccountedInv, OneEach, IsAt, Occurs, Held, Once
(* How the two parts of a step change the hands.                           *)
<1>h. ASSUME NEW t \in Threads, hand[t] \notin Item, NEW i \in Item, ~Held(i),
             hand' = [hand EXCEPT ![t] = i], OneEach
      PROVE  /\ Held(i)' /\ \A j \in Item \ {i} : Held(j)' <=> Held(j)
             /\ \A u, v \in Threads : hand'[u] = hand'[v] /\ hand'[u] \in Item => u = v
  <2>1. hand'[t] = i /\ \A u \in Threads \ {t} : hand'[u] = hand[u]
    BY <1>h, <1>t
  <2>2. \A u \in Threads : hand[u] # i
    BY <1>h DEF Held
  <2>3. \A u, v \in Threads : hand[u] = hand[v] /\ hand[u] \in Item => u = v
    BY <1>h DEF OneEach
  <2> QED
    BY <1>h, <2>1, <2>2, <2>3 DEF Held
<1>g. ASSUME NEW t \in Threads, NEW r, r \notin Item, hand' = [hand EXCEPT ![t] = r], OneEach
      PROVE  /\ \A j \in Item : Held(j)' <=> (Held(j) /\ j # hand[t])
             /\ \A u, v \in Threads : hand'[u] = hand'[v] /\ hand'[u] \in Item => u = v
  <2>1. hand'[t] = r /\ \A u \in Threads \ {t} : hand'[u] = hand[u]
    BY <1>g, <1>t
  <2>3. \A u, v \in Threads : hand[u] = hand[v] /\ hand[u] \in Item => u = v
    BY <1>g DEF OneEach
  <2> QED
    BY <1>g, <2>1, <2>3 DEF Held
<1>o. OneEach
  BY DEF AccountedInv
<1>n. ASSUME NEW t \in Producers, sent[t] < MaxMsgs, sent' = [sent EXCEPT ![t] = @ + 1],
             NEW i, i = [from |-> t, n |-> sent[t] + 1]
      PROVE  /\ i \in Item /\ IsAt(i, "nowhere") /\ i.n <= sent'[i.from]
             /\ \A j \in Item \ {i} : SentKept(j)
  <2>1. i \in Item /\ ~(i.n <= sent[i.from])
    BY <1>n, <1>t DEF Item
  <2>2. PICK p \in PlaceNames : IsAt(i, p)
    BY <2>1 DEF AccountedInv
  <2>3. p = "nowhere"
    BY <2>1, <2>2 DEF IsAt
  <2>4. i.n <= sent'[i.from]
    BY <1>n, <1>t
  <2>5. ASSUME NEW j \in Item \ {i} PROVE SentKept(j)
    <3>1. CASE j.from # t
      BY <1>n, <1>t, <3>1 DEF Item
    <3>2. CASE j.from = t
      <4>1. j.n # sent[t] + 1
        BY <1>n, <3>2 DEF Item
      <4>2. sent'[t] = sent[t] + 1 /\ sent[t] \in Nat /\ j.n \in Nat
        BY <1>n, <1>t DEF Item
      <4> QED
        BY <3>2, <4>1, <4>2
    <3> QED
      BY <3>1, <3>2
  <2> QED
    BY <2>1, <2>2, <2>3, <2>4, <2>5
<1> HIDE DEF SentKept
<1>3. ASSUME NEW q \in Queues, NEW t \in Producers, Product(q, t) PROVE AccountedInv'
  <2>0. PICK i : i = [from |-> t, n |-> sent[t] + 1] OBVIOUS
  <2>1. /\ i \in Item /\ IsAt(i, "nowhere") /\ i.n <= sent'[i.from]
        /\ \A j \in Item \ {i} : SentKept(j)
    BY <1>3, <1>n, <2>0 DEF Product
  <2>2. UNCHANGED <<out, dropped, rejected, failed>> /\ pc[t] = "run"
    BY <1>3 DEF Product
  <2>3. CASE hand' = [hand EXCEPT ![t] = i] /\ UNCHANGED queue
    <3>1. hand[t] \notin Item /\ ~Held(i)
      BY <1>t, <2>1, <2>2 DEF HandInv, IsAt
    <3>2. /\ Held(i)' /\ \A j \in Item \ {i} : Held(j)' <=> Held(j)
          /\ \A u, v \in Threads : hand'[u] = hand'[v] /\ hand'[u] \in Item => u = v
      BY <1>h, <1>o, <1>t, <2>1, <2>3, <3>1
    <3>3. OneEach'
      BY <1>o, <2>2, <2>3, <3>2 DEF OneEach, Once
    <3>4. \A j \in Item \ {i} : Kept(j)
      BY <2>1, <2>2, <2>3, <3>2 DEF Occurs
    <3>5. IsAt(i, "hand")'
      BY <2>1, <2>2, <2>3, <3>2 DEF IsAt, Occurs
    <3> QED
      BY <1>m, <2>1, <3>3, <3>4, <3>5 DEF PlaceNames
  <2>4. CASE queue' = [queue EXCEPT ![q] = Append(@, i)] /\ UNCHANGED hand
    <3>1. ~Occurs(queue, i)
      BY <2>1 DEF IsAt
    <3>2. Once(queue', Item) /\ \A y \in Item : Occurs(queue', y) <=> (Occurs(queue, y) \/ y = i)
      <4>1. Push(Queues, Item, Item, queue, q, i, queue')
        BY <1>o, <1>t, <2>1, <2>4, <3>1 DEF OneEach, Push
      <4> QED
        BY <4>1, OncePush
    <3>3. OneEach'
      BY <1>o, <2>2, <2>4, <3>2 DEF OneEach, Once
    <3>4. \A j \in Item : (Occurs(out, j)' <=> Occurs(out, j)) /\ (Held(j)' <=> Held(j))
      BY <2>2, <2>4 DEF Occurs, Held
    <3>5. \A j \in Item \ {i} : Kept(j)
      BY <2>1, <2>2, <3>2, <3>4
    <3>6. IsAt(i, "queue")'
      BY <2>1, <2>2, <3>2, <3>4 DEF IsAt
    <3> QED
      BY <1>m, <2>1, <3>3, <3>5, <3>6 DEF PlaceNames
  <2> QED
    BY <1>3, <2>0, <2>3, <2>4 DEF Product
(* An item leaves a hand for a place that ends its way.                    *)
<1>4. ASSUME NEW t \in Threads, hand[t] \in Item, NEW q \in {"dropped", "failed"},
             hand' = [hand EXCEPT ![t] = NULL], UNCHANGED <<queue, out, sent, rejected>>,
             dropped' = IF q = "dropped" THEN dropped \cup {hand[t]} ELSE dropped,
             failed' = IF q = "failed" THEN failed \cup {hand[t]} ELSE failed
      PROVE  AccountedInv'
  <2>0. PICK i \in Item : i = hand[t] BY <1>4
  <2>1. PICK p \in PlaceNames : IsAt(i, p) BY DEF AccountedInv
  <2>2. p = "hand" BY <2>0, <2>1 DEF IsAt, Held
  <2>3. /\ \A j \in Item : Held(j)' <=> (Held(j) /\ j # i)
        /\ \A u, v \in Threads : hand'[u] = hand'[v] /\ hand'[u] \in Item => u = v
    BY <1>g, <1>o, <1>t, <1>4, <2>0
  <2>4. OneEach'
    BY <1>o, <1>4, <2>3 DEF OneEach, Once
  <2>5. \A j \in Item : (Occurs(out, j)' <=> Occurs(out, j)) /\ (Occurs(queue, j)' <=> Occurs(queue, j))
    BY <1>4 DEF Occurs
  <2>6. \A j \in Item \ {i} : Kept(j)
    BY <1>4, <2>0, <2>3, <2>5 DEF SentKept
  <2>7. (i \in dropped' <=> q = "dropped") /\ (i \in failed' <=> q = "failed")
    BY <1>4, <2>0, <2>1, <2>2 DEF IsAt
  <2>8. IsAt(i, q)'
    BY <1>4, <2>1, <2>2, <2>3, <2>5, <2>7 DEF IsAt
  <2> QED
    BY <1>m, <2>4, <2>6, <2>8 DEF PlaceNames
<1>5. ASSUME NEW t \in Producers, ProductResume(t) PROVE AccountedInv'
  <2>1. t \in Threads /\ hand[t] \in Item
    BY <1>5, <1>t DEF ProductResume, TypeInv, PcOK
  <2> QED
    BY <1>4, <1>5, <2>1 DEF ProductResume
<1>6. CASE PushFails
  <2>1. "threadProcessRaw" \in Threads
    BY DEF Threads, Consumers
  <2> QED
    BY <1>4, <1>6, <2>1 DEF PushFails
<1>7. ASSUME NEW l \in Listeners, ConsumeReject(l) PROVE AccountedInv'
  <2>0. PICK i : i = [from |-> l, n |-> sent[l] + 1] OBVIOUS
  <2>1. /\ i \in Item /\ IsAt(i, "nowhere") /\ i.n <= sent'[i.from]
        /\ \A j \in Item \ {i} : SentKept(j)
    BY <1>7, <1>n, <2>0 DEF ConsumeReject, Producers
  <2>2. UNCHANGED <<queue, hand, out, dropped, failed>> /\ rejected' = rejected \cup {i}
    BY <1>7, <2>0 DEF ConsumeReject
  <2>3. OneEach'
    BY <1>o, <2>2 DEF OneEach, Once
  <2>4. \A j \in Item : /\ Occurs(out, j)' <=> Occurs(out, j)
                        /\ Occurs(queue, j)' <=> Occurs(queue, j)
                        /\ Held(j)' <=> Held(j)
    BY <2>2 DEF Occurs, Held
  <2>5. \A j \in Item \ {i} : Kept(j)
    BY <2>1, <2>2, <2>4
  <2>6. IsAt(i, "rejected")'
    BY <2>1, <2>2, <2>4 DEF IsAt
  <2> QED
    BY <1>m, <2>1, <2>3, <2>5, <2>6 DEF PlaceNames
<1>8. ASSUME NEW c \in Consumers, Pop(QueueOf(c), c), pc[c] \in {"run", "emptyWoken"},
             UNCHANGED <<out, sent, dropped, rejected, failed>>
      PROVE  AccountedInv'
  <2>a. PICK q \in Queues : q = QueueOf(c) BY <1>t
  <2>0. PICK i : i = Head(queue[q]) OBVIOUS
  <2>1. /\ queue[q] # <<>> /\ hand' = [hand EXCEPT ![c] = i]
        /\ queue' = [queue EXCEPT ![q] = Tail(@)]
    BY <1>8, <2>a, <2>0 DEF Pop
  <2>2. i \in Item /\ Occurs(queue, i)
    <3>1. queue[q] \in Seq(Item) /\ DOMAIN queue = Queues
      BY <1>t
    <3>2. 1 \in DOMAIN queue[q] /\ queue[q][1] = i /\ i \in Item
      BY <2>0, <2>1, <3>1
    <3> QED
      BY <3>1, <3>2 DEF Occurs
  <2>3. PICK p \in PlaceNames : IsAt(i, p) BY <2>2 DEF AccountedInv
  <2>4. p = "queue" BY <2>2, <2>3 DEF IsAt
  <2>5. hand[c] \notin Item /\ ~Held(i)
    BY <1>8, <1>t, <2>3, <2>4 DEF HandInv, IsAt
  <2>6. /\ Held(i)' /\ \A j \in Item \ {i} : Held(j)' <=> Held(j)
        /\ \A u, v \in Threads : hand'[u] = hand'[v] /\ hand'[u] \in Item => u = v
    BY <1>h, <1>o, <1>t, <2>1, <2>2, <2>5
  <2>7. Once(queue', Item) /\ \A y \in Item : Occurs(queue', y) <=> (Occurs(queue, y) /\ y # i)
    <3>1. queue \in [Queues -> Seq(Item)] /\ Once(queue, Item)
      BY <1>o, <1>t DEF OneEach
    <3>2. \A R : R = [queue EXCEPT ![q] = Tail(@)] =>
                 /\ Once(R, Item)
                 /\ \A y \in Item : Occurs(R, y) <=> (Occurs(queue, y) /\ y # Head(queue[q]))
      BY ONLY <2>1, <3>1, q \in Queues, OncePop
    <3> QED
      BY <2>0, <2>1, <3>2
  <2>8. OneEach'
    BY <1>o, <1>8, <2>6, <2>7 DEF OneEach, Once
  <2>9. \A j \in Item : Occurs(out, j)' <=> Occurs(out, j)
    BY <1>8 DEF Occurs
  <2>10. \A j \in Item \ {i} : Kept(j)
    BY <1>8, <2>6, <2>7, <2>9 DEF SentKept
  <2>11. IsAt(i, "hand")'
    BY <1>8, <2>2, <2>3, <2>4, <2>6, <2>7, <2>9 DEF IsAt
  <2> QED
    BY <1>m, <2>2, <2>8, <2>10, <2>11 DEF PlaceNames
<1>9. ASSUME NEW c \in Consumers, Consumer(c) PROVE AccountedInv'
  <2>1. CASE UNCHANGED <<queue, hand>>
    BY <1>9, <1>z, <2>1 DEF Consumer
  <2> QED
    BY <1>8, <1>9, <2>1 DEF Consumer
(* A hand without an item changes to another one.                          *)
<1>10. ASSUME NEW c \in Threads, NEW r, r \notin Item, hand[c] \notin Item,
              hand' = [hand EXCEPT ![c] = r],
              UNCHANGED <<queue, sent, dropped, rejected, failed>>,
              Once(out', Item), \A j \in Item : Occurs(out', j) <=> Occurs(out, j)
       PROVE  AccountedInv'
  <2>1. /\ \A j \in Item : Held(j)' <=> Held(j)
        /\ \A u, v \in Threads : hand'[u] = hand'[v] /\ hand'[u] \in Item => u = v
    BY <1>g, <1>o, <1>10
  <2>2. OneEach'
    BY <1>o, <1>10, <2>1 DEF OneEach, Once
  <2>3. \A j \in Item : Occurs(queue, j)' <=> Occurs(queue, j)
    BY <1>10 DEF Occurs
  <2>4. \A j \in Item : Kept(j)
    BY <1>10, <2>1, <2>3 DEF SentKept
  <2> QED
    BY <1>k, <2>2, <2>4 DEF AccountedInv
<1>11. ASSUME NEW c \in Consumers, ConsumerResume(c) PROVE AccountedInv'
  <2>1. CASE Pop(QueueOf(c), c)
    BY <1>8, <1>11, <2>1 DEF ConsumerResume
  <2>2. ASSUME NEW r \in EmptyReturn(QueueOf(c)), hand' = [hand EXCEPT ![c] = r], UNCHANGED queue
        PROVE  AccountedInv'
    <3>1. r \notin Item /\ hand[c] \notin Item /\ c \in Threads
      BY <1>11, <1>t DEF ConsumerResume, EmptyReturn, HandInv
    <3>2. Once(out', Item) /\ UNCHANGED <<out, queue, sent, dropped, rejected, failed>>
      BY <1>11, <1>o, <2>2 DEF ConsumerResume, OneEach
    <3> QED
      BY <1>10, <2>2, <3>1, <3>2
  <2> QED
    BY <1>11, <2>1, <2>2 DEF ConsumerResume
<1>12. ASSUME NEW c \in Consumers, HandOn(c) PROVE AccountedInv'
  <2>0. PICK i : i = hand[c] OBVIOUS
  <2>1. /\ out' = [out EXCEPT ![c] = Append(@, i)] /\ hand' = [hand EXCEPT ![c] = NULL]
        /\ UNCHANGED <<queue, sent, dropped, rejected, failed>>
        /\ i \in Item \cup {Garbage} /\ c \in Threads
    BY <1>12, <1>t, <2>0 DEF HandOn, TypeInv, PcOK, MaybeItem
  <2>2. ASSUME i \in Item PROVE IsAt(i, "hand")
    <3>1. PICK p \in PlaceNames : IsAt(i, p) BY <2>2 DEF AccountedInv
    <3>2. p = "hand" BY <2>0, <2>1, <3>1 DEF IsAt, Held
    <3> QED
      BY <3>1, <3>2
  <2>3. Once(out', Item) /\ \A y \in Item : Occurs(out', y) <=> (Occurs(out, y) \/ y = i)
    <3>1. i \in Item => ~Occurs(out, i)
      BY <2>2 DEF IsAt
    <3> QED
      <4>1. Push(Consumers, Item \cup {Garbage}, Item, out, c, i, out')
        BY <1>o, <1>t, <2>1, <3>1 DEF OneEach, Push
      <4> QED
        BY <4>1, OncePush
  <2>4. CASE i \notin Item
    BY <1>10, <1>t, <2>0, <2>1, <2>3, <2>4
  <2>5. CASE i \in Item
    <3>1. /\ \A j \in Item : Held(j)' <=> (Held(j) /\ j # i)
          /\ \A u, v \in Threads : hand'[u] = hand'[v] /\ hand'[u] \in Item => u = v
      BY <1>g, <1>o, <1>t, <2>0, <2>1
    <3>2. OneEach'
      BY <1>o, <2>1, <2>3, <3>1 DEF OneEach, Once
    <3>3. \A j \in Item : Occurs(queue, j)' <=> Occurs(queue, j)
      BY <2>1 DEF Occurs
    <3>4. \A j \in Item \ {i} : Kept(j)
      BY <2>1, <2>3, <3>1, <3>3 DEF SentKept
    <3>5. IsAt(i, "out")'
      BY <2>1, <2>2, <2>3, <2>5, <3>1, <3>3 DEF IsAt
    <3> QED
      BY <1>m, <2>5, <3>2, <3>4, <3>5 DEF PlaceNames
  <2> QED
    BY <2>4, <2>5
<1>13. CASE Main \/ MainFails \/ GarbageCrash \/ UNCHANGED vars
  BY <1>13, <1>z DEF Main, MainFails, StartThread, StartThreadException, RunServer,
                     StartThreadRaw, Starts, GarbageCrash, vars
<1>14. ASSUME NEW h \in Cancellable, KillClientThread(h) PROVE AccountedInv'
  BY <1>14, <1>z DEF KillClientThread
<1>15. ASSUME NEW t \in Threads, SpuriousWake(t) PROVE AccountedInv'
  BY <1>15, <1>z DEF SpuriousWake
<1> HIDE DEF Quiet, Kept
<1> QED
  BY <1>3, <1>5, <1>6, <1>7, <1>9, <1>11, <1>12, <1>13, <1>14, <1>15
     DEF Next, ProducerStep, ConsumerStep, ProductRawData, ProductExceptionData, Producers, Queues

(* Every message a handler or a listener has received is in exactly one    *)
(* place, for any number of threads and messages and any capacity: it is   *)
(* never duplicated, nor lost between two threads (CProcessMqData.cpp, all *)
(* Product* and Consumer* functions).                                      *)
THEOREM AccountedHolds == Spec => []Accounted
<1> DEFINE I == TypeInv /\ HandInv /\ AccountedInv
<1>1. Init => I
  <2> SUFFICES ASSUME Init PROVE HandInv /\ AccountedInv
    BY InitTypeInv
  <2>1. HandInv
    BY ConstantsAssumption DEF Init, HandInv, Threads, Producers, Consumers
  <2>2. \A i \in Item : IsAt(i, "nowhere")
    BY ConstantsAssumption DEF Init, IsAt, Occurs, Held, Item
  <2>3. OneEach
    BY ConstantsAssumption DEF Init, OneEach, Once
  <2> QED
    BY <2>1, <2>2, <2>3 DEF AccountedInv, PlaceNames
<1>2. I /\ [Next]_vars => I'
  BY NextTypeInv, NextHandInv, NextAccountedInv
<1>3. I => Accounted
  <2> SUFFICES ASSUME I, NEW i \in Item
               PROVE  Cardinality(Whereabouts(i)) = IF i.n <= sent[i.from] THEN 1 ELSE 0
    BY DEF Accounted
  <2>t. /\ DOMAIN queue = Queues /\ DOMAIN out = Consumers
    BY DEF TypeInv, TypeOK
  <2>1. PICK p \in PlaceNames : IsAt(i, p)
    BY DEF AccountedInv
  <2> DEFINE InQ(q, k) == q \in Queues /\ k \in DOMAIN queue[q] /\ queue[q][k] = i
             InO(c, k) == c \in Consumers /\ k \in DOMAIN out[c] /\ out[c][k] = i
             InH(t) == t \in Threads /\ hand[t] = i
             Gone(w) == \/ w = "dropped" /\ i \in dropped
                        \/ w = "rejected" /\ i \in rejected
                        \/ w = "failed" /\ i \in failed
  <2>2. \A x : x \in Whereabouts(i) <=>
                 \/ \E q, k : InQ(q, k) /\ x = <<q, k>>
                 \/ \E c, k : InO(c, k) /\ x = <<c, k>>
                 \/ \E t : InH(t) /\ x = <<t>>
                 \/ \E w : Gone(w) /\ x = <<w, 1>>
    <3> SUFFICES ASSUME NEW x
                 PROVE  x \in Whereabouts(i) <=>
                          \/ \E q, k : InQ(q, k) /\ x = <<q, k>>
                          \/ \E c, k : InO(c, k) /\ x = <<c, k>>
                          \/ \E t : InH(t) /\ x = <<t>>
                          \/ \E w : Gone(w) /\ x = <<w, 1>>
      OBVIOUS
    <3> DEFINE QS(q) == {<<q, k>> : k \in {j \in DOMAIN queue[q] : queue[q][j] = i}}
               OS(c) == {<<c, k>> : k \in {j \in DOMAIN out[c] : out[c][j] = i}}
               A == UNION {QS(q) : q \in Queues}
               B == UNION {OS(c) : c \in Consumers}
               C == {<<t>> : t \in {u \in Threads : hand[u] = i}}
               D == {<<why, 1>> : why \in {w \in {"dropped", "rejected", "failed"} : Gone(w)}}
    <3>0. Whereabouts(i) = A \cup B \cup C \cup D
      BY DEF Whereabouts
    <3>1. x \in A <=> \E q, k : InQ(q, k) /\ x = <<q, k>>
      <4>1. \A q \in Queues : x \in QS(q) <=> \E k : InQ(q, k) /\ x = <<q, k>>
        BY Zenon
      <4>2. x \in A <=> \E q \in Queues : x \in QS(q)
        BY Zenon
      <4> QED
        BY <4>1, <4>2, Zenon
    <3>2. x \in B <=> \E c, k : InO(c, k) /\ x = <<c, k>>
      <4>1. \A c \in Consumers : x \in OS(c) <=> \E k : InO(c, k) /\ x = <<c, k>>
        BY Zenon
      <4>2. x \in B <=> \E c \in Consumers : x \in OS(c)
        BY Zenon
      <4> QED
        BY <4>1, <4>2, Zenon
    <3>3. x \in C <=> \E t : InH(t) /\ x = <<t>>
      BY Zenon
    <3>4. x \in D <=> \E w : Gone(w) /\ x = <<w, 1>>
      BY Zenon
    <3> HIDE DEF InQ, InO, InH, Gone, A, B, C, D
    <3> QED
      BY <3>0, <3>1, <3>2, <3>3, <3>4, Zenon
  <2>3. /\ (\E q, k : InQ(q, k)) <=> p = "queue"
        /\ (\E c, k : InO(c, k)) <=> p = "out"
        /\ (\E t : InH(t)) <=> p = "hand"
        /\ \A w : Gone(w) <=> (w = p /\ p \in {"dropped", "rejected", "failed"})
    BY <2>t, <2>1 DEF IsAt, Occurs, Held
  <2>4. /\ \A q, r, j, k : InQ(q, j) /\ InQ(r, k) => q = r /\ j = k
        /\ \A q, r, j, k : InO(q, j) /\ InO(r, k) => q = r /\ j = k
        /\ \A t, u : InH(t) /\ InH(u) => t = u
    BY <2>t DEF AccountedInv, OneEach, Once
  <2> HIDE DEF InQ, InO, InH, Gone
  <2>5. CASE p = "nowhere"
    <3>1. Whereabouts(i) = {} /\ ~(i.n <= sent[i.from])
      BY <2>1, <2>2, <2>3, <2>5 DEF IsAt
    <3> QED
      BY <3>1, FS_EmptySet
  <2>6. CASE p # "nowhere"
    <3>1. \E x : Whereabouts(i) = {x}
      <4>1. CASE p = "queue"
        <5>1. PICK q, k : InQ(q, k) BY <2>3, <4>1
        <5>2. Whereabouts(i) = {<<q, k>>} BY <2>2, <2>3, <2>4, <4>1, <5>1
        <5> QED BY <5>2
      <4>2. CASE p = "out"
        <5>1. PICK q, k : InO(q, k) BY <2>3, <4>2
        <5>2. Whereabouts(i) = {<<q, k>>} BY <2>2, <2>3, <2>4, <4>2, <5>1
        <5> QED BY <5>2
      <4>3. CASE p = "hand"
        <5>1. PICK t : InH(t) BY <2>3, <4>3
        <5>2. Whereabouts(i) = {<<t>>} BY <2>2, <2>3, <2>4, <4>3, <5>1
        <5> QED BY <5>2
      <4>4. CASE p \in {"dropped", "rejected", "failed"}
        <5>2. Whereabouts(i) = {<<p, 1>>} BY <2>2, <2>3, <4>4
        <5> QED BY <5>2
      <4> QED
        BY <2>6, <4>1, <4>2, <4>3, <4>4 DEF PlaceNames
    <3>2. i.n <= sent[i.from]
      BY <2>1, <2>6 DEF IsAt
    <3> QED
      BY <3>1, <3>2, FS_Singleton
  <2> QED
    BY <2>5, <2>6
<1> QED
  BY <1>1, <1>2, <1>3, PTL DEF Spec
=============================================================================
