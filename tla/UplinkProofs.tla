---------------------------- MODULE UplinkProofs ----------------------------
(***************************************************************************)
(* Proofs about the way of a changed row to the message queue, for any     *)
(* rows, upload threads, connections, capacities and ends of the client.   *)
(*                                                                         *)
(* TypeInv says what stands where, and that an item of the server is the   *)
(* number of a message received.  Above it:                                *)
(*   - TrackInv: the rows of the round under way have their messages, so   *)
(*     that they may be struck off when the times are saved;               *)
(*   - ServerInv: the raw queue, what its consumer holds and what it has   *)
(*     handed on are in the order in which each connection was received;   *)
(*   - OnceInv and RoundInv: the lines of messages between the selection   *)
(*     and the server hold a row at most once, and, with one upload        *)
(*     thread, a round in the order of its numbers.  Every step moves the  *)
(*     first of a line to the end of the next one, or shortens lines, or   *)
(*     begins a round (NextLines).                                         *)
(***************************************************************************)
EXTENDS Uplink, FiniteSetTheorems, TLAPS

(* What a connection carries: a message, or what an uninitialised pointer  *)
(* pointed to.                                                             *)
Letter == Message \cup {Wild}

ClientOK ==
  /\ unsaved \subseteq Rows /\ selected \subseteq unsaved
  /\ round \in Nat /\ ends \in Nat
  /\ batch \in Seq(Message) /\ glb_head_queue_data \in Seq(Message)
  /\ upc \in [Uploaders -> {"run", "empty", "emptyWoken", "got"}]
  /\ pData \in [Uploaders -> Letter \cup {Nothing}]
  /\ \A u \in Uploaders : upc[u] = "got" => pData[u] \in Letter
  /\ epc \in {"sleep", "put", "full", "fullWoken"}
  /\ epc = "sleep" => batch = <<>> /\ selected = {}

NetworkOK ==
  /\ link \in Handlers \cup {NoLink}
  /\ wire \in [Handlers -> Seq(Letter)]
  /\ received \in [Handlers -> Seq(Letter)]

(* An item of the server is the number of a message received on a          *)
(* connection.  Only the raw consumer ever holds an uninitialised pointer; *)
(* it holds something exactly when it is about to hand it on.              *)
Item == [from : Handlers, n : 1..MaxMsgs]

Known(i) == i \in Item => i.n <= sent[i.from]

ServerOK ==
  /\ queue \in [Server!Queues -> Seq(Item)]
  /\ pc \in [Server!Threads -> Server!Pcs]
  /\ hand \in [Server!Threads -> Item \cup {NULL, Garbage}]
  /\ \A h \in Handlers :
       /\ pc[h] = "run" => hand[h] = NULL
       /\ pc[h] \in {"full", "fullWoken"} => hand[h] \in Item
       /\ hand[h] # Garbage
  /\ pc[Raw] = "got" <=> hand[Raw] # NULL
  /\ sent \in [Handlers -> 0..MaxMsgs]
  /\ out \in [Server!Consumers -> Seq(Item \cup {Garbage})]
  /\ dropped \subseteq Item /\ failed \subseteq Item

(* The items the server has, or has had.                                   *)
Held == ToSet(queue["m_raw_data"]) \cup {hand[t] : t \in Handlers \cup {Raw}}
          \cup dropped \cup failed \cup ToSet(out[Raw])

KnownInv ==
  /\ \A h \in Handlers : sent[h] = Len(received[h])
  /\ \A i \in Held : Known(i)

TypeInv == ClientOK /\ NetworkOK /\ ServerOK /\ KnownInv

-----------------------------------------------------------------------------
(* The server.                                                             *)
LEMMA Names ==
  /\ Server!Item = Item /\ Server!Threads = Handlers \cup Server!Consumers
  /\ Raw \in Server!Consumers /\ Raw \in Server!Threads /\ Raw \notin Handlers
  /\ Server!QueueOf(Raw) = "m_raw_data"
  /\ \A h \in Handlers : Server!QueueOf(h) = "m_raw_data"
  /\ "m_raw_data" \in Server!Queues
  /\ NULL \notin Item /\ Garbage \notin Item /\ Garbage # NULL
  /\ MaxMsgs \in Nat
<1>1. Server!Producers = Handlers
  BY DEF Server!Producers
<1>2. Server!Item = Item
  BY <1>1 DEF Server!Item, Item
<1>3. /\ Raw \in Server!Consumers /\ Raw \notin Handlers
      /\ Server!Threads = Handlers \cup Server!Consumers
  BY <1>1, UplinkAssumption DEF Raw, Server!Consumers, Server!Threads
<1>4. /\ Server!QueueOf(Raw) = "m_raw_data" /\ "m_raw_data" \in Server!Queues
      /\ \A h \in Handlers : Server!QueueOf(h) = "m_raw_data"
  BY DEF Server!QueueOf, Raw, Server!Queues
<1> QED
  BY <1>2, <1>3, <1>4, UplinkAssumption

(* A signal moves a thread only from the place where it sleeps.            *)
Wakes(f, g) ==
  /\ g \in [Server!Threads -> Server!Pcs]
  /\ \A t \in Server!Threads : \/ g[t] = f[t]
                               \/ f[t] = "full" /\ g[t] = "fullWoken"
                               \/ f[t] = "empty" /\ g[t] = "emptyWoken"

(* A signal on the server wakes only who sleeps there.                     *)
LEMMA WakeMoves ==
  ASSUME NEW f \in [Server!Threads -> Server!Pcs], NEW q, NEW s \in {"full", "empty"},
         NEW g \in Server!Wake(f, q, s)
  PROVE  Wakes(f, g)
<1>1. CASE g = f
  BY <1>1 DEF Wakes
<1>2. CASE g # f
  <2>1. PICK u \in Server!Sleepers(f, q, s) : g = [f EXCEPT ![u] = Server!Woken(s)]
    BY <1>2 DEF Server!Wake
  <2>2. u \in Server!Threads /\ f[u] = s
    BY DEF Server!Sleepers
  <2>3. /\ Server!Woken(s) \in Server!Pcs
        /\ s = "full" => Server!Woken(s) = "fullWoken"
        /\ s = "empty" => Server!Woken(s) = "emptyWoken"
    BY DEF Server!Woken, Server!Pcs
  <2> QED
    BY <2>1, <2>2, <2>3 DEF Wakes
<1> QED
  BY <1>1, <1>2

(* What a step of the server does to the items.                            *)
NewItem(h) == [from |-> h, n |-> sent[h] + 1]

Counts(h) == sent[h] < MaxMsgs /\ sent' = [sent EXCEPT ![h] = @ + 1]

Idle == UNCHANGED <<queue, hand, sent, out, dropped, failed>>
Enqueues(h) ==
  /\ Counts(h)
  /\ queue' = [queue EXCEPT !["m_raw_data"] = Append(@, NewItem(h))]
  /\ UNCHANGED <<hand, out, dropped, failed>>
Keeps(h) ==
  /\ Counts(h)
  /\ hand[h] = NULL
  /\ hand' = [hand EXCEPT ![h] = NewItem(h)]
  /\ UNCHANGED <<queue, out, dropped, failed>>
GivesUp(h) ==
  /\ hand[h] \in Item
  /\ dropped' = dropped \cup {hand[h]}
  /\ hand' = [hand EXCEPT ![h] = NULL]
  /\ UNCHANGED <<queue, sent, out, failed>>
Takes ==
  /\ queue["m_raw_data"] # <<>>
  /\ hand[Raw] = NULL
  /\ hand' = [hand EXCEPT ![Raw] = Head(queue["m_raw_data"])]
  /\ queue' = [queue EXCEPT !["m_raw_data"] = Tail(@)]
  /\ UNCHANGED <<sent, out, dropped, failed>>
TakesNothing ==
  /\ hand[Raw] = NULL
  /\ \E r \in {NULL, Garbage} : hand' = [hand EXCEPT ![Raw] = r]
  /\ UNCHANGED <<queue, sent, out, dropped, failed>>
Hands ==
  /\ hand[Raw] # NULL
  /\ out' = [out EXCEPT ![Raw] = Append(@, hand[Raw])]
  /\ hand' = [hand EXCEPT ![Raw] = NULL]
  /\ UNCHANGED <<queue, sent, dropped, failed>>
Fails ==
  /\ hand[Raw] \in Item
  /\ failed' = failed \cup {hand[Raw]}
  /\ hand' = [hand EXCEPT ![Raw] = NULL]
  /\ UNCHANGED <<queue, sent, out, dropped>>

ConsumerMoves == Idle \/ Takes \/ TakesNothing \/ Hands \/ Fails

(* The threads' places and what they hold.                                 *)
Places(f, g) ==
  /\ f \in [Server!Threads -> Server!Pcs]
  /\ g \in [Server!Threads -> Item \cup {NULL, Garbage}]
  /\ \A h \in Handlers :
       /\ f[h] = "run" => g[h] = NULL
       /\ f[h] \in {"full", "fullWoken"} => g[h] \in Item
       /\ g[h] # Garbage
  /\ f[Raw] = "got" <=> g[Raw] # NULL

(* Being woken changes nothing about what a thread holds.                  *)
LEMMA PlacesMove ==
  ASSUME NEW f, NEW g, NEW x, Places(f, x), Wakes(f, g)
  PROVE  Places(g, x)
  BY Names DEF Places, Wakes

(* The server's types, the threads apart from the items.                   *)
LEMMA ServerPlaces ==
  ServerOK <=> /\ Places(pc, hand)
               /\ queue \in [Server!Queues -> Seq(Item)]
               /\ sent \in [Handlers -> 0..MaxMsgs]
               /\ out \in [Server!Consumers -> Seq(Item \cup {Garbage})]
               /\ dropped \subseteq Item /\ failed \subseteq Item
  BY DEF ServerOK, Places

(* A handler queues its new item, or keeps it while it waits.              *)
LEMMA ProductMoves ==
  ASSUME ServerOK, NEW h \in Handlers, Server!ProductRawData(h)
  PROVE  Places(pc', hand') /\ (Enqueues(h) \/ Keeps(h)) /\ NewItem(h) \in Item
<1>t. /\ Places(pc, hand) /\ sent[h] \in 0..MaxMsgs /\ pc[h] = "run" /\ h \in Server!Threads
      /\ sent[h] < MaxMsgs /\ Server!Product("m_raw_data", h)
  BY Names DEF ServerOK, Places, Server!ProductRawData, Server!Product
<1>i. NewItem(h) \in Item
  BY <1>t, Names DEF NewItem, Item
<1>1. CASE Len(queue["m_raw_data"]) >= MAX_QUEUE_DATA /\ pc' = [pc EXCEPT ![h] = "full"]
           /\ hand' = [hand EXCEPT ![h] = NewItem(h)] /\ UNCHANGED queue
  <2>1. Places(pc', hand')
    BY <1>1, <1>t, <1>i, Names DEF Places, Server!Pcs
  <2>2. Keeps(h)
    BY <1>1, <1>t DEF Keeps, Counts, NewItem, Places, Server!Product
  <2> QED
    BY <1>i, <2>1, <2>2
<1>2. CASE /\ queue' = [queue EXCEPT !["m_raw_data"] = Append(@, NewItem(h))]
           /\ pc' \in Server!Wake(pc, "m_raw_data", "empty") /\ UNCHANGED hand
  <2>1. Wakes(pc, pc')
    BY <1>2, <1>t, WakeMoves DEF Places
  <2>2. Places(pc', hand')
    BY <1>2, <1>t, <2>1, PlacesMove
  <2>3. Enqueues(h)
    BY <1>2, <1>t DEF Enqueues, Counts, Server!Product
  <2> QED
    BY <1>i, <2>2, <2>3
<1> QED
  BY <1>1, <1>2, <1>t DEF Server!Product, NewItem

(* A handler that waited for room gives its item up.                       *)
LEMMA ResumeMoves ==
  ASSUME ServerOK, NEW h \in Handlers, Server!ProductResume(h)
  PROVE  Places(pc', hand') /\ GivesUp(h)
<1>t. Places(pc, hand) /\ pc[h] = "fullWoken" /\ h \in Server!Threads /\ hand[h] \in Item
  BY Names DEF ServerOK, Places, Server!ProductResume
<1>1. PICK f : f = [pc EXCEPT ![h] = "run"] OBVIOUS
<1>2. PICK x : x = [hand EXCEPT ![h] = NULL] OBVIOUS
<1>3. Places(f, x)
  BY <1>t, <1>1, <1>2, Names DEF Places, Server!Pcs
<1>4. Wakes(f, pc')
  BY <1>1, <1>3, WakeMoves DEF Server!ProductResume, Places
<1>5. hand' = x
  BY <1>2 DEF Server!ProductResume
<1>6. Places(pc', hand')
  BY <1>3, <1>4, <1>5, PlacesMove
<1> QED
  BY <1>t, <1>6 DEF Server!ProductResume, GivesUp

(* A cancelled handler leaves all items where they are.                    *)
LEMMA KillMoves ==
  ASSUME ServerOK, NEW h \in Handlers, Server!KillClientThread(h)
  PROVE  Places(pc', hand') /\ Idle
<1>1. Places(pc', hand')
  BY Names DEF Server!KillClientThread, ServerOK, Places, Server!Pcs
<1> QED
  BY <1>1 DEF Server!KillClientThread, Idle

(* The raw consumer takes the first item of the deque.                     *)
LEMMA PopMoves ==
  ASSUME ServerOK, pc[Raw] \in {"run", "emptyWoken"}, Server!Pop("m_raw_data", Raw),
         UNCHANGED <<sent, out, dropped, failed>>
  PROVE  Places(pc', hand') /\ Takes
<1>t. Places(pc, hand) /\ hand[Raw] = NULL /\ queue["m_raw_data"] \in Seq(Item)
      /\ queue["m_raw_data"] # <<>>
  BY Names DEF ServerOK, Places, Server!Pop
<1>1. PICK f : f = [pc EXCEPT ![Raw] = "got"] OBVIOUS
<1>2. PICK x : x = [hand EXCEPT ![Raw] = Head(queue["m_raw_data"])] OBVIOUS
<1>i. Head(queue["m_raw_data"]) \in Item
  BY <1>t
<1>3. Places(f, x)
  BY <1>t, <1>i, <1>1, <1>2, Names DEF Places, Server!Pcs
<1>4. Wakes(f, pc')
  BY <1>1, <1>3, WakeMoves DEF Server!Pop, Places
<1>5. hand' = x
  BY <1>2 DEF Server!Pop
<1>6. Places(pc', hand')
  BY <1>3, <1>4, <1>5, PlacesMove
<1> QED
  BY <1>t, <1>6 DEF Server!Pop, Takes

(* Every step of the raw consumer is one of its moves.                     *)
LEMMA RawMoves ==
  ASSUME ServerOK, Server!ConsumerStep(Raw) \/ Server!PushFails
  PROVE  Places(pc', hand') /\ ConsumerMoves
<1>t. Places(pc, hand) /\ Server!QueueOf(Raw) = "m_raw_data" /\ Raw \in Server!Threads
      /\ Raw \notin Handlers
  BY Names DEF ServerOK, Places
<1>1. CASE Server!Consumer(Raw)
  <2>1. CASE Server!Pop("m_raw_data", Raw)
    BY <1>1, <1>t, <2>1, PopMoves DEF Server!Consumer, ConsumerMoves
  <2>2. CASE pc' = [pc EXCEPT ![Raw] = "empty"] /\ UNCHANGED <<queue, hand>>
    <3>1. Places(pc', hand')
      BY <1>1, <1>t, <2>2 DEF Server!Consumer, Places, Server!Pcs
    <3> QED
      BY <1>1, <2>2, <3>1 DEF Server!Consumer, ConsumerMoves, Idle
  <2> QED
    BY <1>1, <1>t, <2>1, <2>2 DEF Server!Consumer
<1>2. CASE Server!ConsumerResume(Raw)
  <2>1. CASE Server!Pop("m_raw_data", Raw)
    BY <1>2, <1>t, <2>1, PopMoves DEF Server!ConsumerResume, ConsumerMoves
  <2>2. CASE \E r \in {NULL, Garbage} :
               /\ hand' = [hand EXCEPT ![Raw] = r]
               /\ pc' \in Server!Wake([pc EXCEPT ![Raw] = IF r = NULL THEN "run" ELSE "got"],
                                      "m_raw_data", "full")
               /\ UNCHANGED queue
    <3>1. PICK r \in {NULL, Garbage} :
               /\ hand' = [hand EXCEPT ![Raw] = r]
               /\ pc' \in Server!Wake([pc EXCEPT ![Raw] = IF r = NULL THEN "run" ELSE "got"],
                                      "m_raw_data", "full")
               /\ UNCHANGED queue
      BY <2>2
    <3>2. PICK d : d = IF r = NULL THEN "run" ELSE "got" OBVIOUS
    <3>3. PICK f : f = [pc EXCEPT ![Raw] = d] OBVIOUS
    <3>4. PICK x : x = [hand EXCEPT ![Raw] = r] OBVIOUS
    <3>5. d \in {"run", "got"} /\ (d = "got" <=> r # NULL)
      BY <3>2
    <3>6. Places(f, x)
      BY <1>t, <3>3, <3>4, <3>5, Names DEF Places, Server!Pcs
    <3>7. Wakes(f, pc')
      BY <3>1, <3>2, <3>3, <3>6, WakeMoves DEF Places
    <3>8. Places(pc', hand')
      BY <3>1, <3>4, <3>6, <3>7, PlacesMove
    <3>9. hand[Raw] = NULL
      BY <1>2, <1>t DEF Server!ConsumerResume, Places
    <3>10. TakesNothing
      BY <1>2, <3>1, <3>9 DEF Server!ConsumerResume, TakesNothing
    <3> QED
      BY <3>8, <3>10 DEF ConsumerMoves
  <2> QED
    BY <1>2, <1>t, <2>1, <2>2 DEF Server!ConsumerResume, Server!EmptyReturn
<1>3. CASE Server!HandOn(Raw)
  <2>1. Places(pc', hand')
    BY <1>3, <1>t, Names DEF Server!HandOn, Places, Server!Pcs
  <2>2. Hands
    BY <1>3, <1>t DEF Server!HandOn, Hands, Places
  <2> QED
    BY <2>1, <2>2 DEF ConsumerMoves
<1>4. CASE Server!PushFails
  <2>1. Places(pc', hand')
    BY <1>4, <1>t, Names DEF Server!PushFails, Places, Server!Pcs, Raw
  <2>2. Fails
    BY <1>4, <1>t, Names DEF Server!PushFails, Fails, Raw
  <2> QED
    BY <2>1, <2>2 DEF ConsumerMoves
<1> QED
  BY <1>1, <1>2, <1>3, <1>4 DEF Server!ConsumerStep

(* The elements of a sequence, and what threads hold.                      *)
LEMMA ToSetAppend ==
  ASSUME NEW S, NEW s \in Seq(S), NEW x \in S
  PROVE  Append(s, x) \in Seq(S) /\ ToSet(Append(s, x)) = ToSet(s) \cup {x}
<1>1. PICK a : a = Append(s, x) OBVIOUS
<1>2. /\ a \in Seq(S) /\ DOMAIN a = 1..(Len(s) + 1) /\ DOMAIN s = 1..Len(s) /\ Len(s) \in Nat
      /\ a[Len(s) + 1] = x /\ \A k \in DOMAIN s : a[k] = s[k]
  BY <1>1
<1>3. DOMAIN a = DOMAIN s \cup {Len(s) + 1}
  BY <1>2
<1>4. ASSUME NEW y PROVE y \in ToSet(a) <=> y \in ToSet(s) \cup {x}
  BY <1>2, <1>3, Zenon DEF ToSet
<1> QED
  BY <1>1, <1>2, <1>4

(* A sequence has the members of its tail and its head.                    *)
LEMMA ToSetTail ==
  ASSUME NEW S, NEW s \in Seq(S), s # <<>>
  PROVE  /\ Head(s) \in S /\ Tail(s) \in Seq(S) /\ ToSet(s) = ToSet(Tail(s)) \cup {Head(s)}
         /\ ToSet(s) \subseteq S
<1>1. PICK a : a = Tail(s) OBVIOUS
<1>2. /\ a \in Seq(S) /\ DOMAIN s = 1..Len(s) /\ Len(s) \in Nat \ {0} /\ DOMAIN a = 1..(Len(s) - 1)
      /\ Head(s) = s[1] /\ 1 \in DOMAIN s /\ \A k \in DOMAIN a : a[k] = s[k + 1]
      /\ \A k \in DOMAIN s : s[k] \in S
  BY <1>1
<1>3. \A k \in DOMAIN a : k + 1 \in DOMAIN s
  BY <1>2
<1>4. \A k \in DOMAIN s \ {1} : k - 1 \in DOMAIN a /\ a[k - 1] = s[k]
  <2> SUFFICES ASSUME NEW k \in DOMAIN s \ {1} PROVE k - 1 \in DOMAIN a /\ a[k - 1] = s[k]
    OBVIOUS
  <2>1. k - 1 \in DOMAIN a /\ (k - 1) + 1 = k
    BY <1>2
  <2> QED
    BY <1>2, <2>1
<1>5. ToSet(a) \subseteq ToSet(s) /\ Head(s) \in ToSet(s)
  BY <1>2, <1>3, Zenon DEF ToSet
<1>6. ASSUME NEW k \in DOMAIN s PROVE s[k] \in ToSet(a) \cup {Head(s)}
  <2>1. CASE k = 1
    BY <1>2, <2>1
  <2>2. CASE k # 1
    BY <1>4, <2>2, Zenon DEF ToSet
  <2> QED
    BY <2>1, <2>2
<1> QED
  BY <1>1, <1>2, <1>5, <1>6 DEF ToSet

HandsOf(f) == {f[t] : t \in Handlers \cup {Raw}}

(* What changes in all hands when one of them changes.                     *)
LEMMA HandsChange ==
  ASSUME NEW V, NEW f \in [Server!Threads -> V], NEW t \in Handlers \cup {Raw}, NEW x,
         NEW g, g = [f EXCEPT ![t] = x]
  PROVE  /\ x \in HandsOf(g) /\ HandsOf(g) \subseteq HandsOf(f) \cup {x}
         /\ HandsOf(f) \subseteq HandsOf(g) \cup {f[t]} /\ f[t] \in HandsOf(f)
<1>1. /\ g[t] = x /\ Handlers \cup {Raw} \subseteq Server!Threads
      /\ \A u \in (Handlers \cup {Raw}) \ {t} : g[u] = f[u]
  BY Names
<1> QED
  BY <1>1, Zenon DEF HandsOf

(* No item is lost from sight, and none appears but a new one.             *)
Gains(i) == Held \ {NULL} \subseteq Held' /\ i \in Held' /\ Held' \subseteq Held \cup {i, NULL}
Steady   == Held \ {NULL} \subseteq Held' /\ Held' \subseteq Held \cup {NULL, Garbage}

(* What the server has or has had, by place.                               *)
LEMMA HeldIs ==
  Held = ToSet(queue["m_raw_data"]) \cup HandsOf(hand) \cup dropped \cup failed \cup ToSet(out[Raw])
  BY DEF Held, HandsOf

(* The same after a step.                                                  *)
LEMMA HeldWasIs ==
  Held' = ToSet(queue'["m_raw_data"]) \cup HandsOf(hand') \cup dropped' \cup failed' \cup ToSet(out'[Raw])
  BY DEF Held, HandsOf

(* The deque, what is held, what is handed on keep their types.            *)
ItemsOK(q, o, st, d, f) ==
  /\ q \in [Server!Queues -> Seq(Item)]
  /\ o \in [Server!Consumers -> Seq(Item \cup {Garbage})]
  /\ st \in [Handlers -> 0..MaxMsgs]
  /\ d \subseteq Item /\ f \subseteq Item

(* The server's types, by threads and items.                               *)
LEMMA ServerIs == ServerOK <=> Places(pc, hand) /\ ItemsOK(queue, out, sent, dropped, failed)
  BY ServerPlaces DEF ItemsOK

(* The same after a step.                                                  *)
LEMMA ServerWasIs ==
  ServerOK' <=> Places(pc', hand') /\ ItemsOK(queue', out', sent', dropped', failed')
  BY DEF ServerOK, Places, ItemsOK

(* A handler's message is the only new item.                               *)
LEMMA NewHeld ==
  ASSUME ServerOK, NEW h \in Handlers, Enqueues(h) \/ Keeps(h), NewItem(h) \in Item
  PROVE  Gains(NewItem(h)) /\ ItemsOK(queue', out', sent', dropped', failed')
<1>t. /\ queue \in [Server!Queues -> Seq(Item)] /\ hand \in [Server!Threads -> Item \cup {NULL, Garbage}]
      /\ sent \in [Handlers -> 0..MaxMsgs] /\ "m_raw_data" \in Server!Queues /\ MaxMsgs \in Nat
      /\ out \in [Server!Consumers -> Seq(Item \cup {Garbage})]
      /\ dropped \subseteq Item /\ failed \subseteq Item
  BY Names DEF ServerOK
<1>i. PICK i : i = NewItem(h) OBVIOUS
<1>s. sent' \in [Handlers -> 0..MaxMsgs]
  <2>1. Counts(h)
    BY DEF Enqueues, Keeps
  <2> QED
    BY <1>t, <2>1, SMTT(60) DEF Counts
<1>1. CASE Enqueues(h)
  <2>1. /\ queue'["m_raw_data"] = Append(queue["m_raw_data"], i) /\ queue["m_raw_data"] \in Seq(Item)
        /\ queue' = [queue EXCEPT !["m_raw_data"] = Append(@, i)]
        /\ UNCHANGED <<hand, out, dropped, failed>>
    BY <1>1, <1>t, <1>i DEF Enqueues
  <2>2. /\ ToSet(queue'["m_raw_data"]) = ToSet(queue["m_raw_data"]) \cup {i}
        /\ Append(queue["m_raw_data"], i) \in Seq(Item)
    BY <1>i, <2>1, ToSetAppend
  <2>3. queue' \in [Server!Queues -> Seq(Item)]
    BY <1>t, <2>1, <2>2
  <2>4. Gains(i)
    BY <2>1, <2>2, HeldIs, HeldWasIs DEF Gains
  <2> QED
    BY <1>i, <1>s, <1>t, <2>1, <2>3, <2>4 DEF ItemsOK
<1>2. CASE Keeps(h)
  <2>1. /\ hand' = [hand EXCEPT ![h] = i] /\ hand[h] = NULL
        /\ UNCHANGED <<queue, out, dropped, failed>>
    BY <1>2, <1>i DEF Keeps
  <2>2. /\ i \in HandsOf(hand') /\ HandsOf(hand') \subseteq HandsOf(hand) \cup {i}
        /\ HandsOf(hand) \subseteq HandsOf(hand') \cup {NULL}
    <3>1. PICK x : x = hand' OBVIOUS
    <3> QED
      BY <1>t, <2>1, <3>1, HandsChange
  <2>4. Gains(i)
    BY <2>1, <2>2, HeldIs, HeldWasIs DEF Gains
  <2> QED
    BY <1>i, <1>s, <1>t, <2>1, <2>4 DEF ItemsOK
<1> QED
  BY <1>1, <1>2

(* Other steps of the server bring no item and lose none.                  *)
LEMMA OldHeld ==
  ASSUME ServerOK, ConsumerMoves \/ \E h \in Handlers : GivesUp(h)
  PROVE  Steady /\ UNCHANGED sent /\ ItemsOK(queue', out', sent', dropped', failed')
<1>t. /\ queue \in [Server!Queues -> Seq(Item)] /\ hand \in [Server!Threads -> Item \cup {NULL, Garbage}]
      /\ sent \in [Handlers -> 0..MaxMsgs] /\ "m_raw_data" \in Server!Queues /\ Raw \in Server!Threads
      /\ out \in [Server!Consumers -> Seq(Item \cup {Garbage})] /\ dropped \subseteq Item /\ failed \subseteq Item
      /\ Raw \in Server!Consumers /\ queue["m_raw_data"] \in Seq(Item) /\ out[Raw] \in Seq(Item \cup {Garbage})
  BY Names DEF ServerOK
<1>1. CASE Idle
  BY <1>1, <1>t, HeldIs, HeldWasIs DEF Idle, Steady, ItemsOK
<1>2. CASE Takes
  <2>1. /\ hand' = [hand EXCEPT ![Raw] = Head(queue["m_raw_data"])] /\ hand[Raw] = NULL
        /\ queue' = [queue EXCEPT !["m_raw_data"] = Tail(@)]
        /\ UNCHANGED <<sent, out, dropped, failed>> /\ queue["m_raw_data"] # <<>>
    BY <1>2 DEF Takes
  <2>2. /\ queue'["m_raw_data"] = Tail(queue["m_raw_data"]) /\ Tail(queue["m_raw_data"]) \in Seq(Item)
        /\ ToSet(queue["m_raw_data"]) = ToSet(Tail(queue["m_raw_data"])) \cup {Head(queue["m_raw_data"])}
    BY <1>t, <2>1, ToSetTail
  <2>3. /\ Head(queue["m_raw_data"]) \in HandsOf(hand')
        /\ HandsOf(hand') \subseteq HandsOf(hand) \cup {Head(queue["m_raw_data"])}
        /\ HandsOf(hand) \subseteq HandsOf(hand') \cup {NULL}
    <3>1. PICK x : x = hand' OBVIOUS
    <3>2. PICK y : y = Head(queue["m_raw_data"]) OBVIOUS
    <3>3. x = [hand EXCEPT ![Raw] = y]
      BY <2>1, <3>1, <3>2
    <3>4. /\ y \in HandsOf(x) /\ HandsOf(x) \subseteq HandsOf(hand) \cup {y}
          /\ HandsOf(hand) \subseteq HandsOf(x) \cup {hand[Raw]}
      BY <1>t, <3>3, HandsChange
    <3> QED
      BY <2>1, <3>1, <3>2, <3>4
  <2>4. Steady
    BY <2>1, <2>2, <2>3, HeldIs, HeldWasIs, Zenon DEF Steady
  <2>5. queue' \in [Server!Queues -> Seq(Item)]
    BY <1>t, <2>1, <2>2
  <2> QED
    BY <1>t, <2>1, <2>4, <2>5 DEF ItemsOK
<1>3. CASE TakesNothing
  <2>1. PICK r \in {NULL, Garbage} : hand' = [hand EXCEPT ![Raw] = r]
    BY <1>3 DEF TakesNothing
  <2>2. hand[Raw] = NULL /\ UNCHANGED <<queue, sent, out, dropped, failed>>
    BY <1>3 DEF TakesNothing
  <2>3. /\ HandsOf(hand') \subseteq HandsOf(hand) \cup {r}
        /\ HandsOf(hand) \subseteq HandsOf(hand') \cup {NULL}
    <3>1. PICK x : x = hand' OBVIOUS
    <3> QED
      BY <1>t, <2>1, <2>2, <3>1, HandsChange
  <2>4. Steady
    BY <2>1, <2>2, <2>3, HeldIs, HeldWasIs DEF Steady
  <2> QED
    BY <1>t, <2>2, <2>4 DEF ItemsOK
<1>r. ASSUME NEW t \in Handlers \cup {Raw}, hand' = [hand EXCEPT ![t] = NULL]
      PROVE  /\ HandsOf(hand') \subseteq HandsOf(hand) \cup {NULL} /\ hand[t] \in HandsOf(hand)
             /\ HandsOf(hand) \subseteq HandsOf(hand') \cup {hand[t]}
  <2>1. PICK x : x = hand' OBVIOUS
  <2>2. PICK V : V = Item \cup {NULL, Garbage} OBVIOUS
  <2>3. hand \in [Server!Threads -> V] /\ x = [hand EXCEPT ![t] = NULL]
    BY <1>t, <1>r, <2>1, <2>2
  <2>4. /\ HandsOf(x) \subseteq HandsOf(hand) \cup {NULL} /\ hand[t] \in HandsOf(hand)
        /\ HandsOf(hand) \subseteq HandsOf(x) \cup {hand[t]}
    BY <2>3, HandsChange, Zenon
  <2> QED
    BY <2>1, <2>4
<1>4. CASE Hands
  <2>1. /\ hand' = [hand EXCEPT ![Raw] = NULL] /\ hand[Raw] \in Item \cup {Garbage}
        /\ out' = [out EXCEPT ![Raw] = Append(@, hand[Raw])]
        /\ UNCHANGED <<queue, sent, dropped, failed>>
    BY <1>4, <1>t DEF Hands
  <2>2. /\ out'[Raw] = Append(out[Raw], hand[Raw])
        /\ Append(out[Raw], hand[Raw]) \in Seq(Item \cup {Garbage})
        /\ ToSet(out'[Raw]) = ToSet(out[Raw]) \cup {hand[Raw]}
    <3>1. PICK x : x = hand[Raw] OBVIOUS
    <3>2. PICK o : o = out[Raw] OBVIOUS
    <3>3. Append(o, x) \in Seq(Item \cup {Garbage}) /\ ToSet(Append(o, x)) = ToSet(o) \cup {x}
      <4>1. PICK S : S = Item \cup {Garbage} OBVIOUS
      <4>2. o \in Seq(S) /\ x \in S
        BY <1>t, <2>1, <3>1, <3>2, <4>1
      <4>3. Append(o, x) \in Seq(S) /\ ToSet(Append(o, x)) = ToSet(o) \cup {x}
        BY <4>2, ToSetAppend
      <4> QED
        BY <4>1, <4>3
    <3>4. out'[Raw] = Append(out[Raw], hand[Raw])
      BY <1>t, <2>1
    <3> QED
      BY <3>1, <3>2, <3>3, <3>4
  <2>3. out' \in [Server!Consumers -> Seq(Item \cup {Garbage})]
    BY <1>t, <2>1, <2>2
  <2>4. Steady
    <3>1. /\ HandsOf(hand') \subseteq HandsOf(hand) \cup {NULL} /\ hand[Raw] \in HandsOf(hand)
          /\ HandsOf(hand) \subseteq HandsOf(hand') \cup {hand[Raw]}
      BY <1>r, <2>1
    <3> QED
      BY <2>1, <2>2, <3>1, HeldIs, HeldWasIs, Zenon DEF Steady
  <2> QED
    BY <1>t, <2>1, <2>3, <2>4 DEF ItemsOK
<1>5. CASE Fails
  <2>1. /\ hand' = [hand EXCEPT ![Raw] = NULL] /\ hand[Raw] \in Item
        /\ failed' = failed \cup {hand[Raw]} /\ UNCHANGED <<queue, sent, dropped, out>>
    BY <1>5 DEF Fails
  <2>2. Steady
    <3>1. /\ HandsOf(hand') \subseteq HandsOf(hand) \cup {NULL} /\ hand[Raw] \in HandsOf(hand)
          /\ HandsOf(hand) \subseteq HandsOf(hand') \cup {hand[Raw]}
      BY <1>r, <2>1
    <3> QED
      BY <2>1, <3>1, HeldIs, HeldWasIs, Zenon DEF Steady
  <2> QED
    BY <1>t, <2>1, <2>2 DEF ItemsOK
<1>6. ASSUME NEW h \in Handlers, GivesUp(h)
      PROVE  Steady /\ UNCHANGED sent /\ ItemsOK(queue', out', sent', dropped', failed')
  <2>1. /\ hand' = [hand EXCEPT ![h] = NULL] /\ hand[h] \in Item
        /\ dropped' = dropped \cup {hand[h]} /\ UNCHANGED <<queue, sent, failed, out>>
    BY <1>6 DEF GivesUp
  <2>2. Steady
    <3>1. /\ HandsOf(hand') \subseteq HandsOf(hand) \cup {NULL} /\ hand[h] \in HandsOf(hand)
          /\ HandsOf(hand) \subseteq HandsOf(hand') \cup {hand[h]}
      BY <1>r, <2>1
    <3> QED
      BY <2>1, <3>1, HeldIs, HeldWasIs, Zenon DEF Steady
  <2> QED
    BY <1>t, <2>1, <2>2 DEF ItemsOK
<1> QED
  BY <1>1, <1>2, <1>3, <1>4, <1>5, <1>6 DEF ConsumerMoves

-----------------------------------------------------------------------------
(* The client.                                                             *)

(* The rows of a round are numbered each once.                             *)
LEMMA Numbered ==
  ASSUME NEW S \in SUBSET Rows, NEW s, s = SetToSeq(S)
  PROVE  /\ s \in Seq(S)
         /\ \A j, k \in DOMAIN s : s[j] = s[k] => j = k
         /\ \A r \in S : \E k \in DOMAIN s : s[k] = r
<1>1. PICK n : n = Cardinality(S) OBVIOUS
<1>2. IsFiniteSet(S)
  BY UplinkAssumption, FS_Subset
<1>3. n \in Nat /\ ExistsBijection(1..n, S)
  BY <1>1, <1>2, FS_CardinalityType
<1>4. \E f \in [1..n -> S] : IsInjective(f)
  BY <1>3 DEF ExistsBijection, Bijection, Injection
<1>5. s \in [1..n -> S] /\ IsInjective(s)
  BY <1>1, <1>4 DEF SetToSeq
<1>6. s \in Seq(S)
  BY <1>3, <1>5
<1>7. \A j, k \in DOMAIN s : s[j] = s[k] => j = k
  BY <1>5 DEF IsInjective
<1>8. s \in Injection(1..n, S)
  BY <1>5 DEF Injection
<1>9. IsFiniteSet(1..n) /\ Cardinality(1..n) = n
  BY <1>3, FS_Interval
<1>10. s \in Surjection(1..n, S)
  BY <1>1, <1>2, <1>8, <1>9, FS_Injection
<1>11. \A r \in S : \E k \in DOMAIN s : s[k] = r
  BY <1>5, <1>10 DEF Surjection
<1> QED
  BY <1>6, <1>7, <1>11

(* The messages of a new round.                                            *)
NewBatch(B, S, n) ==
  /\ B \in Seq(Message)
  /\ \A k \in DOMAIN B : B[k].row \in S /\ B[k].round = n /\ B[k].order = k
  /\ \A j, k \in DOMAIN B : B[j].row = B[k].row => j = k
  /\ \A r \in S : \E k \in DOMAIN B : B[k].row = r

(* A round selects rows that are not saved, with a message for each.       *)
LEMMA RoundBegins ==
  ASSUME ClientOK, ExecMutilSql
  PROVE  /\ NewBatch(batch', selected', round + 1) /\ selected' \subseteq unsaved
         /\ batch = <<>> /\ selected = {}
<1>1. PICK S : S = selected' OBVIOUS
<1>2. PICK s : s = SetToSeq(S) OBVIOUS
<1>3. PICK B : B = [k \in DOMAIN s |-> [row |-> s[k], round |-> round + 1, order |-> k]] OBVIOUS
<1>4. /\ S \in SUBSET Rows /\ batch' = B /\ selected' = S /\ S \subseteq unsaved /\ round + 1 \in Nat
      /\ epc = "sleep"
  BY <1>1, <1>2, <1>3 DEF ClientOK, ExecMutilSql
<1>5. /\ s \in Seq(S)
      /\ \A j, k \in DOMAIN s : s[j] = s[k] => j = k
      /\ \A r \in S : \E k \in DOMAIN s : s[k] = r
  BY <1>2, <1>4, Numbered
<1>6. /\ DOMAIN B = DOMAIN s /\ DOMAIN s = 1..Len(s) /\ Len(s) \in Nat
      /\ \A k \in DOMAIN s : B[k] = [row |-> s[k], round |-> round + 1, order |-> k] /\ s[k] \in S
  BY <1>3, <1>5
<1>7. \A k \in DOMAIN B : /\ B[k] \in Message /\ B[k].row = s[k]
                          /\ B[k].round = round + 1 /\ B[k].order = k /\ s[k] \in S
  BY <1>4, <1>6 DEF Message
<1>8. B \in Seq(Message)
  <2>1. B \in [1..Len(s) -> Message]
    BY <1>3, <1>6, <1>7
  <2> QED
    BY <1>6, <2>1
<1>9. NewBatch(B, S, round + 1)
  <2>1. \A k \in DOMAIN B : B[k].row \in S /\ B[k].round = round + 1 /\ B[k].order = k
    BY <1>7
  <2>2. \A j, k \in DOMAIN B : B[j].row = B[k].row => j = k
    BY <1>5, <1>6, <1>7
  <2>3. \A r \in S : \E k \in DOMAIN B : B[k].row = r
    BY <1>5, <1>6, <1>7
  <2> QED
    BY <1>8, <2>1, <2>2, <2>3, Zenon DEF NewBatch
<1> QED
  BY <1>4, <1>9 DEF ClientOK

UPcs == {"run", "empty", "emptyWoken", "got"}

(* A signal of "empty" only wakes an upload thread that sleeps there.      *)
LEMMA WakeEmptyMoves ==
  ASSUME NEW f \in [Uploaders -> UPcs], NEW g \in WakeEmpty(f)
  PROVE  /\ g \in [Uploaders -> UPcs]
         /\ \A u \in Uploaders : g[u] = f[u] \/ (f[u] = "empty" /\ g[u] = "emptyWoken")
<1>1. CASE g = f
  BY <1>1
<1>2. CASE g # f
  <2>1. PICK u \in {v \in Uploaders : f[v] = "empty"} : g = [f EXCEPT ![u] = "emptyWoken"]
    BY <1>2 DEF WakeEmpty
  <2> QED
    BY <2>1 DEF UPcs
<1> QED
  BY <1>1, <1>2

(* What is in the hands of the upload threads.                             *)
HandsOK(f, d) ==
  /\ f \in [Uploaders -> UPcs]
  /\ d \in [Uploaders -> Letter \cup {Nothing}]
  /\ \A u \in Uploaders : f[u] = "got" => d[u] \in Letter

(* Being woken changes nothing about an upload thread's message.           *)
LEMMA HandsOKWakes ==
  ASSUME NEW f, NEW d, HandsOK(f, d), NEW g \in WakeEmpty(f)
  PROVE  HandsOK(g, d) /\ \A u \in Uploaders : g[u] = "got" <=> f[u] = "got"
<1>1. /\ g \in [Uploaders -> UPcs]
      /\ \A u \in Uploaders : g[u] = f[u] \/ (f[u] = "empty" /\ g[u] = "emptyWoken")
  BY WakeEmptyMoves DEF HandsOK
<1> QED
  BY <1>1 DEF HandsOK

(* An upload thread goes on with a message, or with none where it needs    *)
(* none.                                                                   *)
LEMMA HandsOKSet ==
  ASSUME NEW f, NEW d, HandsOK(f, d), NEW u \in Uploaders, NEW s \in UPcs,
         NEW x \in Letter \cup {Nothing}, s = "got" => x \in Letter
  PROVE  HandsOK([f EXCEPT ![u] = s], [d EXCEPT ![u] = x])
  BY DEF HandsOK

(* An upload thread goes on without a message.                             *)
LEMMA HandsOKRun ==
  ASSUME NEW f, NEW d, HandsOK(f, d), NEW u \in Uploaders, NEW s \in UPcs \ {"got"}
  PROVE  HandsOK([f EXCEPT ![u] = s], d)
  BY DEF HandsOK

LinesOK ==
  /\ unsaved \subseteq Rows /\ selected \subseteq unsaved
  /\ round \in Nat /\ ends \in Nat
  /\ batch \in Seq(Message) /\ glb_head_queue_data \in Seq(Message)
  /\ epc \in {"sleep", "put", "full", "fullWoken"}
  /\ epc = "sleep" => batch = <<>> /\ selected = {}

(* The client's types, by hands and queues.                                *)
LEMMA ClientIs == ClientOK <=> HandsOK(upc, pData) /\ LinesOK
  BY DEF ClientOK, HandsOK, LinesOK, UPcs

(* The same after a step.                                                  *)
LEMMA ClientWasIs == ClientOK' <=> HandsOK(upc', pData') /\ LinesOK'
  BY DEF ClientOK, HandsOK, LinesOK, UPcs

(* Taking a message keeps the client's types.                              *)
LEMMA TakeTypes ==
  ASSUME ClientOK, NEW u \in Uploaders, Take(u),
         UNCHANGED <<unsaved, selected, round, batch, ends, gone>>
  PROVE  ClientOK'
<1>t. HandsOK(upc, pData) /\ LinesOK
  BY ClientIs
<1>1. /\ Head(glb_head_queue_data) \in Message /\ Tail(glb_head_queue_data) \in Seq(Message)
  BY <1>t DEF Take, LinesOK
<1>2. HandsOK(upc', pData')
  BY <1>t, <1>1, HandsOKSet DEF Take, Letter, UPcs
<1>3. LinesOK'
  BY <1>t, <1>1 DEF Take, LinesOK, WakeFull
<1> QED
  BY <1>2, <1>3, ClientWasIs

UploadStep ==
  \/ ExportStep
  \/ \E u \in Uploaders :
       VectorHeadConsumerDataGenerate(u) \/ ConsumerResume(u) \/ Sent(u) \/ SendFails(u)
  \/ ClientEnds
  \/ UNCHANGED upload

(* Every step of the client keeps its types.                               *)
LEMMA NextClientOK == ASSUME ClientOK, UploadStep PROVE ClientOK'
<1>t. HandsOK(upc, pData) /\ LinesOK
  BY ClientIs
<1>u. UNCHANGED <<upc, pData>> => HandsOK(upc', pData')
  BY <1>t
<1>1. CASE ExecMutilSql
  <2>1. batch' \in Seq(Message) /\ selected' \subseteq unsaved
    BY <1>1, RoundBegins DEF NewBatch
  <2>2. LinesOK'
    BY <1>1, <1>t, <2>1 DEF ExecMutilSql, LinesOK
  <2> QED
    BY <1>1, <1>u, <2>2, ClientWasIs DEF ExecMutilSql
<1>2. CASE ProductDataGenerate
  <2>1. Head(batch) \in Message /\ Tail(batch) \in Seq(Message)
    BY <1>2, <1>t DEF ProductDataGenerate, LinesOK
  <2>2. LinesOK'
    <3>1. /\ batch' = Tail(batch) /\ UNCHANGED <<unsaved, selected, round, ends>> /\ epc = "put"
          /\ \/ epc' = "full" /\ UNCHANGED glb_head_queue_data
             \/ epc' = epc /\ glb_head_queue_data' = Append(glb_head_queue_data, Head(batch))
      BY <1>2 DEF ProductDataGenerate
    <3>2. glb_head_queue_data' \in Seq(Message)
      <4>1. glb_head_queue_data \in Seq(Message)
        BY <1>t DEF LinesOK
      <4>2. Append(glb_head_queue_data, Head(batch)) \in Seq(Message)
        BY <2>1, <4>1, ToSetAppend
      <4> QED
        BY <3>1, <4>1, <4>2, Zenon
    <3>3. epc' \in {"put", "full"} /\ batch' \in Seq(Message)
      BY <2>1, <3>1
    <3> QED
      BY <1>t, <3>1, <3>2, <3>3 DEF LinesOK
  <2>3. HandsOK(upc', pData')
    BY <1>2, <1>t, HandsOKWakes DEF ProductDataGenerate
  <2> QED
    BY <2>2, <2>3, ClientWasIs
<1>3. CASE ProductResume
  <2>1. LinesOK'
    BY <1>3, <1>t DEF ProductResume, LinesOK
  <2>2. HandsOK(upc', pData')
    BY <1>3, <1>t, HandsOKWakes DEF ProductResume
  <2> QED
    BY <2>1, <2>2, ClientWasIs
<1>4. CASE WriteTimeUpdateXML
  <2>1. LinesOK'
    BY <1>4, <1>t DEF WriteTimeUpdateXML, LinesOK
  <2> QED
    BY <1>4, <1>u, <2>1, ClientWasIs DEF WriteTimeUpdateXML
<1>5. ASSUME NEW u \in Uploaders, VectorHeadConsumerDataGenerate(u) PROVE ClientOK'
  <2>1. CASE Take(u)
    BY <1>5, <2>1, TakeTypes DEF VectorHeadConsumerDataGenerate
  <2>2. CASE upc' = [upc EXCEPT ![u] = "empty"] /\ UNCHANGED <<glb_head_queue_data, pData, epc>>
    <3>1. HandsOK(upc', pData')
      BY <1>t, <2>2, HandsOKRun DEF UPcs
    <3>2. LinesOK'
      BY <1>5, <1>t, <2>2 DEF VectorHeadConsumerDataGenerate, LinesOK
    <3> QED
      BY <3>1, <3>2, ClientWasIs
  <2> QED
    BY <1>5, <2>1, <2>2 DEF VectorHeadConsumerDataGenerate
<1>6. ASSUME NEW u \in Uploaders, ConsumerResume(u) PROVE ClientOK'
  <2>1. CASE Take(u)
    BY <1>6, <2>1, TakeTypes DEF ConsumerResume
  <2>2. CASE UNCHANGED glb_head_queue_data /\ epc' = WakeFull
    <3>1. LinesOK'
      BY <1>6, <1>t, <2>2 DEF ConsumerResume, LinesOK, WakeFull
    <3>2. CASE upc' = [upc EXCEPT ![u] = "run"] /\ UNCHANGED pData
      BY <1>t, <3>1, <3>2, HandsOKRun, ClientWasIs DEF UPcs
    <3>3. CASE upc' = [upc EXCEPT ![u] = "got"] /\ pData' = [pData EXCEPT ![u] = Wild]
      BY <1>t, <3>1, <3>3, HandsOKSet, ClientWasIs DEF UPcs, Letter
    <3> QED
      BY <1>6, <2>1, <3>2, <3>3 DEF ConsumerResume
  <2> QED
    BY <1>6, <2>1, <2>2 DEF ConsumerResume
<1>7. ASSUME NEW u \in Uploaders, Sent(u) \/ SendFails(u) PROVE ClientOK'
  <2>1. LinesOK'
    BY <1>7, <1>t DEF Sent, SendFails, LinesOK
  <2>2. HandsOK(upc', pData')
    <3>1. upc' = [upc EXCEPT ![u] = "run"] /\ pData' = [pData EXCEPT ![u] = Nothing]
      BY <1>7 DEF Sent, SendFails
    <3>2. HandsOK([upc EXCEPT ![u] = "run"], [pData EXCEPT ![u] = Nothing])
      BY <1>t, HandsOKSet DEF UPcs
    <3> QED
      BY <3>1, <3>2
  <2> QED
    BY <2>1, <2>2, ClientWasIs
<1>8. CASE ClientEnds
  <2>1. LinesOK'
    BY <1>8, <1>t DEF ClientEnds, LinesOK
  <2>2. HandsOK(upc', pData')
    BY <1>8 DEF ClientEnds, HandsOK, UPcs
  <2> QED
    BY <2>1, <2>2, ClientWasIs
<1>9. CASE UNCHANGED upload
  BY <1>9 DEF upload, ClientOK
<1> QED
  BY <1>1, <1>2, <1>3, <1>4, <1>5, <1>6, <1>7, <1>8, <1>9 DEF UploadStep, ExportStep

-----------------------------------------------------------------------------
(* The composition.                                                        *)
LEMMA NextUploadStep == [Next]_vars => UploadStep
<1> SUFFICES ASSUME [Next]_vars PROVE UploadStep
  OBVIOUS
<1>1. CASE Export
  BY <1>1 DEF Export, UploadStep
<1>2. ASSUME NEW u \in Uploaders, Uploader(u) PROVE UploadStep
  BY <1>2 DEF Uploader, SendMessage, SendMessageFails, UploadStep
<1>3. ASSUME NEW h \in Handlers,
             Connect(h) \/ HandlerMessage(h) \/ HandlerResumes(h) \/ RemoveClient(h)
      PROVE  UploadStep
  BY <1>3 DEF Connect, HandlerMessage, HandlerResumes, RemoveClient, UploadStep
<1>4. CASE LinkLost \/ ServerFails \/ RawStep \/ UNCHANGED vars
  BY <1>4 DEF LinkLost, ServerFails, RawStep, vars, UploadStep
<1>5. CASE EndClient
  BY <1>5 DEF EndClient, UploadStep
<1> QED
  BY <1>1, <1>2, <1>3, <1>4, <1>5 DEF Next

Receives(h) ==
  /\ wire[h] # <<>>
  /\ Gains(NewItem(h)) /\ NewItem(h) \in Item /\ Counts(h)
  /\ wire' = [wire EXCEPT ![h] = Tail(@)]
  /\ received' = [received EXCEPT ![h] = Append(@, Head(wire[h]))]

(* Every step keeps the server's types, and brings it an item only with a  *)
(* message received.                                                       *)
LEMMA NextServer ==
  ASSUME ServerOK, [Next]_vars
  PROVE  /\ ServerOK'
         /\ \/ Steady /\ UNCHANGED <<sent, received>>
            \/ \E h \in Handlers : HandlerMessage(h) /\ Receives(h)
<1>u. ASSUME UNCHANGED server, UNCHANGED received
      PROVE  ServerOK' /\ Steady /\ UNCHANGED <<sent, received>>
  <2>1. /\ UNCHANGED <<queue, pc, hand, sent, out, dropped, failed, received>>
    BY <1>u DEF server
  <2> QED
    BY <2>1, HeldIs, HeldWasIs DEF ServerOK, Steady
<1>o. ASSUME Places(pc', hand'), ConsumerMoves \/ \E h \in Handlers : GivesUp(h), UNCHANGED received
      PROVE  ServerOK' /\ Steady /\ UNCHANGED <<sent, received>>
  BY <1>o, OldHeld, ServerWasIs
<1>1. CASE Export \/ LinkLost \/ EndClient
  BY <1>1, <1>u DEF Export, LinkLost, EndClient, network
<1>2. ASSUME NEW u \in Uploaders, Uploader(u)
      PROVE  ServerOK' /\ Steady /\ UNCHANGED <<sent, received>>
  BY <1>2, <1>u DEF Uploader, SendMessage, SendMessageFails, network
<1>3. ASSUME NEW h \in Handlers, Connect(h)
      PROVE  ServerOK' /\ Steady /\ UNCHANGED <<sent, received>>
  BY <1>3, <1>u DEF Connect
<1>4. ASSUME NEW h \in Handlers, HandlerMessage(h)
      PROVE  ServerOK' /\ Receives(h)
  <2>1. Places(pc', hand') /\ (Enqueues(h) \/ Keeps(h)) /\ NewItem(h) \in Item
    BY <1>4, ProductMoves DEF HandlerMessage
  <2>2. Gains(NewItem(h)) /\ ItemsOK(queue', out', sent', dropped', failed')
    BY <2>1, NewHeld
  <2>3. Counts(h)
    BY <2>1 DEF Enqueues, Keeps
  <2> QED
    BY <1>4, <2>1, <2>2, <2>3, ServerWasIs DEF HandlerMessage, Receives
<1>5. ASSUME NEW h \in Handlers, HandlerResumes(h)
      PROVE  ServerOK' /\ Steady /\ UNCHANGED <<sent, received>>
  BY <1>5, <1>o, ResumeMoves DEF HandlerResumes, network
<1>6. ASSUME NEW h \in Handlers, RemoveClient(h)
      PROVE  ServerOK' /\ Steady /\ UNCHANGED <<sent, received>>
  BY <1>6, <1>o, KillMoves DEF RemoveClient, ConsumerMoves
<1>7. CASE RawStep
  BY <1>7, <1>o, RawMoves DEF RawStep, network
<1>8. CASE ServerFails
  <2>1. UNCHANGED <<pc, hand, received>> /\ Idle
    BY <1>8 DEF ServerFails, Server!GarbageCrash, Idle, network
  <2>2. Places(pc', hand')
    BY <2>1, ServerIs
  <2> QED
    BY <1>o, <2>1, <2>2 DEF ConsumerMoves
<1>9. CASE UNCHANGED vars
  BY <1>9, <1>u DEF vars, network
<1> QED
  BY <1>1, <1>2, <1>3, <1>4, <1>5, <1>6, <1>7, <1>8, <1>9 DEF Next

(* Every step keeps the types of the connections.                          *)
LEMMA NextNetworkOK ==
  ASSUME ClientOK, NetworkOK, [Next]_vars
  PROVE  NetworkOK'
<1>t. /\ link \in Handlers \cup {NoLink}
      /\ wire \in [Handlers -> Seq(Letter)] /\ received \in [Handlers -> Seq(Letter)]
  BY DEF NetworkOK
<1>u. UNCHANGED network => NetworkOK'
  BY DEF network, NetworkOK
<1>1. CASE Export \/ ServerFails \/ RawStep \/ UNCHANGED vars
  BY <1>1, <1>u DEF Export, ServerFails, RawStep, vars
<1>2. ASSUME NEW u \in Uploaders, Uploader(u) PROVE NetworkOK'
  <2>1. CASE SendMessage(u)
    <3>1. /\ link \in Handlers /\ pData[u] \in Letter /\ wire' = [wire EXCEPT ![link] = Append(@, pData[u])]
          /\ UNCHANGED <<link, received>>
      BY <1>t, <2>1 DEF SendMessage, Sent, ClientOK
    <3>2. Append(wire[link], pData[u]) \in Seq(Letter)
      BY <1>t, <3>1
    <3> QED
      BY <1>t, <3>1, <3>2 DEF NetworkOK
  <2>2. CASE SendMessageFails(u)
    BY <1>t, <2>2 DEF SendMessageFails, NetworkOK
  <2> QED
    BY <1>2, <1>u, <2>1, <2>2 DEF Uploader
<1>3. ASSUME NEW h \in Handlers, Connect(h) \/ HandlerResumes(h) PROVE NetworkOK'
  BY <1>3, <1>t, <1>u DEF Connect, HandlerResumes, NetworkOK
<1>4. ASSUME NEW h \in Handlers, HandlerMessage(h) PROVE NetworkOK'
  <2>1. Head(wire[h]) \in Letter /\ Tail(wire[h]) \in Seq(Letter) /\ received[h] \in Seq(Letter)
    BY <1>t, <1>4 DEF HandlerMessage
  <2>2. Append(received[h], Head(wire[h])) \in Seq(Letter)
    BY <2>1
  <2> QED
    BY <1>t, <1>4, <2>1, <2>2 DEF HandlerMessage, NetworkOK
<1>5. ASSUME NEW h \in Handlers, RemoveClient(h) PROVE NetworkOK'
  BY <1>t, <1>5 DEF RemoveClient, NetworkOK
<1>6. CASE LinkLost
  <2>1. PICK n \in 0..Len(wire[link]) : wire' = [wire EXCEPT ![link] = SubSeq(@, 1, n)]
    BY <1>6 DEF LinkLost
  <2>2. link \in Handlers /\ SubSeq(wire[link], 1, n) \in Seq(Letter)
    BY <1>t, <1>6 DEF LinkLost
  <2> QED
    BY <1>t, <1>6, <2>1, <2>2 DEF LinkLost, NetworkOK
<1>7. CASE EndClient
  BY <1>t, <1>7 DEF EndClient, NetworkOK
<1> QED
  BY <1>1, <1>2, <1>3, <1>4, <1>5, <1>6, <1>7 DEF Next

(* The type invariant holds at the start.                                  *)
LEMMA InitTypeInv == Init => TypeInv
<1> SUFFICES ASSUME Init PROVE TypeInv
  OBVIOUS
<1>1. ClientOK
  BY DEF Init, UploadInit, ClientOK, Letter
<1>2. NetworkOK
  BY DEF Init, NetworkOK
<1>3. Places(pc, hand)
  BY Names DEF Init, ServerRuns, Places, Server!Pcs
<1>4. ItemsOK(queue, out, sent, dropped, failed)
  <2>1. 0 \in 0..MaxMsgs
    BY Names
  <2> QED
    BY <2>1 DEF Init, ServerRuns, ItemsOK
<1>5. ServerOK
  BY <1>3, <1>4, ServerIs
<1>6. Held \subseteq {NULL}
  BY Names DEF Init, ServerRuns, Held, ToSet
<1>7. KnownInv
  BY <1>6, Names DEF Init, ServerRuns, KnownInv, Known
<1> QED
  BY <1>1, <1>2, <1>5, <1>7 DEF TypeInv

(* Every step keeps it.                                                    *)
LEMMA NextTypeInv ==
  ASSUME TypeInv, [Next]_vars
  PROVE  TypeInv'
<1>1. ClientOK'
  BY NextUploadStep, NextClientOK DEF TypeInv
<1>2. NetworkOK'
  BY NextNetworkOK DEF TypeInv
<1>3. /\ ServerOK'
      /\ \/ Steady /\ UNCHANGED <<sent, received>>
         \/ \E h \in Handlers : Receives(h)
  BY NextServer DEF TypeInv
<1>4. KnownInv'
  <2>1. CASE Steady /\ UNCHANGED <<sent, received>>
    <3>1. \A i \in Held' : Known(i)
      BY <2>1, Names DEF TypeInv, KnownInv, Known, Steady
    <3> QED
      BY <2>1, <3>1 DEF TypeInv, KnownInv, Known
  <2>2. ASSUME NEW h \in Handlers, Receives(h) PROVE KnownInv'
    <3>t. /\ sent \in [Handlers -> 0..MaxMsgs] /\ received \in [Handlers -> Seq(Letter)]
          /\ wire[h] \in Seq(Letter) /\ wire[h] # <<>> /\ \A g \in Handlers : sent[g] = Len(received[g])
      BY <2>2 DEF TypeInv, ServerOK, NetworkOK, KnownInv, Receives
    <3>1. /\ sent'[h] = sent[h] + 1 /\ \A g \in Handlers \ {h} : sent'[g] = sent[g]
          /\ received'[h] = Append(received[h], Head(wire[h]))
          /\ \A g \in Handlers \ {h} : received'[g] = received[g]
      BY <2>2, <3>t DEF Receives, Counts
    <3>2. Len(received'[h]) = Len(received[h]) + 1
      <4>1. received[h] \in Seq(Letter) /\ Head(wire[h]) \in Letter
        BY <3>t
      <4> QED
        BY <3>1, <4>1
    <3>3. \A g \in Handlers : sent'[g] = Len(received'[g])
      BY <3>t, <3>1, <3>2
    <3>4. \A g \in Handlers : sent[g] \in Nat /\ sent'[g] \in Nat /\ sent[g] <= sent'[g]
      BY <3>t, <3>1, Names
    <3>5. ASSUME NEW i \in Held', i \in Item PROVE i.n <= sent'[i.from]
      <4>1. CASE i = NewItem(h)
        BY <3>1, <3>t, <4>1 DEF NewItem
      <4>2. CASE i \in Held
        <5>1. i.n <= sent[i.from] /\ i.from \in Handlers /\ i.n \in Nat
          BY <3>5, <4>2 DEF TypeInv, KnownInv, Known, Item
        <5> QED
          BY <3>4, <5>1
      <4> QED
        BY <2>2, <3>5, <4>1, <4>2, Names DEF Receives, Gains
    <3> QED
      BY <3>3, <3>5 DEF KnownInv, Known
  <2> QED
    BY <1>3, <2>1, <2>2
<1> QED
  BY <1>1, <1>2, <1>3, <1>4 DEF TypeInv

-----------------------------------------------------------------------------
(* Order on the server.                                                    *)
Before(a, b) == (a \in Item /\ b \in Item /\ a.from = b.from) => a.n < b.n

(* What the raw consumer has handed on, what it holds and its deque are in *)
(* the order in which each connection's messages were received.            *)
Ordered(s, h, o) ==
  /\ \A k \in DOMAIN s : Before(h, s[k])
  /\ \A j, k \in DOMAIN s : j < k => Before(s[j], s[k])
  /\ \A j \in DOMAIN o : Before(o[j], h) /\ \A k \in DOMAIN s : Before(o[j], s[k])
  /\ \A j, k \in DOMAIN o : j < k => Before(o[j], o[k])

ServerInv == Ordered(queue["m_raw_data"], hand[Raw], out[Raw])

(* An item that is queued comes behind its connection's earlier ones.      *)
LEMMA OrderedPush ==
  ASSUME NEW S, NEW s \in Seq(S), NEW h, NEW o, NEW i \in S, Ordered(s, h, o), Before(h, i),
         \A k \in DOMAIN s : Before(s[k], i), \A k \in DOMAIN o : Before(o[k], i)
  PROVE  Ordered(Append(s, i), h, o)
<1>1. PICK a : a = Append(s, i) OBVIOUS
<1>2. /\ DOMAIN a = DOMAIN s \cup {Len(s) + 1} /\ a[Len(s) + 1] = i
      /\ \A k \in DOMAIN s : a[k] = s[k] /\ ~(Len(s) + 1 < k)
      /\ ~(Len(s) + 1 < Len(s) + 1)
  BY <1>1
<1>3. \A k \in DOMAIN a : Before(h, a[k])
  BY <1>2 DEF Ordered
<1>4. \A j, k \in DOMAIN a : j < k => Before(a[j], a[k])
  BY <1>2 DEF Ordered
<1>5. \A j \in DOMAIN o : \A k \in DOMAIN a : Before(o[j], a[k])
  BY <1>2 DEF Ordered
<1>6. Ordered(a, h, o)
  BY <1>3, <1>4, <1>5 DEF Ordered
<1> QED
  BY <1>1, <1>6

(* An item that is taken is before those left in the deque.                *)
LEMMA OrderedPop ==
  ASSUME NEW S, NEW s \in Seq(S), s # <<>>, NEW h, NEW o, Ordered(s, h, o)
  PROVE  Ordered(Tail(s), Head(s), o)
<1>1. /\ 1 \in DOMAIN s /\ Head(s) = s[1]
      /\ \A k \in DOMAIN Tail(s) : Tail(s)[k] = s[k + 1] /\ k + 1 \in DOMAIN s /\ 1 < k + 1
      /\ \A j, k \in DOMAIN Tail(s) : j < k => j + 1 < k + 1
  OBVIOUS
<1> QED
  BY <1>1 DEF Ordered

(* What is no item may be held at any time.                                *)
LEMMA OrderedForget ==
  ASSUME NEW s, NEW h, NEW o, Ordered(s, h, o), NEW r, r \notin Item
  PROVE  Ordered(s, r, o)
  BY DEF Ordered, Before

(* An item that is pushed comes behind those pushed before.                *)
LEMMA OrderedHandOn ==
  ASSUME NEW s, NEW T, NEW h \in T, NEW o \in Seq(T), Ordered(s, h, o)
  PROVE  Ordered(s, NULL, Append(o, h))
<1>1. PICK a : a = Append(o, h) OBVIOUS
<1>2. /\ DOMAIN a = DOMAIN o \cup {Len(o) + 1} /\ a[Len(o) + 1] = h
      /\ \A k \in DOMAIN o : a[k] = o[k] /\ ~(Len(o) + 1 < k)
      /\ ~(Len(o) + 1 < Len(o) + 1)
  BY <1>1
<1>3. \A b : Before(NULL, b) /\ Before(b, NULL)
  BY Names DEF Before
<1>4. \A j \in DOMAIN a : \A k \in DOMAIN s : Before(a[j], s[k])
  BY <1>2 DEF Ordered
<1>5. \A j, k \in DOMAIN a : j < k => Before(a[j], a[k])
  BY <1>2 DEF Ordered
<1>6. Ordered(s, NULL, a)
  BY <1>3, <1>4, <1>5 DEF Ordered
<1> QED
  BY <1>1, <1>6

(* What any step does to the server's items.                               *)
LEMMA NextItems ==
  ASSUME ServerOK, [Next]_vars
  PROVE  ConsumerMoves \/ \E h \in Handlers : Enqueues(h) \/ Keeps(h) \/ GivesUp(h)
<1>u. UNCHANGED server => ConsumerMoves
  BY DEF server, ConsumerMoves, Idle
<1>1. CASE Export \/ LinkLost \/ EndClient \/ UNCHANGED vars
  BY <1>1, <1>u DEF Export, LinkLost, EndClient, vars
<1>2. ASSUME NEW u \in Uploaders, Uploader(u) PROVE ConsumerMoves
  BY <1>2, <1>u DEF Uploader, SendMessage, SendMessageFails
<1>3. ASSUME NEW h \in Handlers, Connect(h) PROVE ConsumerMoves
  BY <1>3, <1>u DEF Connect
<1>4. ASSUME NEW h \in Handlers, HandlerMessage(h) PROVE Enqueues(h) \/ Keeps(h)
  BY <1>4, ProductMoves DEF HandlerMessage
<1>5. ASSUME NEW h \in Handlers, HandlerResumes(h) PROVE GivesUp(h)
  BY <1>5, ResumeMoves DEF HandlerResumes
<1>6. ASSUME NEW h \in Handlers, RemoveClient(h) PROVE ConsumerMoves
  BY <1>6, KillMoves DEF RemoveClient, ConsumerMoves
<1>7. CASE RawStep
  BY <1>7, RawMoves DEF RawStep
<1>8. CASE ServerFails
  BY <1>8 DEF ServerFails, Server!GarbageCrash, ConsumerMoves, Idle
<1> QED
  BY <1>1, <1>2, <1>3, <1>4, <1>5, <1>6, <1>7, <1>8 DEF Next

(* Every step keeps the order of the server's items.                       *)
LEMMA NextServerInv ==
  ASSUME TypeInv, ServerInv, [Next]_vars
  PROVE  ServerInv'
<1>t. /\ queue \in [Server!Queues -> Seq(Item)] /\ hand \in [Server!Threads -> Item \cup {NULL, Garbage}]
      /\ sent \in [Handlers -> 0..MaxMsgs] /\ out \in [Server!Consumers -> Seq(Item \cup {Garbage})]
      /\ "m_raw_data" \in Server!Queues /\ Raw \in Server!Threads /\ Raw \in Server!Consumers
      /\ Raw \notin Handlers /\ MaxMsgs \in Nat
  BY Names DEF TypeInv, ServerOK
<1>q. PICK s : s = queue["m_raw_data"] OBVIOUS
<1>h. PICK x : x = hand[Raw] OBVIOUS
<1>o. PICK o : o = out[Raw] OBVIOUS
<1>v. /\ Ordered(s, x, o) /\ s \in Seq(Item) /\ o \in Seq(Item \cup {Garbage})
      /\ x \in Item \cup {NULL, Garbage}
  BY <1>t, <1>q, <1>h, <1>o DEF ServerInv
<1>s. ASSUME UNCHANGED <<queue, out>>, hand'[Raw] = hand[Raw] PROVE ServerInv'
  BY <1>s DEF ServerInv
<1>1. CASE Idle
  BY <1>1, <1>s DEF Idle
<1>2. ASSUME NEW h \in Handlers, Enqueues(h) PROVE ServerInv'
  <2>1. PICK i : i = NewItem(h) OBVIOUS
  <2>2. /\ queue'["m_raw_data"] = Append(s, i) /\ hand'[Raw] = x /\ out'[Raw] = o
        /\ sent[h] \in Nat /\ sent[h] < MaxMsgs
    BY <1>2, <1>t, <1>q, <1>h, <1>o, <2>1 DEF Enqueues, Counts
  <2>3. i \in Item /\ i.from = h /\ i.n = sent[h] + 1
    BY <1>t, <2>1, <2>2 DEF NewItem, Item
  <2>4. ASSUME NEW a \in Held PROVE Before(a, i)
    <3> SUFFICES ASSUME a \in Item, a.from = h PROVE a.n < sent[h] + 1
      BY <2>3 DEF Before
    <3>1. a.n <= sent[h] /\ a.n \in Nat
      BY DEF TypeInv, KnownInv, Known, Item
    <3> QED
      BY <2>2, <3>1
  <2>5. /\ x \in Held /\ (\A k \in DOMAIN s : s[k] \in Held) /\ \A k \in DOMAIN o : o[k] \in Held
    BY <1>q, <1>h, <1>o DEF Held, ToSet
  <2>6. Ordered(Append(s, i), x, o)
    BY <1>v, <2>3, <2>4, <2>5, OrderedPush
  <2> QED
    BY <2>2, <2>6 DEF ServerInv
<1>3. ASSUME NEW h \in Handlers, Keeps(h) \/ GivesUp(h) PROVE ServerInv'
  <2>1. UNCHANGED <<queue, out>> /\ hand'[Raw] = hand[Raw]
    BY <1>3, <1>t DEF Keeps, GivesUp
  <2> QED
    BY <1>s, <2>1
<1>4. CASE Takes
  <2>1. queue'["m_raw_data"] = Tail(s) /\ hand'[Raw] = Head(s) /\ out'[Raw] = o /\ s # <<>>
    BY <1>4, <1>t, <1>q, <1>o DEF Takes
  <2>2. Ordered(Tail(s), Head(s), o)
    BY <1>v, <2>1, OrderedPop
  <2> QED
    BY <2>1, <2>2 DEF ServerInv
<1>5. CASE TakesNothing \/ Fails
  <2>1. PICK r : r = hand'[Raw] OBVIOUS
  <2>2. queue'["m_raw_data"] = s /\ out'[Raw] = o /\ r \in {NULL, Garbage}
    BY <1>5, <1>t, <1>q, <1>o, <2>1 DEF TakesNothing, Fails
  <2>3. Ordered(s, r, o)
    BY <1>v, <2>2, Names, OrderedForget
  <2> QED
    BY <2>1, <2>2, <2>3 DEF ServerInv
<1>6. CASE Hands
  <2>1. queue'["m_raw_data"] = s /\ out'[Raw] = Append(o, x) /\ hand'[Raw] = NULL /\ x # NULL
    BY <1>6, <1>t, <1>q, <1>h, <1>o DEF Hands
  <2>2. PICK T : T = Item \cup {Garbage} OBVIOUS
  <2>3. x \in T /\ o \in Seq(T)
    BY <1>v, <2>1, <2>2
  <2>4. Ordered(s, NULL, Append(o, x))
    BY <1>v, <2>3, OrderedHandOn
  <2> QED
    BY <2>1, <2>4 DEF ServerInv
<1> QED
  BY <1>1, <1>2, <1>3, <1>4, <1>5, <1>6, NextItems DEF ConsumerMoves, TypeInv

-----------------------------------------------------------------------------
(* No message is lost from sight.                                          *)
LEMMA ItemsKept ==
  ASSUME TypeInv, [Next]_vars
  PROVE  /\ Items(Held) \subseteq Items(Held)'
         /\ \/ UNCHANGED <<sent, received>>
            \/ \E h \in Handlers : HandlerMessage(h) /\ Head(wire[h]) \in Items(Held)'
<1>1. CASE Steady /\ UNCHANGED <<sent, received>>
  <2>1. \A i : MessageOf(i)' = MessageOf(i)
    BY <1>1 DEF MessageOf
  <2>2. Items(Held) \subseteq Items(Held)'
    BY <1>1, <2>1 DEF Items, Steady
  <2> QED
    BY <1>1, <2>2
<1>2. ASSUME NEW h \in Handlers, HandlerMessage(h), Receives(h)
      PROVE  Items(Held) \subseteq Items(Held)' /\ Head(wire[h]) \in Items(Held)'
  <2>t. /\ received \in [Handlers -> Seq(Letter)] /\ sent[h] = Len(received[h]) /\ sent[h] \in Nat
        /\ \A g \in Handlers : sent[g] = Len(received[g])
        /\ received' = [received EXCEPT ![h] = Append(@, Head(wire[h]))]
        /\ wire[h] \in Seq(Letter) /\ wire[h] # <<>>
    BY <1>2 DEF TypeInv, NetworkOK, ServerOK, KnownInv, Receives
  <2>1. /\ received[h] \in Seq(Letter) /\ Head(wire[h]) \in Letter
        /\ received'[h] = Append(received[h], Head(wire[h]))
        /\ \A g \in Handlers \ {h} : received'[g] = received[g]
    BY <2>t
  <2>2. /\ received'[h][sent[h] + 1] = Head(wire[h])
        /\ \A n \in 1..sent[h] : received'[h][n] = received[h][n]
    BY <2>t, <2>1
  <2>3. ASSUME NEW i \in Held \ {NULL} PROVE MessageOf(i)' = MessageOf(i)
    <3>1. CASE i = Garbage
      BY <3>1 DEF MessageOf
    <3>2. CASE i \in Item
      <4>1. i.n \in 1..sent[i.from] /\ i.from \in Handlers
        BY <3>2 DEF TypeInv, KnownInv, Known, Item, ServerOK
      <4>2. received'[i.from][i.n] = received[i.from][i.n]
        <5>1. CASE i.from = h
          BY <2>2, <4>1, <5>1, Zenon
        <5>2. CASE i.from # h
          BY <2>1, <4>1, <5>2, Zenon
        <5> QED
          BY <5>1, <5>2
      <4> QED
        BY <4>2 DEF MessageOf
    <3>3. i \in Item \cup {Garbage}
      <4>1. hand \in [Server!Threads -> Item \cup {NULL, Garbage}]
            /\ queue["m_raw_data"] \in Seq(Item) /\ out[Raw] \in Seq(Item \cup {Garbage})
            /\ dropped \subseteq Item /\ failed \subseteq Item /\ Handlers \cup {Raw} \subseteq Server!Threads
        BY Names DEF TypeInv, ServerOK
      <4>2. ToSet(queue["m_raw_data"]) \subseteq Item /\ ToSet(out[Raw]) \subseteq Item \cup {Garbage}
        BY <4>1 DEF ToSet
      <4>3. HandsOf(hand) \subseteq Item \cup {NULL, Garbage}
        BY <4>1 DEF HandsOf
      <4> QED
        BY <4>1, <4>2, <4>3, HeldIs
    <3> QED
      BY <3>1, <3>2, <3>3
  <2>4. Held \ {NULL} \subseteq Held' \ {NULL}
    BY <1>2 DEF Receives, Gains
  <2>5. Items(Held) \subseteq Items(Held)'
    BY <2>3, <2>4 DEF Items
  <2>6. PICK i : i = NewItem(h) OBVIOUS
  <2>7. i \in Held' \ {NULL} /\ i \in Item
    BY <1>2, <2>6, Names DEF Receives, Gains
  <2>8. i.from = h /\ i.n = sent[h] + 1 /\ i # Garbage
    BY <2>6, <2>7, Names DEF NewItem
  <2>9. MessageOf(i)' = Head(wire[h])
    BY <2>2, <2>8 DEF MessageOf
  <2>10. Head(wire[h]) \in Items(Held)'
    BY <2>7, <2>9 DEF Items
  <2> QED
    BY <2>5, <2>10
<1> QED
  BY <1>1, <1>2, NextServer DEF TypeInv

Holding(f, d) == {d[u] : u \in {v \in Uploaders : f[v] = "got"}}

(* What the upload threads hold when one of them makes a step.             *)
LEMMA HoldingSet ==
  ASSUME NEW f, NEW d, NEW g, NEW e, HandsOK(f, d), HandsOK(g, e), NEW u \in Uploaders,
         \A v \in Uploaders \ {u} : f[v] = "got" => g[v] = "got" /\ e[v] = d[v]
  PROVE  /\ Holding(f, d) \subseteq Holding(g, e) \cup {d[u]}
         /\ f[u] # "got" => Holding(f, d) \subseteq Holding(g, e)
         /\ g[u] = "got" => e[u] \in Holding(g, e)
  BY DEF Holding

(* Being woken changes nothing about what they hold.                       *)
LEMMA HoldingWakes ==
  ASSUME NEW f, NEW d, HandsOK(f, d), NEW g \in WakeEmpty(f)
  PROVE  Holding(g, d) = Holding(f, d)
<1>1. \A u \in Uploaders : g[u] = "got" <=> f[u] = "got"
  BY HandsOKWakes
<1> QED
  BY <1>1 DEF Holding

(* The messages in the client's memory, by place.                          *)
LEMMA MemoryIs ==
  InMemory = ToSet(batch) \cup ToSet(glb_head_queue_data) \cup Holding(upc, pData)
  BY DEF InMemory, Holding

(* The same after a step.                                                  *)
LEMMA MemoryWasIs ==
  InMemory' = ToSet(batch') \cup ToSet(glb_head_queue_data') \cup Holding(upc', pData')
  BY DEF InMemory, Holding

(* Taking a message keeps it in memory.                                    *)
LEMMA TakeKeepsMessages ==
  ASSUME ClientOK, ClientOK', NEW u \in Uploaders, upc[u] # "got", Take(u), UNCHANGED <<batch, gone>>
  PROVE  InMemory \subseteq InMemory'
<1>t. HandsOK(upc, pData) /\ HandsOK(upc', pData') /\ glb_head_queue_data \in Seq(Message)
  BY ClientIs, ClientWasIs DEF LinesOK
<1>1. /\ ToSet(glb_head_queue_data) = ToSet(glb_head_queue_data') \cup {Head(glb_head_queue_data)}
      /\ UNCHANGED batch
  BY <1>t, ToSetTail DEF Take
<1>2. /\ upc'[u] = "got" /\ pData'[u] = Head(glb_head_queue_data)
      /\ \A v \in Uploaders \ {u} : upc[v] = "got" => upc'[v] = "got" /\ pData'[v] = pData[v]
  BY <1>t DEF Take, HandsOK
<1>3. PICK g : g = upc' OBVIOUS
<1>4. PICK e : e = pData' OBVIOUS
<1>5. /\ Holding(upc, pData) \subseteq Holding(g, e)
      /\ e[u] \in Holding(g, e)
  BY <1>t, <1>2, <1>3, <1>4, HoldingSet
<1> QED
  BY <1>1, <1>2, <1>3, <1>4, <1>5, MemoryIs, MemoryWasIs

(* A step of the client keeps a message in memory or gives it up, except   *)
(* the one that is sent.                                                   *)
KeepingStep ==
  \/ ExportStep
  \/ \E u \in Uploaders :
       VectorHeadConsumerDataGenerate(u) \/ ConsumerResume(u) \/ SendFails(u)
  \/ ClientEnds
  \/ UNCHANGED upload

(* No message leaves the client's memory but by being given up or sent.    *)
LEMMA ClientKeeps ==
  ASSUME ClientOK, ClientOK'
  PROVE  /\ KeepingStep => (InMemory \ {Wild}) \cup gone \subseteq InMemory' \cup gone'
         /\ \A u \in Uploaders :
              Sent(u) => InMemory \cup gone \subseteq InMemory' \cup gone' \cup {pData[u]}
<1> DEFINE Kept == (InMemory \ {Wild}) \cup gone \subseteq InMemory' \cup gone'
<1>t. /\ HandsOK(upc, pData) /\ HandsOK(upc', pData')
      /\ batch \in Seq(Message) /\ glb_head_queue_data \in Seq(Message)
  BY ClientIs, ClientWasIs DEF LinesOK
<1>1. ASSUME ExecMutilSql PROVE Kept
  <2>1. ToSet(batch) = {} /\ UNCHANGED <<glb_head_queue_data, upc, pData, gone>>
    BY <1>1, RoundBegins DEF ExecMutilSql, ToSet
  <2> QED
    BY <2>1, MemoryIs, MemoryWasIs
<1>2. ASSUME ProductDataGenerate PROVE Kept
  <2>1. /\ batch # <<>> /\ batch' = Tail(batch) /\ UNCHANGED pData
        /\ \/ /\ gone' = gone \cup {Head(batch)}
              /\ UNCHANGED <<glb_head_queue_data, upc>>
           \/ /\ glb_head_queue_data' = Append(glb_head_queue_data, Head(batch))
              /\ upc' \in WakeEmpty(upc)
              /\ UNCHANGED gone
    BY <1>2 DEF ProductDataGenerate
  <2>2. ToSet(batch) = ToSet(batch') \cup {Head(batch)} /\ Head(batch) \in Message
    BY <1>t, <2>1, ToSetTail
  <2>3. CASE gone' = gone \cup {Head(batch)} /\ UNCHANGED <<glb_head_queue_data, upc>>
    BY <2>1, <2>2, <2>3, MemoryIs, MemoryWasIs
  <2>4. CASE /\ glb_head_queue_data' = Append(glb_head_queue_data, Head(batch))
             /\ upc' \in WakeEmpty(upc) /\ UNCHANGED gone
    <3>1. ToSet(glb_head_queue_data') = ToSet(glb_head_queue_data) \cup {Head(batch)}
      <4>1. PICK x : x = Head(batch) OBVIOUS
      <4> QED
        BY <1>t, <2>2, <2>4, <4>1, ToSetAppend
    <3>2. Holding(upc', pData') = Holding(upc, pData)
      BY <1>t, <2>1, <2>4, HoldingWakes
    <3> QED
      BY <2>2, <2>4, <3>1, <3>2, MemoryIs, MemoryWasIs
  <2> QED
    BY <2>1, <2>3, <2>4
<1>3. ASSUME ProductResume PROVE Kept
  <2>1. UNCHANGED <<batch, glb_head_queue_data, pData, gone>> /\ upc' \in WakeEmpty(upc)
    BY <1>3 DEF ProductResume
  <2>2. Holding(upc', pData') = Holding(upc, pData)
    BY <1>t, <2>1, HoldingWakes
  <2> QED
    BY <2>1, <2>2, MemoryIs, MemoryWasIs
<1>4. ASSUME WriteTimeUpdateXML \/ UNCHANGED upload PROVE Kept
  <2>1. UNCHANGED <<batch, glb_head_queue_data, upc, pData, gone>>
    BY <1>4 DEF WriteTimeUpdateXML, upload
  <2> QED
    BY <2>1, MemoryIs, MemoryWasIs
<1>5. ASSUME NEW u \in Uploaders, VectorHeadConsumerDataGenerate(u) \/ ConsumerResume(u)
      PROVE  Kept
  <2>1. upc[u] # "got" /\ UNCHANGED <<batch, gone>>
    BY <1>5 DEF VectorHeadConsumerDataGenerate, ConsumerResume
  <2>2. CASE Take(u)
    BY <2>1, <2>2, TakeKeepsMessages
  <2>3. CASE ~Take(u)
    <3>1. /\ UNCHANGED glb_head_queue_data
          /\ \A v \in Uploaders \ {u} : upc'[v] = upc[v] /\ pData'[v] = pData[v]
      BY <1>5, <1>t, <2>3 DEF VectorHeadConsumerDataGenerate, ConsumerResume, HandsOK
    <3>2. PICK g : g = upc' OBVIOUS
    <3>3. PICK e : e = pData' OBVIOUS
    <3>4. Holding(upc, pData) \subseteq Holding(g, e)
      BY <1>t, <2>1, <3>1, <3>2, <3>3, HoldingSet
    <3> QED
      BY <2>1, <3>1, <3>2, <3>3, <3>4, MemoryIs, MemoryWasIs
  <2> QED
    BY <2>2, <2>3
<1>6. ASSUME NEW u \in Uploaders, Sent(u) \/ SendFails(u)
      PROVE  InMemory \subseteq InMemory' \cup {pData[u]}
  <2>1. /\ UNCHANGED <<batch, glb_head_queue_data>>
        /\ \A v \in Uploaders \ {u} : upc'[v] = upc[v] /\ pData'[v] = pData[v]
    BY <1>6, <1>t DEF Sent, SendFails, HandsOK
  <2>2. PICK g : g = upc' OBVIOUS
  <2>3. PICK e : e = pData' OBVIOUS
  <2>4. Holding(upc, pData) \subseteq Holding(g, e) \cup {pData[u]}
    BY <1>t, <2>1, <2>2, <2>3, HoldingSet
  <2> QED
    BY <2>1, <2>2, <2>3, <2>4, MemoryIs, MemoryWasIs
<1>7. ASSUME NEW u \in Uploaders, Sent(u)
      PROVE  InMemory \cup gone \subseteq InMemory' \cup gone' \cup {pData[u]}
  BY <1>6, <1>7 DEF Sent
<1>8. ASSUME NEW u \in Uploaders, SendFails(u) PROVE Kept
  BY <1>6, <1>8 DEF SendFails
<1>9. ASSUME ClientEnds PROVE Kept
  BY <1>9 DEF ClientEnds
<1> QED
  BY <1>1, <1>2, <1>3, <1>4, <1>5, <1>7, <1>8, <1>9 DEF KeepingStep, ExportStep

(* Every step keeps the messages or sends one.                             *)
LEMMA NextKeeping == [Next]_vars => KeepingStep \/ \E u \in Uploaders : SendMessage(u)
<1> SUFFICES ASSUME [Next]_vars PROVE KeepingStep \/ \E u \in Uploaders : SendMessage(u)
  OBVIOUS
<1>1. CASE Export
  BY <1>1 DEF Export, KeepingStep
<1>2. ASSUME NEW u \in Uploaders, Uploader(u) PROVE KeepingStep \/ SendMessage(u)
  BY <1>2 DEF Uploader, SendMessageFails, KeepingStep
<1>3. ASSUME NEW h \in Handlers,
             Connect(h) \/ HandlerMessage(h) \/ HandlerResumes(h) \/ RemoveClient(h)
      PROVE  KeepingStep
  BY <1>3 DEF Connect, HandlerMessage, HandlerResumes, RemoveClient, KeepingStep
<1>4. CASE LinkLost \/ ServerFails \/ RawStep \/ UNCHANGED vars
  BY <1>4 DEF LinkLost, ServerFails, RawStep, vars, KeepingStep
<1>5. CASE EndClient
  BY <1>5 DEF EndClient, KeepingStep
<1> QED
  BY <1>1, <1>2, <1>3, <1>4, <1>5 DEF Next

(* A connection keeps a message, or is lost with it, or the server has     *)
(* received it.                                                            *)
LEMMA NetworkKeeps ==
  ASSUME TypeInv, [Next]_vars
  PROVE  /\ Underway \cup strayed \subseteq Underway' \cup strayed' \cup Items(Held)'
         /\ \A u \in Uploaders : SendMessage(u) => pData[u] \in Underway'
<1>t. wire \in [Handlers -> Seq(Letter)] /\ link \in Handlers \cup {NoLink}
  BY DEF TypeInv, NetworkOK
<1>i. \/ UNCHANGED <<sent, received>>
      \/ \E h \in Handlers : HandlerMessage(h) /\ Head(wire[h]) \in Items(Held)'
  BY ItemsKept
<1> DEFINE Kept == Underway \cup strayed \subseteq Underway' \cup strayed' \cup Items(Held)'
<1>u. UNCHANGED <<wire, strayed>> => Kept
  BY DEF Underway
<1>w. ASSUME NEW h \in Handlers, \A g \in Handlers \ {h} : wire'[g] = wire[g], NEW S,
             ToSet(wire[h]) \subseteq ToSet(wire'[h]) \cup S
      PROVE  Underway \subseteq Underway' \cup S
  BY <1>w DEF Underway
<1>1. ASSUME NEW u \in Uploaders, SendMessage(u) PROVE Kept /\ pData[u] \in Underway'
  <2>1. link \in Handlers /\ pData[u] \in Letter /\ UNCHANGED strayed
        /\ wire' = [wire EXCEPT ![link] = Append(@, pData[u])]
    BY <1>1, <1>t DEF SendMessage, Sent, TypeInv, ClientOK
  <2>2. PICK x : x = pData[u] OBVIOUS
  <2>3. PICK h : h = link OBVIOUS
  <2>4. wire'[h] = Append(wire[h], x) /\ wire[h] \in Seq(Letter) /\ x \in Letter /\ h \in Handlers
        /\ \A g \in Handlers \ {h} : wire'[g] = wire[g]
    BY <1>t, <2>1, <2>2, <2>3
  <2>5. ToSet(wire'[h]) = ToSet(wire[h]) \cup {x}
    BY <2>4, ToSetAppend
  <2>6. Underway \subseteq Underway' \cup {}
    BY <1>w, <2>4, <2>5
  <2>7. x \in Underway'
    BY <2>4, <2>5 DEF Underway
  <2> QED
    BY <2>1, <2>2, <2>6, <2>7
<1>2. ASSUME NEW h \in Handlers, HandlerMessage(h) PROVE Kept
  <2>1. /\ wire[h] # <<>> /\ wire' = [wire EXCEPT ![h] = Tail(@)] /\ UNCHANGED strayed
        /\ received' = [received EXCEPT ![h] = Append(@, Head(wire[h]))]
    BY <1>2 DEF HandlerMessage
  <2>2. Head(wire[h]) \in Items(Held)'
    <3>1. PICK g \in Handlers : HandlerMessage(g) /\ Head(wire[g]) \in Items(Held)'
      <4>1. received' # received
        <5>1. received[h] \in Seq(Letter) /\ received'[h] = Append(received[h], Head(wire[h]))
              /\ Head(wire[h]) \in Letter
          BY <1>t, <2>1 DEF TypeInv, NetworkOK
        <5>2. Len(received'[h]) = Len(received[h]) + 1 /\ Len(received[h]) \in Nat
          BY <5>1
        <5> QED
          BY <5>2
      <4> QED
        BY <1>i, <4>1
    <3>2. CASE g = h
      BY <3>1, <3>2
    <3>3. CASE g # h
      <4>1. wire'[h] = wire[h] /\ wire'[h] = Tail(wire[h]) /\ wire[h] \in Seq(Letter) /\ wire[h] # <<>>
        BY <1>t, <2>1, <3>1, <3>3 DEF HandlerMessage
      <4>2. Len(Tail(wire[h])) = Len(wire[h]) - 1 /\ Len(wire[h]) \in Nat
        BY <4>1
      <4>3. Len(wire[h]) = Len(wire[h]) - 1
        BY <4>1, <4>2
      <4> QED
        BY <4>2, <4>3
    <3> QED
      BY <3>2, <3>3
  <2>3. /\ wire'[h] = Tail(wire[h]) /\ wire[h] \in Seq(Letter)
        /\ \A g \in Handlers \ {h} : wire'[g] = wire[g]
    BY <1>t, <2>1
  <2>4. ToSet(wire[h]) = ToSet(wire'[h]) \cup {Head(wire[h])}
    BY <2>1, <2>3, ToSetTail
  <2>5. PICK x : x = Head(wire[h]) OBVIOUS
  <2>6. Underway \subseteq Underway' \cup {x}
    BY <1>w, <2>3, <2>4, <2>5
  <2> QED
    BY <2>1, <2>2, <2>5, <2>6
<1>3. ASSUME LinkLost PROVE Kept
  <2>1. PICK n \in 0..Len(wire[link]) :
          /\ wire' = [wire EXCEPT ![link] = SubSeq(@, 1, n)]
          /\ strayed' = strayed \cup ToSet(SubSeq(wire[link], n + 1, Len(wire[link])))
    BY <1>3 DEF LinkLost
  <2>2. PICK h : h = link OBVIOUS
  <2>3. PICK s : s = wire[h] OBVIOUS
  <2>4. PICK a : a = SubSeq(s, 1, n) OBVIOUS
  <2>5. PICK b : b = SubSeq(s, n + 1, Len(s)) OBVIOUS
  <2>6. /\ h \in Handlers /\ s \in Seq(Letter) /\ n \in 0..Len(s) /\ wire'[h] = a
        /\ strayed' = strayed \cup ToSet(b) /\ \A g \in Handlers \ {h} : wire'[g] = wire[g]
    BY <1>3, <1>t, <2>1, <2>2, <2>3, <2>4, <2>5 DEF LinkLost
  <2>7. ASSUME NEW k \in DOMAIN s PROVE s[k] \in ToSet(a) \cup ToSet(b)
    <3>1. /\ DOMAIN s = 1..Len(s) /\ Len(s) \in Nat /\ DOMAIN a = 1..n
          /\ \A j \in 1..n : a[j] = s[j]
      BY <2>4, <2>6
    <3>2. /\ DOMAIN b = 1..(Len(s) - n)
          /\ \A j \in 1..(Len(s) - n) : b[j] = s[j + n]
      BY <2>5, <2>6
    <3>3. CASE k <= n
      BY <3>1, <3>3 DEF ToSet
    <3>4. CASE k > n
      <4>1. k - n \in DOMAIN b /\ (k - n) + n = k
        BY <2>6, <3>1, <3>2, <3>4
      <4>2. b[k - n] = s[k]
        BY <3>2, <4>1
      <4> QED
        BY <4>1, <4>2 DEF ToSet
    <3> QED
      BY <2>6, <3>1, <3>3, <3>4
  <2>8. ToSet(wire[h]) \subseteq ToSet(wire'[h]) \cup ToSet(b)
    BY <2>3, <2>6, <2>7 DEF ToSet
  <2>9. Underway \subseteq Underway' \cup ToSet(b)
    BY <1>w, <2>6, <2>8
  <2> QED
    BY <2>6, <2>9
<1>4. ASSUME NEW h \in Handlers, RemoveClient(h) PROVE Kept
  <2>1. /\ wire' = [wire EXCEPT ![h] = <<>>] /\ strayed' = strayed \cup ToSet(wire[h])
        /\ \A g \in Handlers \ {h} : wire'[g] = wire[g]
    BY <1>4, <1>t DEF RemoveClient
  <2>2. PICK S : S = ToSet(wire[h]) OBVIOUS
  <2>3. Underway \subseteq Underway' \cup S
    BY <1>w, <2>1, <2>2
  <2> QED
    BY <2>1, <2>2, <2>3
<1>5. ASSUME Export \/ EndClient \/ ServerFails \/ RawStep \/ UNCHANGED vars PROVE Kept
  BY <1>5, <1>u DEF Export, EndClient, ServerFails, RawStep, vars, network
<1>6. ASSUME NEW u \in Uploaders, Uploader(u) PROVE Kept
  BY <1>1, <1>6, <1>u DEF Uploader, SendMessageFails, network
<1>7. ASSUME NEW h \in Handlers, Connect(h) \/ HandlerResumes(h) PROVE Kept
  BY <1>7, <1>u DEF Connect, HandlerResumes, network
<1>8. Kept
  BY <1>2, <1>3, <1>4, <1>5, <1>6, <1>7 DEF Next
<1> QED
  BY <1>1, <1>8

(* All messages there are, by place.                                       *)
LEMMA EverywhereIs ==
  Everywhere = InMemory \cup gone \cup Underway \cup strayed \cup Items(Held)
  BY DEF Everywhere, OnServer, LostOnServer, Pushed, Items, Held

(* The same after a step.                                                  *)
LEMMA EverywhereWasIs ==
  Everywhere' = InMemory' \cup gone' \cup Underway' \cup strayed' \cup Items(Held)'
  BY DEF Everywhere, OnServer, LostOnServer, Pushed, Items, Held

(* No step loses sight of a message.                                       *)
LEMMA NothingLost ==
  ASSUME TypeInv, TypeInv', [Next]_vars
  PROVE  Everywhere \ {Wild} \subseteq Everywhere'
<1>1. ClientOK /\ ClientOK'
  BY DEF TypeInv
<1>2. Items(Held) \subseteq Items(Held)'
  BY ItemsKept
<1>3. Underway \cup strayed \subseteq Underway' \cup strayed' \cup Items(Held)'
  BY NetworkKeeps
<1>4. CASE KeepingStep
  <2>1. (InMemory \ {Wild}) \cup gone \subseteq InMemory' \cup gone'
    BY <1>1, <1>4, ClientKeeps
  <2> QED
    BY <1>2, <1>3, <2>1, EverywhereIs, EverywhereWasIs
<1>5. ASSUME NEW u \in Uploaders, SendMessage(u)
      PROVE  Everywhere \ {Wild} \subseteq Everywhere'
  <2>1. InMemory \cup gone \subseteq InMemory' \cup gone' \cup {pData[u]}
    BY <1>1, <1>5, ClientKeeps DEF SendMessage
  <2>2. pData[u] \in Underway'
    BY <1>5, NetworkKeeps
  <2> QED
    BY <1>2, <1>3, <2>1, <2>2, EverywhereIs, EverywhereWasIs
<1> QED
  BY <1>4, <1>5, NextKeeping

(* The rows of the round under way have their messages.                    *)
TrackInv ==
  /\ RowTracked
  /\ \A r \in selected : \E m \in Everywhere \ {Wild} : m.row = r

(* Every step keeps a message, or a place that gave it up, for every row   *)
(* of the round.                                                           *)
LEMMA NextTrackInv ==
  ASSUME TypeInv, TypeInv', TrackInv, [Next]_vars
  PROVE  TrackInv'
<1>1. PICK E : E = Everywhere \ {Wild} OBVIOUS
<1>2. PICK F : F = Everywhere' OBVIOUS
<1>3. E \subseteq F \ {Wild}
  BY <1>1, <1>2, NothingLost
<1>4. /\ \A r \in Rows : r \in unsaved \/ \E m \in E : m.row = r
      /\ \A r \in selected : \E m \in E : m.row = r
  BY <1>1 DEF TrackInv, RowTracked
<1>5. SUFFICES /\ \A r \in Rows : r \in unsaved' \/ \E m \in F \ {Wild} : m.row = r
               /\ \A r \in selected' : \E m \in F \ {Wild} : m.row = r
  BY <1>2 DEF TrackInv, RowTracked
<1>6. ASSUME ExecMutilSql
      PROVE  UNCHANGED unsaved /\ \A r \in selected' : \E m \in F \ {Wild} : m.row = r
  <2>1. NewBatch(batch', selected', round + 1)
    BY <1>6, RoundBegins DEF TypeInv
  <2>2. PICK B : B = batch' OBVIOUS
  <2>3. /\ B \in Seq(Message) /\ \A r \in selected' : \E k \in DOMAIN B : B[k].row = r
    BY <2>1, <2>2 DEF NewBatch
  <2>4. \A k \in DOMAIN B : B[k] \in Message
    BY <2>3
  <2>5. \A k \in DOMAIN B : B[k] \in F
    BY <1>2, <2>2 DEF Everywhere, InMemory, ToSet
  <2> QED
    BY <1>6, <2>3, <2>4, <2>5, UplinkAssumption DEF ExecMutilSql
<1>7. ASSUME ~ExecMutilSql
      PROVE  (UNCHANGED unsaved \/ unsaved' = unsaved \ selected) /\ selected' \subseteq selected
  BY <1>7, NextUploadStep DEF UploadStep, ExportStep, ProductDataGenerate, ProductResume,
       WriteTimeUpdateXML, VectorHeadConsumerDataGenerate, ConsumerResume, Sent, SendFails,
       ClientEnds, upload
<1>8. CASE ExecMutilSql
  BY <1>3, <1>4, <1>6, <1>8
<1>9. CASE ~ExecMutilSql
  BY <1>3, <1>4, <1>7, <1>9
<1> QED
  BY <1>8, <1>9

(* At the start there is no round.                                         *)
LEMMA InitTrackInv == Init => TrackInv
  BY DEF Init, UploadInit, TrackInv, RowTracked

(* Every changed row is still to be selected or has a message at a known   *)
(* place, whatever is lost on the way: the times are saved                 *)
(* (WriteTimeUpdateXML) only for rows that have been put into messages,    *)
(* and no step of the client, of a connection or of the server lets a      *)
(* message go without one of the known losses.                             *)
THEOREM RowTrackedHolds == Spec => []RowTracked
<1>1. Init => TypeInv /\ TrackInv
  BY InitTypeInv, InitTrackInv
<1>2. (TypeInv /\ TrackInv) /\ [Next]_vars => (TypeInv /\ TrackInv)'
  BY NextTypeInv, NextTrackInv
<1>3. TrackInv => RowTracked
  BY DEF TrackInv
<1> QED
  BY <1>1, <1>2, <1>3, PTL DEF Spec

-----------------------------------------------------------------------------
(* The lines in which messages stand between the selection of their row    *)
(* and the server's queue.                                                 *)
Batch       == <<"batch", 0>>
Queue       == <<"queue", 0>>
HandOf(u)   == <<"hand", u>>
Wire(h)     == <<"wire", h>>
Received(h) == <<"received", h>>

Lanes ==
  {Batch, Queue} \cup {HandOf(u) : u \in Uploaders}
    \cup {Wire(h) : h \in Handlers} \cup {Received(h) : h \in Handlers}

InHand(f, d) == IF f = "got" THEN <<d>> ELSE <<>>

Lines ==
  [l \in Lanes |->
     CASE l[1] = "batch"    -> batch
       [] l[1] = "queue"    -> glb_head_queue_data
       [] l[1] = "hand"     -> InHand(upc[l[2]], pData[l[2]])
       [] l[1] = "wire"     -> wire[l[2]]
       [] l[1] = "received" -> received[l[2]]]

(* The names of the lines are different.                                   *)
LEMMA LanesDiffer ==
  /\ Batch # Queue
  /\ \A u : Batch # HandOf(u) /\ Queue # HandOf(u)
  /\ \A h : Batch # Wire(h) /\ Queue # Wire(h) /\ Batch # Received(h) /\ Queue # Received(h)
  /\ \A u, h : HandOf(u) # Wire(h) /\ HandOf(u) # Received(h)
  /\ \A g, h : Wire(g) # Received(h)
  /\ \A g, h : g # h => HandOf(g) # HandOf(h) /\ Wire(g) # Wire(h) /\ Received(g) # Received(h)
  BY DEF Batch, Queue, HandOf, Wire, Received

(* The lines are the batch, the queue, the hands, the wires and what was   *)
(* received.                                                               *)
LEMMA LanesAre ==
  /\ Batch \in Lanes /\ Queue \in Lanes
  /\ \A u \in Uploaders : HandOf(u) \in Lanes
  /\ \A h \in Handlers : Wire(h) \in Lanes /\ Received(h) \in Lanes
  /\ \A l \in Lanes : \/ l = Batch \/ l = Queue
                      \/ \E u \in Uploaders : l = HandOf(u)
                      \/ \E h \in Handlers : l = Wire(h) \/ l = Received(h)
  BY DEF Lanes

(* What stands in each line.                                               *)
LEMMA LinesAre ==
  /\ Lines[Batch] = batch /\ Lines[Queue] = glb_head_queue_data
  /\ \A u \in Uploaders : Lines[HandOf(u)] = InHand(upc[u], pData[u])
  /\ \A h \in Handlers : Lines[Wire(h)] = wire[h] /\ Lines[Received(h)] = received[h]
<1>1. Lines[Batch] = batch
  BY LanesAre DEF Lines, Batch
<1>2. Lines[Queue] = glb_head_queue_data
  BY LanesAre DEF Lines, Queue
<1>3. ASSUME NEW u \in Uploaders PROVE Lines[HandOf(u)] = InHand(upc[u], pData[u])
  BY LanesAre DEF Lines, HandOf
<1>4. ASSUME NEW h \in Handlers PROVE Lines[Wire(h)] = wire[h]
  BY LanesAre DEF Lines, Wire
<1>5. ASSUME NEW h \in Handlers PROVE Lines[Received(h)] = received[h]
  BY LanesAre DEF Lines, Received
<1> QED
  BY <1>1, <1>2, <1>3, <1>4, <1>5

(* The same after a step.                                                  *)
LEMMA LinesWere ==
  /\ Lines'[Batch] = batch' /\ Lines'[Queue] = glb_head_queue_data'
  /\ \A u \in Uploaders : Lines'[HandOf(u)] = InHand(upc'[u], pData'[u])
  /\ \A h \in Handlers : Lines'[Wire(h)] = wire'[h] /\ Lines'[Received(h)] = received'[h]
<1>1. Lines'[Batch] = batch'
  BY LanesAre DEF Lines, Batch
<1>2. Lines'[Queue] = glb_head_queue_data'
  BY LanesAre DEF Lines, Queue
<1>3. ASSUME NEW u \in Uploaders PROVE Lines'[HandOf(u)] = InHand(upc'[u], pData'[u])
  BY LanesAre DEF Lines, HandOf
<1>4. ASSUME NEW h \in Handlers PROVE Lines'[Wire(h)] = wire'[h]
  BY LanesAre DEF Lines, Wire
<1>5. ASSUME NEW h \in Handlers PROVE Lines'[Received(h)] = received'[h]
  BY LanesAre DEF Lines, Received
<1> QED
  BY <1>1, <1>2, <1>3, <1>4, <1>5

(* Messages stand in the lines.                                            *)
LEMMA LinesType ==
  ASSUME TypeInv PROVE \A l \in Lanes : Lines[l] \in Seq(Letter)
<1>1. /\ batch \in Seq(Letter) /\ glb_head_queue_data \in Seq(Letter)
      /\ \A h \in Handlers : wire[h] \in Seq(Letter) /\ received[h] \in Seq(Letter)
  BY DEF TypeInv, ClientOK, NetworkOK, Letter
<1>2. \A u \in Uploaders : InHand(upc[u], pData[u]) \in Seq(Letter)
  BY DEF TypeInv, ClientOK, InHand
<1> QED
  BY <1>1, <1>2, LanesAre, LinesAre

(* The kinds of step on the lines: the first of one becomes the last of    *)
(* another ...                                                             *)
Moves(Q, R, a, b) ==
  /\ a # b /\ Q[a] # <<>>
  /\ R[a] = Tail(Q[a])
  /\ R[b] = Append(Q[b], Head(Q[a]))
  /\ \A l \in Lanes \ {a, b} : R[l] = Q[l]

(* ... some go, from one end or both, d[l] of them from the front of l, or *)
(* nothing comes, which is not a message ...                               *)
Shrinks(Q, R, d) ==
  \A l \in Lanes : \A j \in DOMAIN R[l] :
    R[l][j] = Wild \/ (j + d[l] \in DOMAIN Q[l] /\ R[l][j] = Q[l][j + d[l]])

(* ... or a round begins.                                                  *)
Begins(Q, R, S, n) ==
  /\ NewBatch(R[Batch], S, n)
  /\ Q[Batch] = <<>>
  /\ \A l \in Lanes \ {Batch} : R[l] = Q[l]

(* Where a message was before it stood at j of l.                          *)
Origin(Q, a, b, l, j, m, i) ==
  \/ l = a /\ m = a /\ i = j + 1
  \/ l = b /\ j = Len(Q[b]) + 1 /\ m = a /\ i = 1
  \/ l = b /\ j < Len(Q[b]) + 1 /\ m = b /\ i = j
  \/ l \notin {a, b} /\ m = l /\ i = j

(* What stands in a line after a move stood in one before.                 *)
LEMMA Origins ==
  ASSUME NEW Q, \A l \in Lanes : Q[l] \in Seq(Letter), NEW R, NEW a \in Lanes, NEW b \in Lanes,
         Moves(Q, R, a, b), NEW l \in Lanes, NEW j \in DOMAIN R[l]
  PROVE  \E m \in Lanes : \E i \in DOMAIN Q[m] :
           R[l][j] = Q[m][i]
            /\ Origin(Q, a, b, l, j, m, i) /\ j \in Nat /\ i \in Nat
<1>1. PICK s : s = Q[a] OBVIOUS
<1>2. PICK t : t = Q[b] OBVIOUS
<1>3. PICK x : x = Head(s) OBVIOUS
<1>4. s \in Seq(Letter) /\ s # <<>> /\ t \in Seq(Letter) /\ x \in Letter
  BY <1>1, <1>2, <1>3 DEF Moves
<1>5. 1 \in DOMAIN s /\ s[1] = x
  BY <1>3, <1>4
<1>6. CASE l = a
  <2>1. R[l] = Tail(s)
    BY <1>1, <1>6 DEF Moves
  <2>2. j \in DOMAIN Tail(s)
    BY <2>1
  <2>3. j \in Nat /\ j + 1 \in DOMAIN s /\ Tail(s)[j] = s[j + 1]
    BY <1>4, <2>2
  <2> QED
    BY <1>1, <1>6, <2>1, <2>3 DEF Origin
<1>7. CASE l = b
  <2>1. R[l] = Append(t, x)
    BY <1>1, <1>2, <1>3, <1>7 DEF Moves
  <2>2. j \in DOMAIN Append(t, x)
    BY <2>1
  <2>3. /\ j \in Nat /\ Len(t) \in Nat
        /\ \/ j = Len(t) + 1 /\ Append(t, x)[j] = x
           \/ j < Len(t) + 1 /\ j \in DOMAIN t /\ Append(t, x)[j] = t[j]
    BY <1>4, <2>2
  <2>4. CASE j = Len(t) + 1 /\ Append(t, x)[j] = x
    BY <1>1, <1>2, <1>5, <1>7, <2>1, <2>3, <2>4 DEF Origin
  <2>5. CASE j < Len(t) + 1 /\ j \in DOMAIN t /\ Append(t, x)[j] = t[j]
    BY <1>2, <1>7, <2>1, <2>3, <2>5 DEF Origin
  <2> QED
    BY <2>3, <2>4, <2>5
<1>8. CASE l \notin {a, b}
  <2>1. R[l] = Q[l] /\ Q[l] \in Seq(Letter)
    BY <1>8 DEF Moves
  <2>2. j \in Nat
    <3>1. DOMAIN Q[l] \subseteq Nat
      BY <2>1
    <3> QED
      BY <2>1, <3>1
  <2> QED
    BY <1>8, <2>1, <2>2 DEF Origin
<1> QED
  BY <1>6, <1>7, <1>8

-----------------------------------------------------------------------------
(* No two messages are of one row.                                         *)
OneEach(Q) ==
  \A a, b \in Lanes : \A j \in DOMAIN Q[a], k \in DOMAIN Q[b] :
    Q[a][j] # Wild /\ Q[b][k] # Wild /\ Q[a][j].row = Q[b][k].row => a = b /\ j = k

(* None is of a row that is still to be selected.                          *)
Fresh(Q, S) ==
  \A a \in Lanes : \A j \in DOMAIN Q[a] : Q[a][j] # Wild => Q[a][j].row \notin S

(* A move puts no row in two places.                                       *)
LEMMA OnceMoves ==
  ASSUME NEW Q, \A l \in Lanes : Q[l] \in Seq(Letter), NEW R, NEW a \in Lanes, NEW b \in Lanes,
         Moves(Q, R, a, b), OneEach(Q), NEW S, Fresh(Q, S)
  PROVE  OneEach(R) /\ Fresh(R, S)
<1>1. ASSUME NEW l \in Lanes, NEW j \in DOMAIN R[l], R[l][j] # Wild PROVE R[l][j].row \notin S
  <2>1. PICK m, i : m \in Lanes /\ i \in DOMAIN Q[m] /\ R[l][j] = Q[m][i]
    BY Origins
  <2> QED
    BY <1>1, <2>1 DEF Fresh
<1>2. ASSUME NEW l \in Lanes, NEW p \in Lanes, NEW j \in DOMAIN R[l], NEW k \in DOMAIN R[p],
             R[l][j] # Wild, R[p][k] # Wild, R[l][j].row = R[p][k].row
      PROVE  l = p /\ j = k
  <2>1. PICK m, i :
          m \in Lanes /\ i \in DOMAIN Q[m] /\ R[l][j] = Q[m][i]
            /\ Origin(Q, a, b, l, j, m, i) /\ j \in Nat /\ i \in Nat
    BY Origins
  <2>2. PICK q, n :
          q \in Lanes /\ n \in DOMAIN Q[q] /\ R[p][k] = Q[q][n]
            /\ Origin(Q, a, b, p, k, q, n) /\ k \in Nat /\ n \in Nat
    BY Origins
  <2>3. m = q /\ i = n
    BY <1>2, <2>1, <2>2 DEF OneEach
  <2>4. PICK z : z = Len(Q[b]) OBVIOUS
  <2>5. z \in Nat
    BY <2>4
  <2>6. DOMAIN R[a] \subseteq Nat \ {0}
    <3>1. Tail(Q[a]) \in Seq(Letter) /\ R[a] = Tail(Q[a])
      BY DEF Moves
    <3> QED
      BY <3>1
  <2>7. /\ \/ l = a /\ m = a /\ i = j + 1 /\ j # 0
           \/ l = b /\ j = z + 1 /\ m = a /\ i = 1
           \/ l = b /\ m = b /\ i = j
           \/ l \notin {a, b} /\ m = l /\ i = j
        /\ \/ p = a /\ q = a /\ n = k + 1 /\ k # 0
           \/ p = b /\ k = z + 1 /\ q = a /\ n = 1
           \/ p = b /\ q = b /\ n = k
           \/ p \notin {a, b} /\ q = p /\ n = k
    BY <2>1, <2>2, <2>4, <2>6 DEF Origin
  <2>8. a # b
    BY DEF Moves
  <2> QED
    BY <2>1, <2>2, <2>3, <2>5, <2>7, <2>8
<1> QED
  BY <1>1, <1>2 DEF OneEach, Fresh

(* Nor does a step that only takes messages away.                          *)
LEMMA OnceShrinks ==
  ASSUME NEW Q, NEW R, NEW d \in [Lanes -> Nat], Shrinks(Q, R, d),
         \A l \in Lanes : R[l] \in Seq(Letter), OneEach(Q), NEW S, Fresh(Q, S)
  PROVE  OneEach(R) /\ Fresh(R, S)
<1>1. ASSUME NEW l \in Lanes, NEW j \in DOMAIN R[l], R[l][j] # Wild PROVE R[l][j].row \notin S
  BY <1>1 DEF Fresh, Shrinks
<1>2. ASSUME NEW l \in Lanes, NEW p \in Lanes, NEW j \in DOMAIN R[l], NEW k \in DOMAIN R[p],
             R[l][j] # Wild, R[p][k] # Wild, R[l][j].row = R[p][k].row
      PROVE  l = p /\ j = k
  <2>1. PICK i : i = j + d[l] OBVIOUS
  <2>2. PICK n : n = k + d[p] OBVIOUS
  <2>3. i \in DOMAIN Q[l] /\ R[l][j] = Q[l][i] /\ n \in DOMAIN Q[p] /\ R[p][k] = Q[p][n]
    BY <1>2, <2>1, <2>2 DEF Shrinks
  <2>4. l = p /\ i = n
    <3>1. Q[l][i] # Wild /\ Q[p][n] # Wild /\ Q[l][i].row = Q[p][n].row
      BY <1>2, <2>3
    <3> QED
      BY <2>3, <3>1, ZenonT(60) DEF OneEach
  <2>5. l = p /\ j + d[l] = k + d[p]
    BY <2>1, <2>2, <2>4
  <2>6. j \in Nat /\ k \in Nat /\ d[l] \in Nat
    <3>1. R[l] \in Seq(Letter) /\ R[p] \in Seq(Letter)
      OBVIOUS
    <3>2. DOMAIN R[l] \subseteq Nat /\ DOMAIN R[p] \subseteq Nat
      BY <3>1
    <3> QED
      BY <3>2
  <2> QED
    BY <2>5, <2>6
<1> QED
  BY <1>1, <1>2 DEF OneEach, Fresh

(* Nor does a new round, whose rows had no message yet.                    *)
LEMMA OnceBegins ==
  ASSUME NEW Q, NEW R, NEW S, NEW U, NEW n, Begins(Q, R, S, n), S \subseteq U, OneEach(Q), Fresh(Q, U)
  PROVE  OneEach(R) /\ Fresh(R, U \ S)
<1>1. PICK B : B = R[Batch] OBVIOUS
<1>2. /\ \A k \in DOMAIN B : B[k].row \in S
      /\ \A j, k \in DOMAIN B : B[j].row = B[k].row => j = k
  BY <1>1 DEF Begins, NewBatch
<1>3. \A l \in Lanes : l = Batch \/ R[l] = Q[l]
  BY DEF Begins
<1>4. ASSUME NEW l \in Lanes, NEW j \in DOMAIN R[l], R[l][j] # Wild
      PROVE  IF l = Batch THEN R[l][j].row \in S ELSE R[l][j].row \notin U
  BY <1>1, <1>2, <1>3, <1>4 DEF Fresh
<1>5. Fresh(R, U \ S)
  BY <1>4 DEF Fresh
<1>6. ASSUME NEW l \in Lanes, NEW p \in Lanes, NEW j \in DOMAIN R[l], NEW k \in DOMAIN R[p],
             R[l][j] # Wild, R[p][k] # Wild, R[l][j].row = R[p][k].row
      PROVE  l = p /\ j = k
  <2>1. CASE l = Batch /\ p = Batch
    BY <1>1, <1>2, <1>6, <2>1
  <2>2. CASE l # Batch /\ p # Batch
    <3>1. R[l] = Q[l] /\ R[p] = Q[p]
      BY <1>3, <2>2
    <3> QED
      BY <1>6, <3>1 DEF OneEach
  <2>3. CASE (l = Batch) # (p = Batch)
    BY <1>4, <1>6, <2>3
  <2> QED
    BY <2>1, <2>2, <2>3
<1> QED
  BY <1>5, <1>6 DEF OneEach

-----------------------------------------------------------------------------
(* Every step is one of these kinds.                                       *)
LEMMA ShrinksTo ==
  ASSUME NEW Q, \A l \in Lanes : Q[l] \in Seq(Letter), NEW R,
         \A l \in Lanes : \/ R[l] = Q[l] \/ R[l] = <<>> \/ R[l] = <<Wild>>
                          \/ \E n \in 0..Len(Q[l]) : R[l] = SubSeq(Q[l], 1, n)
  PROVE  \E d \in [Lanes -> Nat] : Shrinks(Q, R, d)
<1>1. PICK d : d = [l \in Lanes |-> 0] OBVIOUS
<1>2. d \in [Lanes -> Nat] /\ \A l \in Lanes : d[l] = 0
  BY <1>1
<1>3. ASSUME NEW l \in Lanes, NEW j \in DOMAIN R[l]
      PROVE  R[l][j] = Wild \/ (j + d[l] \in DOMAIN Q[l] /\ R[l][j] = Q[l][j + d[l]])
  <2>1. PICK s : s = Q[l] OBVIOUS
  <2>2. PICK r : r = R[l] OBVIOUS
  <2>3. s \in Seq(Letter) /\ j \in DOMAIN r
        /\ (r = s \/ r = <<>> \/ r = <<Wild>> \/ \E n \in 0..Len(s) : r = SubSeq(s, 1, n))
    BY <2>1, <2>2
  <2>4. r[j] = Wild \/ (j \in Nat /\ j \in DOMAIN s /\ r[j] = s[j])
    <3>1. CASE r = s
      BY <2>3, <3>1
    <3>2. CASE r = <<>> \/ r = <<Wild>>
      BY <2>3, <3>2
    <3>3. ASSUME NEW n \in 0..Len(s), r = SubSeq(s, 1, n) PROVE j \in Nat /\ j \in DOMAIN s /\ r[j] = s[j]
      BY <2>3, <3>3
    <3> QED
      BY <2>3, <3>1, <3>2, <3>3
  <2>5. j \in Nat => j + d[l] = j
    BY <1>2
  <2> QED
    BY <2>1, <2>2, <2>4, <2>5
<1> QED
  BY <1>2, <1>3 DEF Shrinks

(* Losing the first of a line is such a step.                              *)
LEMMA ShrinksTail ==
  ASSUME NEW Q, \A l \in Lanes : Q[l] \in Seq(Letter), NEW R, NEW a \in Lanes, Q[a] # <<>>,
         R[a] = Tail(Q[a]), \A l \in Lanes \ {a} : R[l] = Q[l]
  PROVE  \E d \in [Lanes -> Nat] : Shrinks(Q, R, d)
<1>1. PICK d : d = [l \in Lanes |-> IF l = a THEN 1 ELSE 0] OBVIOUS
<1>2. d \in [Lanes -> Nat] /\ d[a] = 1 /\ \A l \in Lanes \ {a} : d[l] = 0
  BY <1>1
<1>3. ASSUME NEW l \in Lanes, NEW j \in DOMAIN R[l]
      PROVE  j + d[l] \in DOMAIN Q[l] /\ R[l][j] = Q[l][j + d[l]]
  <2>1. PICK s : s = Q[l] OBVIOUS
  <2>2. s \in Seq(Letter)
    BY <2>1
  <2>3. CASE l = a
    <3>1. R[l] = Tail(s) /\ s # <<>>
      BY <2>1, <2>3
    <3>2. j \in DOMAIN Tail(s)
      BY <3>1
    <3>3. j + 1 \in DOMAIN s /\ Tail(s)[j] = s[j + 1]
      BY <2>2, <3>1, <3>2
    <3> QED
      BY <1>2, <2>1, <2>3, <3>1, <3>3
  <2>4. CASE l # a
    <3>1. R[l] = s
      BY <2>1, <2>4
    <3>2. j \in DOMAIN s
      BY <3>1
    <3>3. j + 0 = j
      BY <2>2, <3>2
    <3> QED
      BY <1>2, <2>1, <2>4, <3>1, <3>2, <3>3
  <2> QED
    BY <2>3, <2>4
<1> QED
  BY <1>2, <1>3 DEF Shrinks

Adjacent(a, b) ==
  \/ a = Batch /\ b = Queue
  \/ a = Queue /\ \E u \in Uploaders : b = HandOf(u)
  \/ (\E u \in Uploaders : a = HandOf(u)) /\ \E h \in Handlers : b = Wire(h)
  \/ \E h \in Handlers : a = Wire(h) /\ b = Received(h)

LinesMove   == \E a, b \in Lanes : Adjacent(a, b) /\ Moves(Lines, Lines', a, b)
LinesShrink == \E d \in [Lanes -> Nat] : Shrinks(Lines, Lines', d)

(* Being woken changes no hand.                                            *)
LEMMA SameHands ==
  ASSUME ClientOK, upc' \in WakeEmpty(upc) \cup {upc}, UNCHANGED pData
  PROVE  \A u \in Uploaders : InHand(upc'[u], pData'[u]) = InHand(upc[u], pData[u])
<1>1. HandsOK(upc, pData)
  BY ClientIs
<1>2. \A u \in Uploaders : upc'[u] = "got" <=> upc[u] = "got"
  BY <1>1, HandsOKWakes
<1> QED
  BY <1>2 DEF InHand

(* An upload thread moves the first of the queue to its hand.              *)
LEMMA TakeMoves ==
  ASSUME TypeInv, NEW u \in Uploaders, upc[u] # "got", Take(u), UNCHANGED <<batch, wire, received>>
  PROVE  LinesMove
<1>t. /\ upc \in [Uploaders -> UPcs] /\ pData \in [Uploaders -> Letter \cup {Nothing}]
  BY DEF TypeInv, ClientOK, UPcs
<1>1. /\ upc'[u] = "got" /\ pData'[u] = Head(glb_head_queue_data)
      /\ glb_head_queue_data # <<>> /\ glb_head_queue_data' = Tail(glb_head_queue_data)
      /\ \A v \in Uploaders \ {u} : upc'[v] = upc[v] /\ pData'[v] = pData[v]
  BY <1>t DEF Take
<1>2. PICK x : x = Head(glb_head_queue_data) OBVIOUS
<1>3. InHand(upc'[u], pData'[u]) = Append(InHand(upc[u], pData[u]), x)
  <2>1. InHand(upc'[u], pData'[u]) = <<x>> /\ InHand(upc[u], pData[u]) = <<>>
    BY <1>1, <1>2 DEF InHand
  <2>2. Append(<<>>, x) = <<x>>
    OBVIOUS
  <2> QED
    BY <2>1, <2>2
<1>4. \A l \in Lanes \ {Queue, HandOf(u)} : Lines'[l] = Lines[l]
  BY <1>1, LanesAre, LinesAre, LinesWere
<1>5. Moves(Lines, Lines', Queue, HandOf(u))
  BY <1>1, <1>2, <1>3, <1>4, LanesDiffer, LinesAre, LinesWere DEF Moves
<1> QED
  BY <1>5, LanesAre DEF LinesMove, Adjacent

(* Every step moves a message, takes some away, or begins a round.         *)
LEMMA NextLines ==
  ASSUME TypeInv, [Next]_vars
  PROVE  \/ ExecMutilSql /\ Begins(Lines, Lines', selected', round + 1)
         \/ LinesMove
         \/ LinesShrink
<1>q. PICK Q : Q = Lines OBVIOUS
<1>r. PICK R : R = Lines' OBVIOUS
<1>t. /\ \A l \in Lanes : Q[l] \in Seq(Letter)
      /\ wire \in [Handlers -> Seq(Letter)] /\ received \in [Handlers -> Seq(Letter)]
      /\ link \in Handlers \cup {NoLink} /\ ClientOK
      /\ upc \in [Uploaders -> UPcs] /\ pData \in [Uploaders -> Letter \cup {Nothing}]
  BY <1>q, LinesType DEF TypeInv, NetworkOK, ClientOK, UPcs
<1>s. (\A l \in Lanes : \/ R[l] = Q[l] \/ R[l] = <<>> \/ R[l] = <<Wild>>
                        \/ \E n \in 0..Len(Q[l]) : R[l] = SubSeq(Q[l], 1, n)) => LinesShrink
  BY <1>q, <1>r, <1>t, ShrinksTo DEF LinesShrink
<1>u. ASSUME UNCHANGED <<batch, glb_head_queue_data, wire, received>>,
             \A u \in Uploaders : InHand(upc'[u], pData'[u]) = InHand(upc[u], pData[u])
      PROVE  LinesShrink
  <2>1. \A l \in Lanes : R[l] = Q[l]
    BY <1>q, <1>r, <1>u, LanesAre, LinesAre, LinesWere
  <2> QED
    BY <1>s, <2>1
<1>1. ASSUME UNCHANGED network, ExecMutilSql
      PROVE  Begins(Lines, Lines', selected', round + 1)
  <2>1. NewBatch(batch', selected', round + 1) /\ batch = <<>>
    BY <1>1, <1>t, RoundBegins
  <2>2. UNCHANGED <<glb_head_queue_data, upc, pData, wire, received>>
    BY <1>1 DEF ExecMutilSql, network
  <2>3. \A l \in Lanes \ {Batch} : Lines'[l] = Lines[l]
    BY <2>2, LanesAre, LinesAre, LinesWere
  <2> QED
    BY <2>1, <2>3, LinesAre, LinesWere DEF Begins
<1>2. ASSUME UNCHANGED network, ProductDataGenerate PROVE LinesMove \/ LinesShrink
  <2>1. UNCHANGED <<wire, received, pData>> /\ batch # <<>> /\ batch' = Tail(batch)
    BY <1>2 DEF ProductDataGenerate, network
  <2>2. CASE UNCHANGED <<glb_head_queue_data, upc>>
    <3>1. \A l \in Lanes \ {Batch} : R[l] = Q[l]
      BY <1>q, <1>r, <2>1, <2>2, LanesAre, LinesAre, LinesWere
    <3>2. R[Batch] = Tail(Q[Batch]) /\ Q[Batch] # <<>>
      BY <1>q, <1>r, <2>1, LinesAre, LinesWere
    <3> QED
      BY <1>q, <1>r, <1>t, <3>1, <3>2, ShrinksTail, LanesAre DEF LinesShrink
  <2>3. CASE /\ glb_head_queue_data' = Append(glb_head_queue_data, Head(batch))
             /\ upc' \in WakeEmpty(upc)
    <3>1. \A u \in Uploaders : InHand(upc'[u], pData'[u]) = InHand(upc[u], pData[u])
      BY <1>t, <2>1, <2>3, SameHands
    <3>2. \A l \in Lanes \ {Batch, Queue} : Lines'[l] = Lines[l]
      BY <2>1, <3>1, LanesAre, LinesAre, LinesWere
    <3>3. Moves(Lines, Lines', Batch, Queue)
      BY <2>1, <2>3, <3>2, LanesDiffer, LinesAre, LinesWere DEF Moves
    <3> QED
      BY <3>3, LanesAre DEF LinesMove, Adjacent
  <2> QED
    BY <1>2, <2>2, <2>3 DEF ProductDataGenerate
<1>3. ASSUME UNCHANGED network, ProductResume \/ WriteTimeUpdateXML PROVE LinesShrink
  <2>1. /\ UNCHANGED <<batch, glb_head_queue_data, pData, wire, received>>
        /\ upc' \in WakeEmpty(upc) \cup {upc}
    BY <1>3 DEF ProductResume, WriteTimeUpdateXML, network
  <2> QED
    BY <1>t, <1>u, <2>1, SameHands
<1>4. ASSUME UNCHANGED network, NEW u \in Uploaders,
             VectorHeadConsumerDataGenerate(u) \/ ConsumerResume(u)
      PROVE  LinesMove \/ LinesShrink
  <2>1. upc[u] # "got" /\ UNCHANGED <<batch, wire, received>>
    BY <1>4 DEF VectorHeadConsumerDataGenerate, ConsumerResume, network
  <2>2. CASE Take(u)
    BY <2>1, <2>2, TakeMoves
  <2>3. CASE ~Take(u)
    <3>1. /\ UNCHANGED glb_head_queue_data
          /\ \A v \in Uploaders \ {u} : upc'[v] = upc[v] /\ pData'[v] = pData[v]
          /\ upc'[u] \in {"empty", "run"} \/ (upc'[u] = "got" /\ pData'[u] = Wild)
      BY <1>4, <1>t, <2>3 DEF VectorHeadConsumerDataGenerate, ConsumerResume
    <3>2. InHand(upc'[u], pData'[u]) \in {<<>>, <<Wild>>}
      BY <3>1 DEF InHand
    <3>3. \A l \in Lanes : R[l] = Q[l] \/ R[l] = <<>> \/ R[l] = <<Wild>>
      BY <1>q, <1>r, <2>1, <3>1, <3>2, LanesAre, LinesAre, LinesWere
    <3> QED
      BY <1>s, <3>3
  <2> QED
    BY <2>2, <2>3
<1>5. ASSUME NEW u \in Uploaders, SendMessage(u) PROVE LinesMove
  <2>1. PICK h : h = link OBVIOUS
  <2>2. /\ h \in Handlers /\ upc[u] = "got" /\ upc'[u] = "run"
        /\ UNCHANGED <<batch, glb_head_queue_data, received>>
        /\ \A v \in Uploaders \ {u} : upc'[v] = upc[v] /\ pData'[v] = pData[v]
        /\ wire'[h] = Append(wire[h], pData[u]) /\ \A g \in Handlers \ {h} : wire'[g] = wire[g]
    BY <1>5, <1>t, <2>1 DEF SendMessage, Sent
  <2>3. PICK x : x = pData[u] OBVIOUS
  <2>4. InHand(upc[u], pData[u]) = <<x>> /\ InHand(upc'[u], pData'[u]) = <<>>
    BY <2>2, <2>3 DEF InHand
  <2>5. <<x>> # <<>> /\ Tail(<<x>>) = <<>> /\ Head(<<x>>) = x
    OBVIOUS
  <2>6. \A l \in Lanes \ {HandOf(u), Wire(h)} : Lines'[l] = Lines[l]
    BY <2>2, LanesAre, LinesAre, LinesWere
  <2>7. /\ Lines[HandOf(u)] = <<x>> /\ Lines'[HandOf(u)] = <<>>
        /\ Lines'[Wire(h)] = Append(Lines[Wire(h)], x)
    BY <2>2, <2>3, <2>4, LinesAre, LinesWere
  <2>8. Moves(Lines, Lines', HandOf(u), Wire(h))
    BY <2>5, <2>6, <2>7, LanesDiffer DEF Moves
  <2> QED
    BY <2>2, <2>8, LanesAre DEF LinesMove, Adjacent
<1>6. ASSUME NEW u \in Uploaders, SendMessageFails(u) PROVE LinesShrink
  <2>1. /\ UNCHANGED <<batch, glb_head_queue_data, wire, received>> /\ upc'[u] = "run"
        /\ \A v \in Uploaders \ {u} : upc'[v] = upc[v] /\ pData'[v] = pData[v]
    BY <1>6, <1>t DEF SendMessageFails, SendFails
  <2>2. InHand(upc'[u], pData'[u]) = <<>>
    BY <2>1 DEF InHand
  <2>3. \A l \in Lanes : R[l] = Q[l] \/ R[l] = <<>>
    BY <1>q, <1>r, <2>1, <2>2, LanesAre, LinesAre, LinesWere
  <2> QED
    BY <1>s, <2>3
<1>7. ASSUME NEW h \in Handlers, HandlerMessage(h) PROVE LinesMove
  <2>1. /\ wire[h] # <<>> /\ wire'[h] = Tail(wire[h])
        /\ received'[h] = Append(received[h], Head(wire[h]))
        /\ \A g \in Handlers \ {h} : wire'[g] = wire[g] /\ received'[g] = received[g]
        /\ UNCHANGED <<batch, glb_head_queue_data, upc, pData>>
    BY <1>7, <1>t DEF HandlerMessage, upload
  <2>2. \A l \in Lanes \ {Wire(h), Received(h)} : Lines'[l] = Lines[l]
    BY <2>1, LanesAre, LinesAre, LinesWere
  <2>3. Moves(Lines, Lines', Wire(h), Received(h))
    BY <2>1, <2>2, LanesDiffer, LinesAre, LinesWere DEF Moves
  <2> QED
    BY <2>3, LanesAre DEF LinesMove, Adjacent
<1>8. ASSUME LinkLost PROVE LinesShrink
  <2>1. PICK h : h = link OBVIOUS
  <2>2. PICK n \in 0..Len(wire[link]) : wire' = [wire EXCEPT ![link] = SubSeq(@, 1, n)]
    BY <1>8 DEF LinkLost
  <2>3. /\ h \in Handlers /\ n \in 0..Len(wire[h]) /\ wire'[h] = SubSeq(wire[h], 1, n)
        /\ \A g \in Handlers \ {h} : wire'[g] = wire[g]
        /\ UNCHANGED <<batch, glb_head_queue_data, upc, pData, received>>
    BY <1>8, <1>t, <2>1, <2>2 DEF LinkLost, upload
  <2>4. \A l \in Lanes : R[l] = Q[l] \/ \E k \in 0..Len(Q[l]) : R[l] = SubSeq(Q[l], 1, k)
    BY <1>q, <1>r, <2>3, LanesAre, LinesAre, LinesWere
  <2> QED
    BY <1>s, <2>4
<1>9. ASSUME NEW h \in Handlers, RemoveClient(h) PROVE LinesShrink
  <2>1. /\ wire'[h] = <<>> /\ \A g \in Handlers \ {h} : wire'[g] = wire[g]
        /\ UNCHANGED <<batch, glb_head_queue_data, upc, pData, received>>
    BY <1>9, <1>t DEF RemoveClient, upload
  <2>2. \A l \in Lanes : R[l] = Q[l] \/ R[l] = <<>>
    BY <1>q, <1>r, <2>1, LanesAre, LinesAre, LinesWere
  <2> QED
    BY <1>s, <2>2
<1>10. ASSUME EndClient PROVE LinesShrink
  <2>1. /\ batch' = <<>> /\ glb_head_queue_data' = <<>> /\ UNCHANGED <<wire, received>>
        /\ \A u \in Uploaders : upc'[u] = "run"
    BY <1>10 DEF EndClient, ClientEnds
  <2>2. \A u \in Uploaders : InHand(upc'[u], pData'[u]) = <<>>
    BY <2>1 DEF InHand
  <2>3. \A l \in Lanes : R[l] = Q[l] \/ R[l] = <<>>
    BY <1>q, <1>r, <2>1, <2>2, LanesAre, LinesAre, LinesWere
  <2> QED
    BY <1>s, <2>3
<1>11. ASSUME \/ \E h \in Handlers : Connect(h) \/ HandlerResumes(h)
              \/ ServerFails \/ RawStep \/ UNCHANGED vars
       PROVE  LinesShrink
  <2>1. UNCHANGED <<upload, wire, received>>
    BY <1>11 DEF Connect, HandlerResumes, ServerFails, RawStep, vars, network
  <2>2. UNCHANGED <<batch, glb_head_queue_data, upc, pData, wire, received>>
    BY <2>1 DEF upload
  <2> QED
    BY <1>u, <2>2
<1>12. CASE Export
  BY <1>1, <1>2, <1>3, <1>12 DEF Export, ExportStep
<1>13. ASSUME NEW u \in Uploaders, Uploader(u) PROVE LinesMove \/ LinesShrink
  BY <1>4, <1>5, <1>6, <1>13 DEF Uploader
<1> QED
  BY <1>7, <1>8, <1>9, <1>10, <1>11, <1>12, <1>13 DEF Next

-----------------------------------------------------------------------------
(* A row is sent once.                                                     *)
OnceInv == ends = 0 => OneEach(Lines) /\ Fresh(Lines, unsaved \ selected)

(* Every step keeps every row in one place at most, until the client ends. *)
LEMMA NextOnceInv ==
  ASSUME TypeInv, TypeInv', OnceInv, [Next]_vars
  PROVE  OnceInv'
<1> SUFFICES ASSUME ends' = 0 PROVE OneEach(Lines)' /\ Fresh(Lines, unsaved \ selected)'
  BY DEF OnceInv
<1>1. /\ ends = 0
      /\ \/ ExecMutilSql
         \/ unsaved' \ selected' = unsaved \ selected
  <2>1. ASSUME ExportStep PROVE UNCHANGED ends
    BY <2>1 DEF ExportStep, ExecMutilSql, ProductDataGenerate, ProductResume, WriteTimeUpdateXML
  <2>2. ~ClientEnds
    BY DEF ClientEnds, TypeInv, ClientOK
  <2>3. \/ ExecMutilSql
        \/ unsaved' \ selected' = unsaved \ selected
    BY <2>2, NextUploadStep DEF UploadStep, ExportStep, ProductDataGenerate, ProductResume,
         WriteTimeUpdateXML, VectorHeadConsumerDataGenerate, ConsumerResume, Sent, SendFails, upload
  <2>4. UNCHANGED ends
    BY <2>1, <2>2, NextUploadStep DEF UploadStep, VectorHeadConsumerDataGenerate, ConsumerResume,
         Sent, SendFails, upload
  <2> QED
    BY <2>3, <2>4
<1>q. PICK Q : Q = Lines OBVIOUS
<1>r. PICK R : R = Lines' OBVIOUS
<1>s. PICK S : S = unsaved \ selected OBVIOUS
<1>2. /\ OneEach(Q) /\ Fresh(Q, S)
      /\ \A l \in Lanes : Q[l] \in Seq(Letter)
      /\ \A l \in Lanes : R[l] \in Seq(Letter)
  <2>1. OneEach(Q) /\ Fresh(Q, S)
    BY <1>1, <1>q, <1>s DEF OnceInv
  <2>2. \A l \in Lanes : Q[l] \in Seq(Letter)
    BY <1>q, LinesType
  <2>3. (TypeInv => \A l \in Lanes : Lines[l] \in Seq(Letter))'
    BY LinesType, PTL
  <2>4. \A l \in Lanes : R[l] \in Seq(Letter)
    BY <1>r, <2>3
  <2> QED
    BY <2>1, <2>2, <2>4
<1>3. ASSUME ExecMutilSql, Begins(Lines, Lines', selected', round + 1)
      PROVE  OneEach(R) /\ Fresh(R, unsaved' \ selected')
  <2>1. selected' \subseteq unsaved /\ selected = {} /\ UNCHANGED unsaved
    BY <1>3, RoundBegins DEF TypeInv, ExecMutilSql
  <2>2. PICK T : T = selected' OBVIOUS
  <2>3. PICK n : n = round + 1 OBVIOUS
  <2>4. S = unsaved /\ T \subseteq S /\ Begins(Q, R, T, n)
    BY <1>3, <1>q, <1>r, <1>s, <2>1, <2>2, <2>3
  <2>5. OneEach(R) /\ Fresh(R, S \ T)
    BY <1>2, <2>4, OnceBegins
  <2> QED
    BY <2>1, <2>2, <2>4, <2>5
<1>4. ASSUME LinesMove \/ LinesShrink PROVE OneEach(R) /\ Fresh(R, S)
  BY <1>2, <1>4, <1>q, <1>r, OnceMoves, OnceShrinks DEF LinesMove, LinesShrink
<1>5. CASE ExecMutilSql /\ Begins(Lines, Lines', selected', round + 1)
  BY <1>3, <1>5, <1>r DEF OneEach, Fresh
<1>6. ASSUME LinesMove \/ LinesShrink
      PROVE  Fresh(R, unsaved' \ selected')
  <2>1. CASE unsaved' \ selected' = unsaved \ selected
    BY <1>4, <1>6, <1>s, <2>1
  <2>2. CASE ExecMutilSql
    <3>1. selected = {} /\ UNCHANGED unsaved
      BY <2>2, RoundBegins DEF TypeInv, ExecMutilSql
    <3>2. unsaved' \ selected' \subseteq S
      BY <1>s, <3>1
    <3> QED
      BY <1>4, <1>6, <3>2 DEF Fresh
  <2> QED
    BY <1>1, <2>1, <2>2
<1>7. CASE LinesMove \/ LinesShrink
  BY <1>4, <1>6, <1>7, <1>r DEF OneEach, Fresh
<1> QED
  BY <1>5, <1>7, NextLines

(* At the start all lines are empty.                                       *)
LEMMA InitLines == Init => \A l \in Lanes : Lines[l] = <<>>
  BY LanesAre, LinesAre DEF Init, UploadInit, InHand

(* So no row stands twice.                                                 *)
LEMMA InitOnceInv == Init => OnceInv
<1>1. ASSUME Init PROVE \A l \in Lanes : DOMAIN Lines[l] = {}
  BY <1>1, InitLines
<1> QED
  BY <1>1 DEF OnceInv, OneEach, Fresh

(* What was handed on is a message received.                               *)
LEMMA HandedOn ==
  ASSUME TypeInv, NEW j \in DOMAIN out[Raw], MessageOf(out[Raw][j]) # Wild
  PROVE  /\ out[Raw][j] \in Item
         /\ out[Raw][j].from \in Handlers
         /\ out[Raw][j].n \in DOMAIN Lines[Received(out[Raw][j].from)] /\ out[Raw][j].n \in Nat
         /\ MessageOf(out[Raw][j]) = Lines[Received(out[Raw][j].from)][out[Raw][j].n]
<1>1. PICK i : i = out[Raw][j] OBVIOUS
<1>2. out[Raw] \in Seq(Item \cup {Garbage})
  BY Names DEF TypeInv, ServerOK
<1>3. i \in Item
  <2>1. i \in Item \cup {Garbage}
    BY <1>1, <1>2
  <2>2. i # Garbage
    BY <1>1 DEF MessageOf
  <2> QED
    BY <2>1, <2>2
<1>4. i \in Held
  BY <1>1 DEF Held, ToSet
<1>5. i.from \in Handlers /\ i.n \in Nat \ {0} /\ i.n <= Len(received[i.from])
  BY <1>3, <1>4 DEF TypeInv, KnownInv, Known, Item
<1>6. i.n \in DOMAIN received[i.from]
  <2>1. received[i.from] \in Seq(Letter)
    BY <1>5 DEF TypeInv, NetworkOK
  <2> QED
    BY <1>5, <2>1
<1>7. MessageOf(i) = received[i.from][i.n]
  BY <1>3, Names DEF MessageOf
<1> QED
  BY <1>1, <1>3, <1>5, <1>6, <1>7, LinesAre

(* What was pushed was received, each message once: no row is pushed       *)
(* twice.                                                                  *)
LEMMA OnceImplied ==
  ASSUME TypeInv, ServerInv, OnceInv PROVE PushedOnce
<1> SUFFICES ASSUME ends = 0, NEW j \in DOMAIN out[Raw], NEW k \in DOMAIN out[Raw], j # k,
                    MessageOf(out[Raw][j]) # Wild, MessageOf(out[Raw][k]) # Wild,
                    MessageOf(out[Raw][j]).row = MessageOf(out[Raw][k]).row
             PROVE  FALSE
  BY DEF PushedOnce
<1>1. PICK a : a = out[Raw][j] OBVIOUS
<1>2. PICK b : b = out[Raw][k] OBVIOUS
<1>3. /\ a \in Item /\ a.from \in Handlers /\ a.n \in DOMAIN Lines[Received(a.from)] /\ a.n \in Nat
      /\ MessageOf(a) = Lines[Received(a.from)][a.n]
  BY <1>1, HandedOn
<1>4. /\ b \in Item /\ b.from \in Handlers /\ b.n \in DOMAIN Lines[Received(b.from)] /\ b.n \in Nat
      /\ MessageOf(b) = Lines[Received(b.from)][b.n]
  BY <1>2, HandedOn
<1>5. Received(a.from) = Received(b.from) /\ a.n = b.n
  BY <1>1, <1>2, <1>3, <1>4, LanesAre DEF OnceInv, OneEach
<1>6. a.from = b.from
  BY <1>5, LanesDiffer
<1>7. out[Raw] \in Seq(Item \cup {Garbage})
  BY Names DEF TypeInv, ServerOK
<1>8. j < k \/ k < j
  <2>1. j \in Nat /\ k \in Nat
    BY <1>7
  <2> QED
    BY <2>1
<1>9. Before(a, b) \/ Before(b, a)
  BY <1>1, <1>2, <1>8 DEF ServerInv, Ordered
<1> QED
  BY <1>3, <1>4, <1>5, <1>6, <1>9 DEF Before

(* At the start the server has no items.                                   *)
LEMMA InitServerInv == Init => ServerInv
  BY Names DEF Init, ServerRuns, ServerInv, Ordered, Before

(* While the client has not ended, no row is pushed to the MQ twice: a row *)
(* is selected again only if its times were not saved, and neither the     *)
(* client's queue nor a connection nor the raw queue doubles a message.    *)
THEOREM PushedOnceHolds == Spec => []PushedOnce
<1>1. Init => TypeInv /\ ServerInv /\ OnceInv
  BY InitTypeInv, InitServerInv, InitOnceInv
<1>2. (TypeInv /\ ServerInv /\ OnceInv) /\ [Next]_vars => (TypeInv /\ ServerInv /\ OnceInv)'
  BY NextTypeInv, NextServerInv, NextOnceInv
<1>3. TypeInv /\ ServerInv /\ OnceInv => PushedOnce
  BY OnceImplied
<1> QED
  BY <1>1, <1>2, <1>3, PTL DEF Spec

-----------------------------------------------------------------------------
(* The messages of a round are in order.                                   *)

(* Whether all of a line has passed where b begins, as a connection sees   *)
(* it.                                                                     *)
Rank == [k \in {"received", "wire", "hand", "queue", "batch"} |->
           CASE k = "received" -> 1 [] k = "wire" -> 2 [] k = "hand" -> 3
             [] k = "queue" -> 4 [] k = "batch" -> 5]

Ahead(a, b) == Rank[a[1]] < Rank[b[1]] /\ (b[1] = "wire" => a[2] = b[2])

(* The ranks of the lines, from the server back to the round.              *)
LEMMA Ranks ==
  /\ Rank["received"] = 1 /\ Rank["wire"] = 2 /\ Rank["hand"] = 3 /\ Rank["queue"] = 4 /\ Rank["batch"] = 5
  BY DEF Rank

(* Which line is ahead of which.                                           *)
LEMMA AheadIs ==
  /\ ~Ahead(Batch, Batch) /\ ~Ahead(Batch, Queue) /\ Ahead(Queue, Batch) /\ ~Ahead(Queue, Queue)
  /\ \A u : /\ ~Ahead(Batch, HandOf(u)) /\ ~Ahead(Queue, HandOf(u))
            /\ Ahead(HandOf(u), Batch) /\ Ahead(HandOf(u), Queue)
  /\ \A u, v : ~Ahead(HandOf(u), HandOf(v))
  /\ \A h : /\ ~Ahead(Batch, Wire(h)) /\ ~Ahead(Queue, Wire(h))
            /\ ~Ahead(Batch, Received(h)) /\ ~Ahead(Queue, Received(h))
            /\ Ahead(Wire(h), Batch) /\ Ahead(Wire(h), Queue)
            /\ Ahead(Received(h), Batch) /\ Ahead(Received(h), Queue)
  /\ \A u, h : /\ ~Ahead(HandOf(u), Wire(h)) /\ ~Ahead(HandOf(u), Received(h))
               /\ Ahead(Wire(h), HandOf(u)) /\ Ahead(Received(h), HandOf(u))
  /\ \A g, h : /\ ~Ahead(Wire(g), Wire(h)) /\ ~Ahead(Wire(g), Received(h))
               /\ ~Ahead(Received(g), Received(h))
               /\ Ahead(Received(g), Wire(h)) <=> g = h
<1>1. /\ Batch[1] = "batch" /\ Queue[1] = "queue"
      /\ \A u : HandOf(u)[1] = "hand" /\ Wire(u)[1] = "wire" /\ Received(u)[1] = "received"
      /\ \A u : Wire(u)[2] = u /\ Received(u)[2] = u
  BY DEF Batch, Queue, HandOf, Wire, Received
<1> QED
  BY <1>1, Ranks DEF Ahead

(* A message that moves passes no other but those it was behind already.   *)
LEMMA AheadKept ==
  ASSUME \A u, v \in Uploaders : u = v, NEW a \in Lanes, NEW b \in Lanes, Adjacent(a, b)
  PROVE  /\ Ahead(b, a)
         /\ \A c \in Lanes : Ahead(c, b) => Ahead(c, a)
         /\ \A c \in Lanes : Ahead(b, c) => c = a \/ Ahead(a, c)
         /\ \A c \in Lanes : ~Ahead(c, c)
<1>0. \A c \in Lanes : ~Ahead(c, c)
  BY LanesAre, AheadIs
<1>1. CASE a = Batch /\ b = Queue
  BY <1>0, <1>1, LanesAre, AheadIs
<1>2. ASSUME NEW u \in Uploaders, a = Queue, b = HandOf(u)
      PROVE  /\ Ahead(b, a)
             /\ \A c \in Lanes : Ahead(c, b) => Ahead(c, a)
             /\ \A c \in Lanes : Ahead(b, c) => c = a \/ Ahead(a, c)
  BY <1>2, LanesAre, AheadIs
<1>3. ASSUME NEW u \in Uploaders, NEW h \in Handlers, a = HandOf(u), b = Wire(h)
      PROVE  /\ Ahead(b, a)
             /\ \A c \in Lanes : Ahead(c, b) => Ahead(c, a)
             /\ \A c \in Lanes : Ahead(b, c) => c = a \/ Ahead(a, c)
  BY <1>3, LanesAre, AheadIs
<1>4. ASSUME NEW h \in Handlers, a = Wire(h), b = Received(h)
      PROVE  /\ Ahead(b, a)
             /\ \A c \in Lanes : Ahead(c, b) => Ahead(c, a)
             /\ \A c \in Lanes : Ahead(b, c) => c = a \/ Ahead(a, c)
  BY <1>4, LanesAre, AheadIs
<1> QED
  BY <1>0, <1>1, <1>2, <1>3, <1>4 DEF Adjacent

(* Along the lines the messages of a round are in the order of their       *)
(* numbers, and none is of a round to come.                                *)
InRound(Q) ==
  \A a, b \in Lanes : \A j \in DOMAIN Q[a], k \in DOMAIN Q[b] :
    (/\ Ahead(a, b) \/ (a = b /\ j < k)
     /\ Q[a][j] # Wild /\ Q[b][k] # Wild
     /\ Q[a][j].round = Q[b][k].round)
      => Q[a][j].order < Q[b][k].order

Upto(Q, r) == \A a \in Lanes : \A j \in DOMAIN Q[a] : Q[a][j] # Wild => Q[a][j].round <= r

(* With one upload thread a move between adjacent lines keeps a round in   *)
(* order.                                                                  *)
LEMMA RoundMoves ==
  ASSUME \A u, v \in Uploaders : u = v,
         NEW Q, \A l \in Lanes : Q[l] \in Seq(Letter), NEW R, NEW a \in Lanes, NEW b \in Lanes,
         Moves(Q, R, a, b), Adjacent(a, b), InRound(Q), NEW r, Upto(Q, r)
  PROVE  InRound(R) /\ Upto(R, r)
<1>1. ASSUME NEW l \in Lanes, NEW j \in DOMAIN R[l], R[l][j] # Wild PROVE R[l][j].round <= r
  <2>1. PICK m, i : m \in Lanes /\ i \in DOMAIN Q[m] /\ R[l][j] = Q[m][i]
    BY Origins
  <2> QED
    BY <1>1, <2>1 DEF Upto
<1>2. ASSUME NEW l \in Lanes, NEW p \in Lanes, NEW j \in DOMAIN R[l], NEW k \in DOMAIN R[p],
             Ahead(l, p) \/ (l = p /\ j < k), R[l][j] # Wild, R[p][k] # Wild,
             R[l][j].round = R[p][k].round
      PROVE  R[l][j].order < R[p][k].order
  <2>1. PICK m, i :
          m \in Lanes /\ i \in DOMAIN Q[m] /\ R[l][j] = Q[m][i]
            /\ Origin(Q, a, b, l, j, m, i) /\ j \in Nat /\ i \in Nat
    BY Origins
  <2>2. PICK q, n :
          q \in Lanes /\ n \in DOMAIN Q[q] /\ R[p][k] = Q[q][n]
            /\ Origin(Q, a, b, p, k, q, n) /\ k \in Nat /\ n \in Nat
    BY Origins
  <2>3. PICK z : z = Len(Q[b]) OBVIOUS
  <2>4. z \in Nat
    BY <2>3
  <2>5. DOMAIN R[a] \subseteq Nat \ {0}
    <3>1. Tail(Q[a]) \in Seq(Letter) /\ R[a] = Tail(Q[a])
      BY DEF Moves
    <3> QED
      BY <3>1
  <2>6. /\ \/ l = a /\ m = a /\ i = j + 1 /\ j # 0
           \/ l = b /\ j = z + 1 /\ m = a /\ i = 1
           \/ l = b /\ m = b /\ i = j /\ j < z + 1
           \/ l \notin {a, b} /\ m = l /\ i = j
        /\ \/ p = a /\ q = a /\ n = k + 1 /\ k # 0
           \/ p = b /\ k = z + 1 /\ q = a /\ n = 1
           \/ p = b /\ q = b /\ n = k /\ k < z + 1
           \/ p \notin {a, b} /\ q = p /\ n = k
    BY <2>1, <2>2, <2>3, <2>5 DEF Origin
  <2>7. /\ a # b /\ Ahead(b, a)
        /\ \A c \in Lanes : Ahead(c, b) => Ahead(c, a)
        /\ \A c \in Lanes : Ahead(b, c) => c = a \/ Ahead(a, c)
        /\ \A c \in Lanes : ~Ahead(c, c)
    BY AheadKept DEF Moves
  <2>8. Ahead(m, q) \/ (m = q /\ i < n)
    <3>1. CASE l = b /\ j = z + 1 /\ m = a /\ i = 1
      BY <1>2, <2>1, <2>2, <2>4, <2>6, <2>7, <3>1
    <3>2. CASE p = b /\ k = z + 1 /\ q = a /\ n = 1
      BY <1>2, <2>1, <2>2, <2>4, <2>6, <2>7, <3>2
    <3>3. CASE m = l /\ q = p
      BY <1>2, <2>1, <2>2, <2>4, <2>6, <2>7, <3>3
    <3> QED
      BY <2>6, <3>1, <3>2, <3>3
  <2> QED
    BY <1>2, <2>1, <2>2, <2>8 DEF InRound
<1> QED
  BY <1>1, <1>2 DEF InRound, Upto

(* So does a step that only takes messages away.                           *)
LEMMA RoundShrinks ==
  ASSUME NEW Q, NEW R, NEW d \in [Lanes -> Nat], Shrinks(Q, R, d),
         \A l \in Lanes : R[l] \in Seq(Letter), InRound(Q), NEW r, Upto(Q, r)
  PROVE  InRound(R) /\ Upto(R, r)
<1>1. ASSUME NEW l \in Lanes, NEW j \in DOMAIN R[l], R[l][j] # Wild PROVE R[l][j].round <= r
  BY <1>1 DEF Upto, Shrinks
<1>2. ASSUME NEW l \in Lanes, NEW p \in Lanes, NEW j \in DOMAIN R[l], NEW k \in DOMAIN R[p],
             Ahead(l, p) \/ (l = p /\ j < k), R[l][j] # Wild, R[p][k] # Wild,
             R[l][j].round = R[p][k].round
      PROVE  R[l][j].order < R[p][k].order
  <2>1. PICK i : i = j + d[l] OBVIOUS
  <2>2. PICK n : n = k + d[p] OBVIOUS
  <2>3. i \in DOMAIN Q[l] /\ R[l][j] = Q[l][i] /\ n \in DOMAIN Q[p] /\ R[p][k] = Q[p][n]
    BY <1>2, <2>1, <2>2 DEF Shrinks
  <2>4. j \in Nat /\ k \in Nat /\ d[l] \in Nat
    <3>1. R[l] \in Seq(Letter) /\ R[p] \in Seq(Letter)
      OBVIOUS
    <3>2. DOMAIN R[l] \subseteq Nat /\ DOMAIN R[p] \subseteq Nat
      BY <3>1
    <3> QED
      BY <3>2
  <2>5. Ahead(l, p) \/ (l = p /\ i < n)
    BY <1>2, <2>1, <2>2, <2>4
  <2> QED
    BY <1>2, <2>3, <2>5 DEF InRound
<1> QED
  BY <1>1, <1>2 DEF InRound, Upto

(* So does a new round, numbered above all others.                         *)
LEMMA RoundStarts ==
  ASSUME NEW Q, NEW R, NEW S, NEW r \in Nat, Begins(Q, R, S, r + 1),
         \A l \in Lanes : Q[l] \in Seq(Letter), InRound(Q), Upto(Q, r)
  PROVE  InRound(R) /\ Upto(R, r + 1)
<1>1. PICK B : B = R[Batch] OBVIOUS
<1>2. \A k \in DOMAIN B : B[k].round = r + 1 /\ B[k].order = k
  BY <1>1 DEF Begins, NewBatch
<1>3. \A l \in Lanes : l = Batch \/ R[l] = Q[l]
  BY DEF Begins
<1>4. ASSUME NEW l \in Lanes, NEW j \in DOMAIN R[l], R[l][j] # Wild
      PROVE  /\ l = Batch => R[l][j].round = r + 1
             /\ l # Batch => R[l][j].round \in Nat /\ R[l][j].round <= r
  <2>1. CASE l = Batch
    BY <1>1, <1>2, <2>1
  <2>2. CASE l # Batch
    <3>1. R[l] = Q[l] /\ Q[l] \in Seq(Letter)
      BY <1>3, <2>2
    <3>2. R[l][j] \in Letter
      BY <3>1
    <3>3. R[l][j].round \in Nat
      BY <1>4, <3>2 DEF Letter, Message
    <3> QED
      BY <1>4, <2>2, <3>1, <3>3 DEF Upto
  <2> QED
    BY <2>1, <2>2
<1>5. Upto(R, r + 1)
  BY <1>4 DEF Upto
<1>6. ASSUME NEW l \in Lanes, NEW p \in Lanes, NEW j \in DOMAIN R[l], NEW k \in DOMAIN R[p],
             Ahead(l, p) \/ (l = p /\ j < k), R[l][j] # Wild, R[p][k] # Wild,
             R[l][j].round = R[p][k].round
      PROVE  R[l][j].order < R[p][k].order
  <2>1. CASE l = Batch /\ p = Batch
    BY <1>1, <1>2, <1>6, <2>1, AheadIs
  <2>2. CASE l # Batch /\ p # Batch
    <3>1. R[l] = Q[l] /\ R[p] = Q[p]
      BY <1>3, <2>2
    <3> QED
      BY <1>6, <3>1 DEF InRound
  <2>3. CASE (l = Batch) # (p = Batch)
    BY <1>4, <1>6, <2>3
  <2> QED
    BY <2>1, <2>2, <2>3
<1> QED
  BY <1>5, <1>6 DEF InRound

RoundInv == Cardinality(Uploaders) = 1 => InRound(Lines) /\ Upto(Lines, round)

(* Every step keeps the rounds in order.                                   *)
LEMMA NextRoundInv ==
  ASSUME TypeInv, TypeInv', RoundInv, [Next]_vars
  PROVE  RoundInv'
<1> SUFFICES ASSUME Cardinality(Uploaders) = 1 PROVE InRound(Lines)' /\ Upto(Lines, round)'
  BY DEF RoundInv
<1>1. \A u, v \in Uploaders : u = v
  BY UplinkAssumption, FS_Singleton
<1>q. PICK Q : Q = Lines OBVIOUS
<1>r. PICK R : R = Lines' OBVIOUS
<1>n. PICK n : n = round OBVIOUS
<1>2. /\ InRound(Q) /\ Upto(Q, n) /\ n \in Nat
      /\ \A l \in Lanes : Q[l] \in Seq(Letter)
      /\ \A l \in Lanes : R[l] \in Seq(Letter)
  <2>1. InRound(Q) /\ Upto(Q, n) /\ n \in Nat
    BY <1>q, <1>n DEF RoundInv, TypeInv, ClientOK
  <2>2. \A l \in Lanes : Q[l] \in Seq(Letter)
    BY <1>q, LinesType
  <2>3. (TypeInv => \A l \in Lanes : Lines[l] \in Seq(Letter))'
    BY LinesType, PTL
  <2>4. \A l \in Lanes : R[l] \in Seq(Letter)
    BY <1>r, <2>3
  <2> QED
    BY <2>1, <2>2, <2>4
<1>3. ASSUME ExecMutilSql, Begins(Lines, Lines', selected', round + 1)
      PROVE  InRound(R) /\ Upto(R, n + 1)
  <2>1. PICK T : T = selected' OBVIOUS
  <2>2. Begins(Q, R, T, n + 1)
    BY <1>3, <1>q, <1>r, <1>n, <2>1
  <2> QED
    BY <1>2, <2>2, RoundStarts
<1>4. ASSUME LinesMove \/ LinesShrink PROVE InRound(R) /\ Upto(R, n)
  BY <1>1, <1>2, <1>4, <1>q, <1>r, RoundMoves, RoundShrinks DEF LinesMove, LinesShrink
<1>5. round' \in {n, n + 1} /\ (ExecMutilSql => round' = n + 1)
  BY <1>n, NextUploadStep DEF UploadStep, ExportStep, ExecMutilSql, ProductDataGenerate,
       ProductResume, WriteTimeUpdateXML, VectorHeadConsumerDataGenerate, ConsumerResume, Sent,
       SendFails, ClientEnds, upload
<1>6. CASE ExecMutilSql /\ Begins(Lines, Lines', selected', round + 1)
  <2>1. InRound(R) /\ Upto(R, round')
    BY <1>3, <1>5, <1>6
  <2> QED
    BY <2>1, <1>r DEF InRound, Upto
<1>7. CASE LinesMove \/ LinesShrink
  <2>1. \A l \in Lanes : \A j \in DOMAIN R[l] : R[l][j] # Wild => R[l][j].round \in Nat
    <3>1. ASSUME NEW l \in Lanes, NEW j \in DOMAIN R[l], R[l][j] # Wild PROVE R[l][j].round \in Nat
      <4>1. R[l] \in Seq(Letter)
        BY <1>2
      <4>2. R[l][j] \in Letter
        BY <4>1
      <4> QED
        BY <3>1, <4>2 DEF Letter, Message
    <3> QED
      BY <3>1
  <2>2. InRound(R) /\ Upto(R, n)
    BY <1>4, <1>7
  <2>3. Upto(R, n + 1)
    BY <1>2, <2>1, <2>2 DEF Upto
  <2>4. InRound(R) /\ Upto(R, round')
    BY <1>5, <2>2, <2>3
  <2> QED
    BY <2>4, <1>r DEF InRound, Upto
<1> QED
  BY <1>6, <1>7, NextLines

(* At the start there is no round to be out of order.                      *)
LEMMA InitRoundInv == Init => RoundInv
<1>1. ASSUME Init PROVE \A l \in Lanes : DOMAIN Lines[l] = {}
  BY <1>1, InitLines
<1> QED
  BY <1>1 DEF RoundInv, InRound, Upto

(* What was pushed was received, in the same order.                        *)
LEMMA RoundImplied ==
  ASSUME TypeInv, ServerInv, RoundInv PROVE RoundInOrder
<1> SUFFICES ASSUME Cardinality(Uploaders) = 1, NEW j \in DOMAIN out[Raw], NEW k \in DOMAIN out[Raw],
                    j < k, MessageOf(out[Raw][j]) # Wild, MessageOf(out[Raw][k]) # Wild,
                    out[Raw][j].from = out[Raw][k].from,
                    MessageOf(out[Raw][j]).round = MessageOf(out[Raw][k]).round
             PROVE  MessageOf(out[Raw][j]).order < MessageOf(out[Raw][k]).order
  BY DEF RoundInOrder
<1>1. PICK a : a = out[Raw][j] OBVIOUS
<1>2. PICK b : b = out[Raw][k] OBVIOUS
<1>3. /\ a \in Item /\ a.from \in Handlers /\ a.n \in DOMAIN Lines[Received(a.from)] /\ a.n \in Nat
      /\ MessageOf(a) = Lines[Received(a.from)][a.n]
  BY <1>1, HandedOn
<1>4. /\ b \in Item /\ b.from = a.from /\ b.n \in DOMAIN Lines[Received(a.from)] /\ b.n \in Nat
      /\ MessageOf(b) = Lines[Received(a.from)][b.n]
  BY <1>1, <1>2, HandedOn
<1>5. Before(a, b)
  BY <1>1, <1>2 DEF ServerInv, Ordered
<1>6. a.n < b.n
  BY <1>3, <1>4, <1>5 DEF Before
<1>7. InRound(Lines) /\ Received(a.from) \in Lanes
  BY <1>3, LanesAre DEF RoundInv
<1>8. PICK l : l = Received(a.from) OBVIOUS
<1>9. /\ l \in Lanes /\ a.n \in DOMAIN Lines[l] /\ b.n \in DOMAIN Lines[l]
      /\ MessageOf(a) = Lines[l][a.n] /\ MessageOf(b) = Lines[l][b.n]
  BY <1>3, <1>4, <1>7, <1>8
<1> QED
  BY <1>1, <1>2, <1>6, <1>7, <1>9 DEF InRound

(* With one upload thread (ProcessBinlogThread), the messages of a round   *)
(* that came over one connection are pushed in the order in which          *)
(* PutOneMessageQueue has numbered them, although any of them may be       *)
(* dropped, lost or replaced by an uninitialised pointer on the way.       *)
THEOREM RoundInOrderHolds == Spec => []RoundInOrder
<1>1. Init => TypeInv /\ ServerInv /\ RoundInv
  BY InitTypeInv, InitServerInv, InitRoundInv
<1>2. (TypeInv /\ ServerInv /\ RoundInv) /\ [Next]_vars => (TypeInv /\ ServerInv /\ RoundInv)'
  BY NextTypeInv, NextServerInv, NextRoundInv
<1>3. TypeInv /\ ServerInv /\ RoundInv => RoundInOrder
  BY RoundImplied
<1> QED
  BY <1>1, <1>2, <1>3, PTL DEF Spec
=============================================================================
