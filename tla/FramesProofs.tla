--------------------------- MODULE FramesProofs ---------------------------
(***************************************************************************)
(* Proofs about the frames on one direction of a connection, for any       *)
(* number of threads and messages, any lengths and any buffer.             *)
(***************************************************************************)
EXTENDS Frames, SequenceTheorems, FiniteSetTheorems, TLAPS

Byte == Msgs \X Nat
Sending == [m : Msgs, step : {"data", "over"}, left : Seq(Byte)]

(* The number of the last byte that the current mSend has to send.         *)
EndOf(p) == IF p.step = "data" THEN HeaderLen + BodyLen[p.m] ELSE FrameLen(p.m)

(* Part p of a frame has its byte a as the next one to go out.             *)
NextByte(p, a) ==
  /\ a \in 1 .. EndOf(p)
  /\ Len(p.left) = EndOf(p) - a + 1
  /\ \A i \in 1 .. Len(p.left) : p.left[i] = <<p.m, a + i - 1>>
  /\ a = 1 <=> (p.step = "data" /\ p.left = HeaderAndBody(p.m))

ThreadInv ==
  \A t \in Threads :
    thread[t] = Idle \/ (thread[t] \in Sending /\ \E a \in Nat : NextByte(thread[t], a))

TypeInv ==
  /\ receiver \in {"server", "client"}
  /\ DOMAIN thread = Threads /\ thread = [t \in Threads |-> thread[t]]
  /\ wire \in Seq(Byte)
  /\ damaged \in BOOLEAN

(* The mutex of the client: who is sending holds it.                       *)
LockInv == Locked => \A t \in Threads : thread[t] # Idle => lock = t

(* In step: at most one thread is amid a frame, and what it has sent of it *)
(* is at the end of the wire; otherwise a whole frame is.                  *)
InStep ==
  /\ \A i \in 1 .. Len(wire) - 1 : Follows(wire[i], wire[i + 1])
  /\ \A t, u \in Threads : Amid(t) /\ Amid(u) => t = u
  /\ conn = "open" /\ wire # <<>> =>
       /\ \A t \in Threads : Amid(t) =>
            \A a \in Nat : NextByte(thread[t], a) => wire[Len(wire)] = <<thread[t].m, a - 1>>
       /\ (\A t \in Threads : ~Amid(t)) => wire[Len(wire)][2] = FrameLen(wire[Len(wire)][1])

WireInv == Locked \/ ~damaged => InStep

FramesInv == TypeInv /\ ThreadInv /\ LockInv /\ WireInv

-----------------------------------------------------------------------------
(* A frame is a header, a body and an end mark, and only the body may be   *)
(* empty.                                                                  *)
LEMMA Lengths1 ==
  ASSUME NEW m \in Msgs
  PROVE  /\ BodyLen[m] \in Nat /\ HeaderLen \in Nat \ {0} /\ OverLen \in Nat \ {0}
         /\ FrameLen(m) = HeaderLen + BodyLen[m] + OverLen
  BY LengthAssumption DEF FrameLen

(* A fresh part starts with its first byte.                                *)
LEMMA FreshPart ==
  ASSUME NEW m \in Msgs
  PROVE  /\ [m |-> m, step |-> "data", left |-> HeaderAndBody(m)] \in Sending
         /\ NextByte([m |-> m, step |-> "data", left |-> HeaderAndBody(m)], 1)
<1> DEFINE p == [m |-> m, step |-> "data", left |-> HeaderAndBody(m)]
<1>1. /\ HeaderAndBody(m) \in Seq(Byte)
      /\ Len(HeaderAndBody(m)) = HeaderLen + BodyLen[m]
      /\ \A i \in 1 .. HeaderLen + BodyLen[m] : HeaderAndBody(m)[i] = <<m, i>>
  BY Lengths1, SMTT(60) DEF HeaderAndBody, Bytes, Byte
<1>2. EndOf(p) = HeaderLen + BodyLen[m]
  BY DEF EndOf
<1> QED
  BY <1>1, <1>2, Lengths1 DEF NextByte, Sending

(* The end mark follows the body: its first byte is the next one to go     *)
(* out.                                                                    *)
LEMMA FreshMark ==
  ASSUME NEW p \in Sending, NEW q, q = [p EXCEPT !.step = "over", !.left = Over(p.m)]
  PROVE  /\ q \in Sending /\ q.m = p.m
         /\ NextByte(q, HeaderLen + BodyLen[p.m] + 1)
<1>0. PICK m \in Msgs : m = p.m
  BY DEF Sending
<1> DEFINE a == HeaderLen + BodyLen[m] + 1
<1>1. /\ Over(m) \in Seq(Byte)
      /\ Len(Over(m)) = FrameLen(m) - a + 1
      /\ \A i \in 1 .. Len(Over(m)) : Over(m)[i] = <<m, a + i - 1>>
  <2>1. a \in Nat /\ FrameLen(m) \in Nat /\ FrameLen(m) - a + 1 \in Nat
    BY Lengths1
  <2>2. Over(m) = [i \in 1 .. FrameLen(m) - a + 1 |-> <<m, a + i - 1>>]
    BY DEF Over, Bytes
  <2> HIDE DEF a
  <2>3. \A i \in 1 .. FrameLen(m) - a + 1 : <<m, a + i - 1>> \in Byte
    BY <2>1 DEF Byte
  <2>4. PICK k \in Nat : k = FrameLen(m) - a + 1
    BY <2>1
  <2>5. /\ Over(m) \in [1 .. k -> Byte]
        /\ \A i \in 1 .. k : Over(m)[i] = <<m, a + i - 1>>
    BY <2>2, <2>3, <2>4, Zenon
  <2>6. Over(m) \in Seq(Byte) /\ Len(Over(m)) = k
    BY <2>5
  <2> QED
    BY <2>4, <2>5, <2>6, Zenon
<1>2. q.m = m /\ q.step = "over" /\ q.left = Over(m) /\ q \in Sending
  BY <1>0, <1>1 DEF Sending
<1>4. EndOf(q) = FrameLen(m)
  BY <1>2 DEF EndOf
<1>3. a \in 1 .. FrameLen(m) /\ a # 1
  BY Lengths1
<1> HIDE DEF a
<1>5. NextByte(q, a)
  BY <1>1, <1>2, <1>3, <1>4 DEF NextByte
<1> QED
  BY <1>0, <1>2, <1>5 DEF a

(* After n bytes of a part have gone out.                                  *)
LEMMA PartSent ==
  ASSUME NEW p \in Sending, NEW a \in Nat, NextByte(p, a), NEW n \in 1 .. Len(p.left)
  PROVE  /\ SubSeq(p.left, 1, n) \in Seq(Byte)
         /\ Len(SubSeq(p.left, 1, n)) = n
         /\ \A i \in 1 .. n : SubSeq(p.left, 1, n)[i] = <<p.m, a + i - 1>>
         /\ \/ AfterSend(p, n) = Idle /\ a + n - 1 = FrameLen(p.m)
            \/ /\ AfterSend(p, n) \in Sending
               /\ AfterSend(p, n).m = p.m
               /\ NextByte(AfterSend(p, n), a + n)
<1>l. /\ p.m \in Msgs /\ p.left \in Seq(Byte) /\ p.step \in {"data", "over"}
      /\ Len(p.left) \in Nat
  BY DEF Sending
<1>e. /\ EndOf(p) \in Nat /\ a \in 1 .. EndOf(p) /\ Len(p.left) = EndOf(p) - a + 1
      /\ \A i \in 1 .. Len(p.left) : p.left[i] = <<p.m, a + i - 1>>
  <2>1. EndOf(p) \in Nat
    BY <1>l, Lengths1 DEF EndOf
  <2> QED
    BY <2>1, Zenon DEF NextByte
<1>1. /\ SubSeq(p.left, 1, n) \in Seq(Byte)
      /\ Len(SubSeq(p.left, 1, n)) = n
      /\ \A i \in 1 .. n : SubSeq(p.left, 1, n)[i] = <<p.m, a + i - 1>>
  <2>1. SubSeq(p.left, 1, n) \in Seq(Byte) /\ Len(SubSeq(p.left, 1, n)) = n
    BY <1>l
  <2>2. \A i \in 1 .. n : SubSeq(p.left, 1, n)[i] = p.left[i] /\ i \in 1 .. Len(p.left)
    BY <1>l
  <2> QED
    BY <1>e, <2>1, <2>2, Zenon
<1>2. CASE n < Len(p.left)
  <2> DEFINE r == SubSeq(p.left, n + 1, Len(p.left))
             q == [p EXCEPT !.left = r]
  <2>1. /\ r \in Seq(Byte) /\ Len(r) = Len(p.left) - n
        /\ \A i \in 1 .. Len(r) : r[i] = p.left[n + i]
    BY <1>l, <1>2
  <2>2. \A i \in 1 .. Len(r) : r[i] = <<p.m, (a + n) + i - 1>>
    <3> SUFFICES ASSUME NEW i \in 1 .. Len(r) PROVE r[i] = <<p.m, (a + n) + i - 1>>
      OBVIOUS
    <3>1. n + i \in 1 .. Len(p.left) /\ a + (n + i) - 1 = (a + n) + i - 1
      BY <1>l, <1>2, <2>1
    <3>2. p.left[n + i] = <<p.m, a + (n + i) - 1>>
      BY <1>e, <3>1, Zenon
    <3> QED
      BY <2>1, <3>1, <3>2, Zenon
  <2>3. q \in Sending /\ q.m = p.m /\ q.step = p.step /\ q.left = r
    BY <1>l, <2>1 DEF Sending
  <2>4. EndOf(q) = EndOf(p)
    BY <2>3 DEF EndOf
  <2>5. a + n # 1 /\ a + n \in 1 .. EndOf(p)
    BY <1>l, <1>e, <1>2
  <2>6. ~(q.step = "data" /\ r = HeaderAndBody(p.m))
    <3> SUFFICES ASSUME p.step = "data", r = HeaderAndBody(p.m) PROVE FALSE
      BY <2>3
    <3>1. Len(HeaderAndBody(p.m)) = EndOf(p)
      BY <1>l, Lengths1 DEF HeaderAndBody, Bytes, EndOf
    <3> QED
      BY <1>l, <1>e, <1>2, <2>1, <3>1
  <2>7. AfterSend(p, n) = q
    BY <1>2 DEF AfterSend
  <2> HIDE DEF q, r
  <2>8. NextByte(q, a + n)
    <3>1. Len(q.left) = EndOf(q) - (a + n) + 1
      BY <1>e, <1>l, <2>1, <2>3, <2>4
    <3> QED
      BY <2>2, <2>3, <2>4, <2>5, <2>6, <3>1 DEF NextByte
  <2> QED
    BY <1>1, <2>3, <2>7, <2>8
<1>3. CASE n = Len(p.left) /\ p.step = "data"
  <2>1. AfterSend(p, n) = [p EXCEPT !.step = "over", !.left = Over(p.m)]
    <3>1. ~(n < Len(p.left))
      BY <1>l, <1>3
    <3> QED
      BY <1>3, <3>1, Zenon DEF AfterSend
  <2>2. a + n = HeaderLen + BodyLen[p.m] + 1
    <3>1. EndOf(p) = HeaderLen + BodyLen[p.m]
      BY <1>3 DEF EndOf
    <3>2. HeaderLen + BodyLen[p.m] \in Nat
      BY <1>l, Lengths1
    <3> QED
      BY <1>l, <1>e, <1>3, <3>1, <3>2
  <2> QED
    <3> DEFINE q == AfterSend(p, n)
    <3>1. q = [p EXCEPT !.step = "over", !.left = Over(p.m)]
      BY <2>1
    <3> HIDE DEF q
    <3>2. q \in Sending /\ q.m = p.m /\ NextByte(q, a + n)
      BY <2>2, <3>1, FreshMark
    <3> QED
      BY <1>1, <3>2 DEF q
<1>4. CASE n = Len(p.left) /\ p.step = "over"
  <2>1. AfterSend(p, n) = Idle
    <3>1. ~(n < Len(p.left))
      BY <1>l, <1>4
    <3>2. p.step # "data"
      BY <1>4
    <3> QED
      BY <3>1, <3>2, Zenon DEF AfterSend
  <2>2. a + n - 1 = FrameLen(p.m)
    BY <1>l, <1>e, <1>4, Lengths1 DEF EndOf
  <2> QED
    BY <1>1, <2>1, <2>2
<1> QED
  BY <1>l, <1>2, <1>3, <1>4

(* Some but not all of a frame has been sent exactly when the next byte is *)
(* not the first; and the next byte is determined.                         *)
AmidPart(p) == p.step = "over" \/ (p.step = "data" /\ p.left # HeaderAndBody(p.m))

(* A thread is amid a frame unless its next byte is the first, and its     *)
(* next byte is unique.                                                    *)
LEMMA AmidByte ==
  ASSUME NEW p \in Sending, NEW a \in Nat, NextByte(p, a)
  PROVE  /\ AmidPart(p) <=> a # 1
         /\ \A b \in Nat : NextByte(p, b) => b = a
<1>1. p.step \in {"data", "over"} /\ p.m \in Msgs
  BY DEF Sending
<1>2. EndOf(p) \in Nat
  BY <1>1, Lengths1 DEF EndOf
<1>3. AmidPart(p) <=> a # 1
  BY <1>1 DEF NextByte, AmidPart
<1>4. ASSUME NEW b \in Nat, NextByte(p, b) PROVE b = a
  <2>1. Len(p.left) = EndOf(p) - a + 1 /\ Len(p.left) = EndOf(p) - b + 1
    BY <1>4, Zenon DEF NextByte
  <2> QED
    BY <1>2, <2>1
<1> QED
  BY <1>3, <1>4

(* A thread that sends nothing is amid no frame.                           *)
LEMMA IdleNotAmid == ~AmidPart(Idle) /\ Idle \notin Sending
  BY DEF AmidPart, Idle, Sending

(* Bytes a, a + 1, ... of message m, which may come behind the bytes w.    *)
InOrder(w) == \A i \in 1 .. Len(w) - 1 : Follows(w[i], w[i + 1])
Run(s, m, a) == Len(s) > 0 /\ \A i \in 1 .. Len(s) : s[i] = <<m, a + i - 1>>
Joins(w, m, a) ==
  w # <<>> => (a # 1 /\ w[Len(w)] = <<m, a - 1>>) \/ (a = 1 /\ w[Len(w)][2] = FrameLen(w[Len(w)][1]))
EndsAt(w, m, b) == w # <<>> /\ w[Len(w)] = <<m, b>>

(* The bytes that go out follow what is on the wire, and each other.       *)
LEMMA WireFollows ==
  ASSUME NEW w \in Seq(Byte), NEW s \in Seq(Byte), NEW m \in Msgs, NEW a \in Nat \ {0},
         InOrder(w), Run(s, m, a), Joins(w, m, a)
  PROVE  InOrder(w \o s) /\ EndsAt(w \o s, m, a + Len(s) - 1)
<1>r. /\ Len(s) > 0 /\ \A i \in 1 .. Len(s) : s[i] = <<m, a + i - 1>>
      /\ \A i \in 1 .. Len(w) - 1 : Follows(w[i], w[i + 1])
  BY DEF Run, InOrder
<1>j. w # <<>> => (a # 1 /\ w[Len(w)] = <<m, a - 1>>) \/ (a = 1 /\ w[Len(w)][2] = FrameLen(w[Len(w)][1]))
  BY DEF Joins
<1> DEFINE c == w \o s
<1>1. /\ c \in Seq(Byte) /\ Len(c) = Len(w) + Len(s)
      /\ \A i \in 1 .. Len(w) + Len(s) : c[i] = IF i <= Len(w) THEN w[i] ELSE s[i - Len(w)]
  BY ConcatProperties
<1> HIDE DEF c
<1>2. Len(w) \in Nat /\ Len(s) \in Nat \ {0} /\ Len(c) \in Nat \ {0}
  BY <1>1, <1>r
<1>3. c[Len(c)] = <<m, a + Len(s) - 1>>
  <2>1. c[Len(c)] = s[Len(s)]
    BY <1>1, <1>2
  <2> QED
    BY <1>2, <1>r, <2>1
<1>4. ASSUME NEW i \in 1 .. Len(c) - 1 PROVE Follows(c[i], c[i + 1])
  <2>0. PICK k \in Nat, l \in Nat \ {0} : k = Len(w) /\ l = Len(s)
    BY <1>2
  <2>i. i \in 1 .. k + l - 1
    BY <1>1, <2>0
  <2>c. \A x \in 1 .. k + l : c[x] = IF x <= k THEN w[x] ELSE s[x - k]
    BY <1>1, <2>0
  <2>1. CASE i < k
    <3>1. i \in 1 .. k + l /\ i + 1 \in 1 .. k + l /\ i <= k /\ i + 1 <= k /\ i \in 1 .. k - 1
      BY <2>i, <2>1
    <3>2. c[i] = w[i] /\ c[i + 1] = w[i + 1]
      BY <2>c, <3>1
    <3> QED
      BY <1>r, <2>0, <3>1, <3>2
  <2>2. CASE i = k
    <3>1. i \in 1 .. k + l /\ i + 1 \in 1 .. k + l /\ i <= k /\ ~(i + 1 <= k) /\ (i + 1) - k = 1 /\ k > 0
      BY <2>i, <2>2
    <3>2. c[i] = w[k] /\ c[i + 1] = s[1]
      BY <2>2, <2>c, <3>1
    <3>3. w # <<>> /\ s[1] = <<m, a>>
      BY <1>r, <2>0, <3>1
    <3>4. CASE a # 1 /\ w[Len(w)] = <<m, a - 1>>
      BY <2>0, <3>2, <3>3, <3>4 DEF Follows
    <3>5. CASE a = 1 /\ w[Len(w)][2] = FrameLen(w[Len(w)][1])
      BY <2>0, <3>2, <3>3, <3>5 DEF Follows
    <3> QED
      BY <1>j, <3>3, <3>4, <3>5
  <2>3. CASE i > k
    <3>1. PICK j \in 1 .. l - 1 : j = i - k
      BY <2>i, <2>3
    <3>2. /\ i \in 1 .. k + l /\ i + 1 \in 1 .. k + l /\ ~(i <= k) /\ ~(i + 1 <= k)
          /\ j \in 1 .. l /\ j + 1 \in 1 .. l /\ i - k = j /\ (i + 1) - k = j + 1
      BY <2>i, <2>3, <3>1
    <3>3. c[i] = s[j] /\ c[i + 1] = s[j + 1]
      BY <2>c, <3>2
    <3>4. s[j] = <<m, a + j - 1>> /\ s[j + 1] = <<m, a + (j + 1) - 1>>
      BY <1>r, <2>0, <3>2
    <3>5. a + (j + 1) - 1 = (a + j - 1) + 1
      OBVIOUS
    <3> QED
      BY <3>3, <3>4, <3>5 DEF Follows
  <2> QED
    BY <2>0, <2>i, <2>1, <2>2, <2>3
<1>5. c # <<>>
  BY <1>1, <1>2
<1> QED
  BY <1>3, <1>4, <1>5 DEF c, InOrder, EndsAt

(* mSend sends the n bytes s, from byte a of message m's frame on, and     *)
(* leaves its thread at q.                                                 *)
Sends(t, m, a, n, s, q) ==
  /\ thread[t] \in Sending /\ thread[t].m = m /\ NextByte(thread[t], a)
  /\ Len(s) = n /\ Run(s, m, a)
  /\ a + n - 1 <= EndOf(thread[t]) /\ EndOf(thread[t]) <= FrameLen(m)
  /\ \/ q = Idle /\ a + n - 1 = FrameLen(m)
     \/ q \in Sending /\ q.m = m /\ NextByte(q, a + n) /\ a + n <= FrameLen(m)
  /\ wire' = wire \o s
  /\ thread' = [thread EXCEPT ![t] = q]
  /\ lock' = IF q = Idle /\ Locked THEN NoThread ELSE lock

(* What a call of send in mSend does: n bytes of frame m from its byte a   *)
(* on go to the wire.                                                      *)
LEMMA mSendFacts ==
  ASSUME FramesInv, NEW t \in Threads, mSend(t)
  PROVE  \E m \in Msgs, a \in Nat \ {0}, n \in Nat \ {0}, s \in Seq(Byte),
            q \in Sending \cup {Idle} : Sends(t, m, a, n, s, q)
<1>1. thread[t] # Idle
  BY DEF mSend
<1>2. PICK a \in Nat : thread[t] \in Sending /\ NextByte(thread[t], a)
  BY <1>1 DEF FramesInv, ThreadInv
<1>3. PICK n \in 1 .. Len(thread[t].left) :
        /\ wire' = wire \o SubSeq(thread[t].left, 1, n)
        /\ thread' = [thread EXCEPT ![t] = AfterSend(thread[t], n)]
        /\ lock' = IF AfterSend(thread[t], n) = Idle /\ Locked THEN NoThread ELSE lock
  <2> DEFINE l == Len(thread[t].left)
             room == Room - Len(wire)
             n == IF l < room THEN l ELSE room
  <2>1. l \in Nat /\ room \in Int
    BY <1>2, LengthAssumption DEF FramesInv, TypeInv, Sending
  <2>2. /\ n > 0 /\ wire' = wire \o SubSeq(thread[t].left, 1, n)
        /\ thread' = [thread EXCEPT ![t] = AfterSend(thread[t], n)]
        /\ lock' = IF AfterSend(thread[t], n) = Idle /\ Locked THEN NoThread ELSE lock
    BY Zenon DEF mSend
  <2>3. n \in 1 .. l
    <3>1. n > 0 BY <2>2
    <3> HIDE DEF l, room
    <3> QED BY <2>1, <3>1
  <2> HIDE DEF n
  <2> QED
    BY <2>2, <2>3
<1>4. PICK q : q = AfterSend(thread[t], n)
  OBVIOUS
<1>5. PICK s : s = SubSeq(thread[t].left, 1, n)
  OBVIOUS
<1>6. PICK m \in Msgs : m = thread[t].m
  BY <1>2 DEF Sending
<1>7. /\ s \in Seq(Byte) /\ Len(s) = n
      /\ \A i \in 1 .. n : s[i] = <<m, a + i - 1>>
      /\ \/ q = Idle /\ a + n - 1 = FrameLen(m)
         \/ q \in Sending /\ q.m = m /\ NextByte(q, a + n)
  BY <1>2, <1>4, <1>5, <1>6, PartSent
<1>8. PICK e \in Nat, f \in Nat : e = EndOf(thread[t]) /\ f = FrameLen(m) /\ e <= f
  BY <1>2, <1>6, Lengths1 DEF EndOf, Sending
<1>9. n \in Nat \ {0} /\ a \in Nat \ {0} /\ a + n - 1 <= e
  <2>1. Len(thread[t].left) \in Nat
    BY <1>2 DEF Sending
  <2>2. a \in 1 .. e /\ Len(thread[t].left) = e - a + 1
    BY <1>2, <1>8 DEF NextByte
  <2> QED
    BY <1>8, <2>1, <2>2
<1>10. q \in Sending /\ q.m = m /\ NextByte(q, a + n) => a + n <= f
  <2> SUFFICES ASSUME q \in Sending, q.m = m, NextByte(q, a + n) PROVE a + n <= f
    OBVIOUS
  <2>1. EndOf(q) \in Nat /\ EndOf(q) <= f
    BY <1>8, Lengths1 DEF EndOf, Sending
  <2>2. a + n \in 1 .. EndOf(q)
    BY DEF NextByte
  <2> QED
    BY <1>8, <1>9, <2>1, <2>2
<1>11. Run(s, m, a)
  BY <1>7, <1>9 DEF Run
<1>12. /\ thread[t] \in Sending /\ thread[t].m = m /\ NextByte(thread[t], a)
       /\ a + n - 1 <= EndOf(thread[t]) /\ EndOf(thread[t]) <= FrameLen(m)
  BY <1>2, <1>6, <1>8, <1>9
<1>13. \/ q = Idle /\ a + n - 1 = FrameLen(m)
       \/ q \in Sending /\ q.m = m /\ NextByte(q, a + n) /\ a + n <= FrameLen(m)
  BY <1>7, <1>8, <1>10
<1>14. /\ wire' = wire \o s /\ thread' = [thread EXCEPT ![t] = q]
       /\ lock' = IF q = Idle /\ Locked THEN NoThread ELSE lock
  BY <1>3, <1>4, <1>5
<1>15. s \in Seq(Byte) /\ Len(s) = n /\ a \in Nat \ {0} /\ n \in Nat \ {0} /\ q \in Sending \cup {Idle}
  BY <1>7, <1>9
<1>16. Sends(t, m, a, n, s, q)
  BY <1>11, <1>12, <1>13, <1>14, <1>15, Zenon DEF Sends
<1> QED
  BY <1>15, <1>16, Zenon

-----------------------------------------------------------------------------
(* The invariant holds at the start.                                       *)
LEMMA InitFramesInv == Init => FramesInv
<1> SUFFICES ASSUME Init PROVE FramesInv
  OBVIOUS
<1>1. TypeInv /\ ThreadInv /\ LockInv
  <2>1. /\ thread = [t \in Threads |-> Idle] /\ wire = <<>> /\ damaged = FALSE
        /\ receiver \in {"server", "client"}
    BY DEF Init
  <2>2. DOMAIN thread = Threads /\ \A t \in Threads : thread[t] = Idle
    BY <2>1
  <2>3. thread = [t \in Threads |-> thread[t]]
    BY <2>1
  <2>4. wire \in Seq(Byte)
    BY <2>1
  <2>5. TypeInv
    BY <2>1, <2>2, <2>3, <2>4, Zenon DEF TypeInv
  <2> QED
    BY <2>2, <2>5, Zenon DEF ThreadInv, LockInv
<1>2. InStep
  BY IdleNotAmid DEF Init, InStep, Amid, Idle
<1> QED
  BY <1>1, <1>2 DEF FramesInv, WireInv

(* Every step keeps the invariant.                                         *)
LEMMA NextFramesInv == FramesInv /\ [Next]_vars => FramesInv'
<1> SUFFICES ASSUME FramesInv, [Next]_vars PROVE FramesInv'
  OBVIOUS
<1>t. /\ receiver \in {"server", "client"} /\ damaged \in BOOLEAN
      /\ DOMAIN thread = Threads /\ thread = [t \in Threads |-> thread[t]]
      /\ wire \in Seq(Byte)
  BY DEF FramesInv, TypeInv
<1>m. \A t \in Threads : Amid(t) <=> AmidPart(thread[t])
  BY DEF Amid, AmidPart
<1>n. \A t \in Threads : Amid(t)' <=> AmidPart(thread'[t])
  BY DEF Amid, AmidPart
<1>u. ASSUME NEW t \in Threads, thread[t] # Idle PROVE thread[t] \in Sending /\ \E a \in Nat : NextByte(thread[t], a)
  BY <1>u DEF FramesInv, ThreadInv
<1>d. ASSUME NEW t \in Threads, Amid(t) PROVE thread[t] # Idle
  BY <1>d, <1>m, IdleNotAmid
(* The threads and the lock when thread t is now at part p.                *)
<1>a. ASSUME NEW t \in Threads, NEW p, thread' = [thread EXCEPT ![t] = p], UNCHANGED receiver,
             p = Idle \/ (p \in Sending /\ \E a \in Nat : NextByte(p, a))
      PROVE  /\ thread'[t] = p /\ \A u \in Threads \ {t} : thread'[u] = thread[u]
             /\ DOMAIN thread' = Threads /\ thread' = [u \in Threads |-> thread'[u]]
             /\ ThreadInv' /\ Locked' = Locked
  <2>1. thread'[t] = p /\ \A u \in Threads \ {t} : thread'[u] = thread[u]
    BY <1>a, <1>t
  <2>2. DOMAIN thread' = Threads /\ thread' = [u \in Threads |-> thread'[u]]
    BY <1>a, <1>t
  <2>3. ASSUME NEW u \in Threads
        PROVE  thread'[u] = Idle \/ (thread'[u] \in Sending /\ \E a \in Nat : NextByte(thread'[u], a))
    BY <1>a, <2>1 DEF FramesInv, ThreadInv
  <2>4. ThreadInv'
    BY <2>3 DEF ThreadInv
  <2> QED
    BY <1>a, <2>1, <2>2, <2>4 DEF Locked
(* Receiving takes bytes off the front and leaves the sender alone.        *)
<1>r. ASSUME wire # <<>>, wire' = Tail(wire), UNCHANGED <<receiver, sending, damaged>>,
             conn' = "open" => conn = "open"
      PROVE  FramesInv'
  <2>1. /\ TypeInv' /\ ThreadInv' /\ LockInv'
    BY <1>r, <1>t DEF FramesInv, TypeInv, ThreadInv, LockInv, Locked, sending
  <2>2. /\ wire' \in Seq(Byte) /\ Len(wire') = Len(wire) - 1
        /\ \A i \in 1 .. Len(wire') : wire'[i] = wire[i + 1]
        /\ Len(wire) \in Nat \ {0}
    BY <1>r, <1>t
  <2>3. ASSUME InStep PROVE InStep'
    <3>1. \A i \in 1 .. Len(wire') - 1 : Follows(wire'[i], wire'[i + 1])
      <4> SUFFICES ASSUME NEW i \in 1 .. Len(wire') - 1 PROVE Follows(wire'[i], wire'[i + 1])
        OBVIOUS
      <4>1. i \in 1 .. Len(wire') /\ i + 1 \in 1 .. Len(wire') /\ i + 1 \in 1 .. Len(wire) - 1
        BY <2>2
      <4>2. wire'[i] = wire[i + 1] /\ wire'[i + 1] = wire[(i + 1) + 1]
        BY <2>2, <4>1
      <4> QED
        BY <2>3, <4>1, <4>2 DEF InStep
    <3>2. UNCHANGED thread
      BY <1>r DEF sending
    <3>3. \A t \in Threads : Amid(t)' <=> Amid(t)
      BY <1>m, <1>n, <3>2
    <3>4. wire' # <<>> => wire'[Len(wire')] = wire[Len(wire)]
      BY <2>2
    <3>5. ASSUME conn' = "open", wire' # <<>>
          PROVE  /\ \A t \in Threads : Amid(t)' =>
                      \A a \in Nat : NextByte(thread[t], a) => wire'[Len(wire')] = <<thread[t].m, a - 1>>
                 /\ (\A t \in Threads : ~Amid(t)') => wire'[Len(wire')][2] = FrameLen(wire'[Len(wire')][1])
      BY <1>r, <2>3, <3>3, <3>4, <3>5 DEF InStep
    <3> QED
      BY <2>3, <3>1, <3>2, <3>3, <3>5 DEF InStep
  <2>4. Locked' = Locked /\ damaged' = damaged
    BY <1>r DEF Locked
  <2> QED
    BY <2>1, <2>3, <2>4 DEF FramesInv, WireInv
<1>1. ASSUME NEW t \in Threads, NEW m \in Msgs, SendMessage(t, m) PROVE FramesInv'
  <2> DEFINE p == [m |-> m, step |-> "data", left |-> HeaderAndBody(m)]
  <2>1. /\ thread[t] = Idle /\ thread' = [thread EXCEPT ![t] = p]
        /\ Locked => lock = NoThread
        /\ lock' = IF Locked THEN t ELSE lock
        /\ UNCHANGED <<receiver, conn, wire, damaged>>
    BY <1>1 DEF SendMessage
  <2>2. p \in Sending /\ NextByte(p, 1)
    BY FreshPart
  <2>3. ~AmidPart(p)
    BY <2>2, AmidByte
  <2> HIDE DEF p
  <2>4. /\ thread'[t] = p /\ \A u \in Threads \ {t} : thread'[u] = thread[u]
        /\ DOMAIN thread' = Threads /\ thread' = [u \in Threads |-> thread'[u]]
        /\ ThreadInv' /\ Locked' = Locked
    BY <1>a, <2>1, <2>2
  <2>5. \A u \in Threads : Amid(u)' <=> Amid(u)
    BY <1>m, <1>n, <2>1, <2>3, <2>4, IdleNotAmid
  <2>6. \A u \in Threads : Amid(u) => thread'[u] = thread[u]
    BY <1>d, <2>1, <2>4
  <2>7. LockInv'
    BY <2>1, <2>4, ThreadAssumption DEF FramesInv, LockInv
  <2>8. InStep => InStep'
    BY <2>1, <2>5, <2>6 DEF InStep
  <2>9. TypeInv'
    BY <1>t, <2>1, <2>4 DEF TypeInv
  <2>10. WireInv'
    BY <2>1, <2>4, <2>8 DEF FramesInv, WireInv
  <2> QED
    BY <2>4, <2>7, <2>9, <2>10 DEF FramesInv
<1>2. ASSUME NEW t \in Threads, mSend(t) PROVE FramesInv'
  <2>1. thread[t] # Idle /\ conn = "open" /\ UNCHANGED <<receiver, conn>>
    BY <1>2 DEF mSend
  <2>p. PICK m \in Msgs, a \in Nat \ {0}, n \in Nat \ {0}, s \in Seq(Byte),
           q \in Sending \cup {Idle} : Sends(t, m, a, n, s, q)
    BY <1>2, mSendFacts
  <2>2. thread[t] \in Sending /\ NextByte(thread[t], a) /\ m = thread[t].m
    BY <2>p DEF Sends
  <2>3. /\ wire' = wire \o s /\ thread' = [thread EXCEPT ![t] = q]
        /\ lock' = IF q = Idle /\ Locked THEN NoThread ELSE lock
    BY <2>p DEF Sends
  <2>4. damaged' = (damaged \/ \E u \in Threads \ {t} : Amid(u))
    BY <1>2, Zenon DEF mSend
  <2>5. /\ s \in Seq(Byte) /\ Len(s) = n
        /\ \A i \in 1 .. n : s[i] = <<m, a + i - 1>>
        /\ \/ q = Idle /\ a + n - 1 = FrameLen(m)
           \/ q \in Sending /\ q.m = m /\ NextByte(q, a + n)
    BY <2>p DEF Sends, Run
  <2>6. n \in Nat \ {0} /\ a \in Nat \ {0}
    OBVIOUS
  <2>7. /\ thread'[t] = q /\ \A u \in Threads \ {t} : thread'[u] = thread[u]
        /\ DOMAIN thread' = Threads /\ thread' = [u \in Threads |-> thread'[u]]
        /\ ThreadInv' /\ Locked' = Locked
    <3>1. q = Idle \/ (q \in Sending /\ \E b \in Nat : NextByte(q, b))
      <4>1. a + n \in Nat BY <2>6
      <4> QED BY <2>5, <4>1
    <3> QED
      BY <1>a, <2>1, <2>3, <3>1
  <2>8. LockInv'
    <3>1. Locked => lock = t /\ \A u \in Threads \ {t} : thread[u] = Idle
      BY <2>1 DEF FramesInv, LockInv
    <3> QED
      BY <2>3, <2>7, <3>1 DEF LockInv
  <2>9. TypeInv'
    <3>1. wire' \in Seq(Byte)
      BY <1>t, <2>3, <2>5, ConcatProperties
    <3>2. damaged' \in BOOLEAN
      BY <2>4, Zenon
    <3> QED
      BY <1>t, <2>1, <2>7, <3>1, <3>2 DEF TypeInv
  <2>10. ASSUME Locked' \/ ~damaged' PROVE InStep'
    <3>1. InStep /\ \A u \in Threads \ {t} : ~Amid(u)
      <4>1. CASE Locked
        <5>1. \A u \in Threads \ {t} : thread[u] = Idle
          BY <2>1, <4>1 DEF FramesInv, LockInv
        <5> QED
          BY <1>d, <4>1, <5>1 DEF FramesInv, WireInv
      <4>2. CASE ~damaged'
        BY <2>4, <4>2 DEF FramesInv, WireInv
      <4> QED
        BY <2>7, <2>10, <4>1, <4>2
    <3>2. Amid(t) <=> a # 1
      BY <1>m, <2>2, AmidByte
    <3>3. wire # <<>> => (a # 1 /\ wire[Len(wire)] = <<m, a - 1>>)
                         \/ (a = 1 /\ wire[Len(wire)][2] = FrameLen(wire[Len(wire)][1]))
      <4>1. CASE Amid(t)
        BY <2>1, <2>2, <3>1, <3>2, <4>1 DEF InStep
      <4>2. CASE ~Amid(t)
        BY <2>1, <3>1, <3>2, <4>2 DEF InStep
      <4> QED
        BY <4>1, <4>2
    <3>4. \A i \in 1 .. Len(wire) - 1 : Follows(wire[i], wire[i + 1])
      BY <3>1 DEF InStep
    <3>5. /\ wire' # <<>> /\ wire'[Len(wire')] = <<m, a + n - 1>>
          /\ \A i \in 1 .. Len(wire') - 1 : Follows(wire'[i], wire'[i + 1])
      <4>1. wire' = wire \o s /\ Len(s) > 0
        BY <2>3, <2>5, <2>6
      <4>2. \A i \in 1 .. Len(s) : s[i] = <<m, a + i - 1>>
        BY <2>5
      <4>3. InOrder(wire) /\ Run(s, m, a) /\ Joins(wire, m, a)
        BY <3>3, <3>4, <4>1, <4>2 DEF InOrder, Run, Joins
      <4>4. InOrder(wire \o s) /\ EndsAt(wire \o s, m, a + Len(s) - 1)
        BY <1>t, <2>5, <2>6, <4>3, WireFollows
      <4>5. InOrder(wire') /\ EndsAt(wire', m, a + n - 1)
        BY <2>5, <4>1, <4>4
      <4> QED
        BY <4>5 DEF InOrder, EndsAt
    <3>6. \A u \in Threads \ {t} : ~Amid(u)'
      BY <1>m, <1>n, <2>7, <3>1
    <3>7. CASE q = Idle /\ a + n - 1 = FrameLen(m)
      <4>1. ~Amid(t)'
        BY <1>n, <2>7, <3>7, IdleNotAmid
      <4>2. wire'[Len(wire')][2] = FrameLen(wire'[Len(wire')][1])
        BY <3>5, <3>7
      <4> QED
        BY <3>5, <3>6, <4>1, <4>2 DEF InStep
    <3>8. CASE q \in Sending /\ q.m = m /\ NextByte(q, a + n)
      <4>1. a + n \in Nat /\ a + n # 1 /\ (a + n) - 1 = a + n - 1
        BY <2>6
      <4>2. Amid(t)' /\ \A b \in Nat : NextByte(q, b) => b = a + n
        BY <1>n, <2>7, <3>8, <4>1, AmidByte
      <4>3. \A b \in Nat : NextByte(q, b) => wire'[Len(wire')] = <<q.m, b - 1>>
        BY <3>5, <3>8, <4>1, <4>2
      <4> QED
        BY <2>7, <3>5, <3>6, <4>2, <4>3 DEF InStep
    <3> QED
      BY <2>5, <3>7, <3>8
  <2> QED
    BY <2>7, <2>8, <2>9, <2>10 DEF FramesInv, WireInv
<1>3. ASSUME NEW t \in Threads, mSendFails(t) PROVE FramesInv'
  <2>1. /\ thread[t] # Idle /\ thread' = [thread EXCEPT ![t] = Idle]
        /\ lock' = IF Locked THEN NoThread ELSE lock
        /\ conn' = IF Locked THEN "sender" ELSE conn
        /\ damaged' = (damaged \/ (~Locked /\ Amid(t)))
        /\ UNCHANGED <<receiver, wire>>
    BY <1>3 DEF mSendFails
  <2>2. /\ thread'[t] = Idle /\ \A u \in Threads \ {t} : thread'[u] = thread[u]
        /\ DOMAIN thread' = Threads /\ thread' = [u \in Threads |-> thread'[u]]
        /\ ThreadInv' /\ Locked' = Locked
    BY <1>a, <2>1
  <2>3. ~Amid(t)' /\ \A u \in Threads \ {t} : Amid(u)' <=> Amid(u)
    BY <1>m, <1>n, <2>2, IdleNotAmid
  <2>4. LockInv'
    <3>1. Locked => \A u \in Threads \ {t} : thread[u] = Idle
      BY <2>1 DEF FramesInv, LockInv
    <3> QED
      BY <2>2, <3>1 DEF LockInv
  <2>5. TypeInv'
    <3>1. damaged' \in BOOLEAN
      BY <2>1, Zenon
    <3> QED
      BY <1>t, <2>1, <2>2, <3>1 DEF TypeInv
  <2>6. ASSUME Locked' \/ ~damaged' PROVE InStep'
    <3>1. CASE Locked
      <4>1. InStep /\ conn' # "open"
        BY <2>1, <3>1 DEF FramesInv, WireInv
      <4> QED
        BY <2>1, <2>3, <4>1 DEF InStep
    <3>2. CASE ~Locked
      <4>1. ~Amid(t) /\ InStep /\ UNCHANGED <<conn, wire>>
        BY <2>1, <2>2, <2>6, <3>2 DEF FramesInv, WireInv
      <4>2. \A u \in Threads : Amid(u)' <=> Amid(u)
        BY <2>3, <4>1
      <4>3. \A u \in Threads : Amid(u) => thread'[u] = thread[u]
        BY <2>2, <4>1
      <4> QED
        BY <4>1, <4>2, <4>3 DEF InStep
    <3> QED
      BY <3>1, <3>2
  <2> QED
    BY <2>2, <2>4, <2>5, <2>6 DEF FramesInv, WireInv
<1>4. CASE Receive
  <2>1. CASE mRecv \/ Frame
    BY <1>r, <2>1 DEF mRecv, Frame, Reads
  <2>2. CASE Header
    <3>1. /\ wire # <<>> /\ wire' = Tail(wire) /\ UNCHANGED <<receiver, sending, damaged>>
          /\ conn' = "receiver" \/ conn' = conn
      BY <2>2 DEF Header, Reads
    <3> QED
      BY <1>r, <3>1
  <2> QED
    BY <1>4, <2>1, <2>2 DEF Receive
<1>5. CASE RecvTimeout
  <2>1. /\ UNCHANGED <<receiver, thread, lock, conn, wire>> /\ Locked
        /\ damaged' = (Ahead # <<>> /\ Head(Ahead)[2] # 1)
    BY <1>5 DEF RecvTimeout, Locked, sending
  <2>2. damaged' \in BOOLEAN
    BY <2>1, Zenon
  <2>3. TypeInv' /\ ThreadInv' /\ LockInv'
    BY <1>t, <2>1, <2>2 DEF FramesInv, TypeInv, ThreadInv, LockInv, Locked
  <2>4. InStep'
    BY <1>m, <1>n, <2>1 DEF FramesInv, WireInv, InStep
  <2> QED
    BY <2>3, <2>4 DEF FramesInv, WireInv
<1>6. CASE UNCHANGED vars
  <2>1. UNCHANGED <<receiver, thread, lock, conn, wire, damaged>>
    BY <1>6 DEF vars
  <2>2. TypeInv' /\ ThreadInv' /\ LockInv' /\ Locked' = Locked
    BY <1>t, <2>1 DEF FramesInv, TypeInv, ThreadInv, LockInv, Locked
  <2>3. InStep => InStep'
    BY <1>m, <1>n, <2>1 DEF InStep
  <2> QED
    BY <2>1, <2>2, <2>3 DEF FramesInv, WireInv
<1> QED
  BY <1>1, <1>2, <1>3, <1>4, <1>5, <1>6 DEF Next

(* Frames stand on the wire whole and one after the other: always in the   *)
(* direction whose senders hold the mutex and close the socket behind a    *)
(* frame that was cut, and in the other until two threads send at once or  *)
(* a send fails half-way (mSend, sendMessage, SendMessage).                *)
THEOREM FramesWholeHolds == Spec => []FramesWhole
<1>1. FramesInv => FramesWhole
  BY DEF FramesInv, WireInv, InStep, FramesWhole
<1> QED
  BY <1>1, InitFramesInv, NextFramesInv, PTL DEF Spec

-----------------------------------------------------------------------------
(* The number of elements of S up to i.                                    *)
Rank(S, i) == Cardinality({j \in S : j <= i})

(* Counting a finite set of numbers from below gives each of its elements  *)
(* a number of its own, from 1 to the size of the set.                     *)
LEMMA RankType ==
  ASSUME NEW S \in SUBSET Nat, IsFiniteSet(S), NEW i \in S
  PROVE  Rank(S, i) \in 1 .. Cardinality(S) /\ Cardinality(S) \in Nat
<1> DEFINE R == {j \in S : j <= i}
<1>1. R \in SUBSET S /\ i \in R
  OBVIOUS
<1>2. IsFiniteSet(R) /\ Cardinality(R) <= Cardinality(S)
  BY <1>1, FS_Subset
<1>3. Cardinality(R) \in Nat /\ Cardinality(S) \in Nat /\ Cardinality(R) # 0
  BY <1>1, <1>2, FS_CardinalityType, FS_EmptySet
<1> HIDE DEF R
<1>4. Cardinality(R) \in 1 .. Cardinality(S)
  BY <1>2, <1>3
<1> QED
  BY <1>3, <1>4 DEF Rank, R

(* The larger of two members has the larger rank.                          *)
LEMMA RankGrows ==
  ASSUME NEW S \in SUBSET Nat, IsFiniteSet(S), NEW i \in S, NEW k \in S, i < k
  PROVE  Rank(S, i) < Rank(S, k)
<1> DEFINE A == {j \in S : j <= i}
           B == {j \in S : j <= k}
<1>0. i \in Nat /\ k \in Nat /\ k <= k /\ ~(k <= i) /\ \A j \in S : j <= i => j <= k
  OBVIOUS
<1>1. A \in SUBSET B /\ k \in B /\ k \notin A /\ B \in SUBSET S
  BY <1>0, Zenon
<1>2. IsFiniteSet(B)
  BY <1>1, FS_Subset
<1>3. IsFiniteSet(A) /\ Cardinality(A) <= Cardinality(B) /\ Cardinality(A) # Cardinality(B)
  BY <1>1, <1>2, FS_Subset
<1>4. Cardinality(A) \in Nat /\ Cardinality(B) \in Nat
  BY <1>2, <1>3, FS_CardinalityType
<1> HIDE DEF A, B
<1>5. Cardinality(A) < Cardinality(B)
  BY <1>3, <1>4
<1> QED
  BY <1>5 DEF Rank, A, B

(* No two members have the same rank.                                      *)
LEMMA RankOnce ==
  ASSUME NEW S \in SUBSET Nat, IsFiniteSet(S), NEW i \in S, NEW k \in S, Rank(S, i) = Rank(S, k)
  PROVE  i = k
<1>1. Rank(S, i) \in Nat /\ Rank(S, k) \in Nat
  BY RankType
<1>2. ~(i < k)
  BY <1>1, RankGrows
<1>3. ~(k < i)
  BY <1>1, RankGrows
<1> QED
  BY <1>2, <1>3

(* Every rank up to the number of members is that of a member.             *)
LEMMA RankOnto ==
  ASSUME NEW S \in SUBSET Nat, IsFiniteSet(S), NEW k \in 1 .. Cardinality(S)
  PROVE  \E i \in S : Rank(S, i) = k
<1> DEFINE n == Cardinality(S)
           f == [i \in S |-> Rank(S, i)]
<1>1. n \in Nat
  BY FS_CardinalityType
<1>2. IsFiniteSet(1 .. n) /\ Cardinality(1 .. n) = n
  BY <1>1, FS_Interval
<1>3. f \in Injection(S, 1 .. n)
  <2>1. \A i \in S : Rank(S, i) \in 1 .. n
    BY RankType
  <2>2. f \in [S -> 1 .. n]
    BY <2>1
  <2>3. \A i, j \in S : f[i] = f[j] => i = j
    BY RankOnce
  <2> HIDE DEF f, n
  <2> QED
    BY <2>2, <2>3 DEF Injection, IsInjective
<1>4. f \in Surjection(S, 1 .. n)
  <2> HIDE DEF f
  <2> QED
    BY <1>2, <1>3, FS_Injection
<1>5. \E i \in S : f[i] = k
  BY <1>4 DEF Surjection
<1> QED
  BY <1>5

-----------------------------------------------------------------------------
(* The ends of frames in a sequence are finitely many of its positions.    *)
LEMMA EndsType ==
  ASSUME NEW s \in Seq(Byte)
  PROVE  /\ FrameEnds(s) \in SUBSET Nat /\ FrameEnds(s) \in SUBSET (1 .. Len(s))
         /\ IsFiniteSet(FrameEnds(s)) /\ Cardinality(FrameEnds(s)) \in Nat
<1>1. FrameEnds(s) \in SUBSET (1 .. Len(s)) /\ Len(s) \in Nat
  BY DEF FrameEnds
<1>2. FrameEnds(s) \in SUBSET Nat
  BY <1>1
<1>3. IsFiniteSet(1 .. Len(s))
  BY <1>1, FS_Interval
<1> QED
  BY <1>1, <1>2, <1>3, FS_Subset, FS_CardinalityType

(* NthEnd and the rank of an end are inverse to each other.                *)
LEMMA NthEndIs ==
  ASSUME NEW s \in Seq(Byte)
  PROVE  /\ \A i \in FrameEnds(s) :
              /\ Rank(FrameEnds(s), i) \in 1 .. Cardinality(FrameEnds(s))
              /\ NthEnd(s, Rank(FrameEnds(s), i)) = i
         /\ \A k \in 1 .. Cardinality(FrameEnds(s)) :
              NthEnd(s, k) \in FrameEnds(s) /\ Rank(FrameEnds(s), NthEnd(s, k)) = k
<1> DEFINE S == FrameEnds(s)
<1>0. S \in SUBSET Nat /\ IsFiniteSet(S)
  BY EndsType
<1>1. \A k : NthEnd(s, k) = CHOOSE i \in S : Rank(S, i) = k
  BY DEF NthEnd, Rank
<1> HIDE DEF S
<1>2. ASSUME NEW k \in 1 .. Cardinality(S) PROVE NthEnd(s, k) \in S /\ Rank(S, NthEnd(s, k)) = k
  BY <1>0, <1>1, RankOnto
<1>3. ASSUME NEW i \in S PROVE Rank(S, i) \in 1 .. Cardinality(S) /\ NthEnd(s, Rank(S, i)) = i
  <2>1. Rank(S, i) \in 1 .. Cardinality(S)
    BY <1>0, RankType
  <2>2. PICK k \in 1 .. Cardinality(S) : k = Rank(S, i)
    BY <2>1
  <2>3. PICK e \in S : e = NthEnd(s, k) /\ Rank(S, e) = Rank(S, i)
    BY <1>2, <2>2
  <2>4. e = i
    BY <1>0, <2>3, RankOnce
  <2> QED
    BY <2>1, <2>2, <2>3, <2>4
<1> QED
  BY <1>2, <1>3 DEF S

(* Ended has one message for each end of a frame, in their order.          *)
LEMMA EndedType ==
  ASSUME NEW s \in Seq(Byte)
  PROVE  /\ Ended(s) \in Seq(Msgs) /\ Len(Ended(s)) = Cardinality(FrameEnds(s))
         /\ \A k \in 1 .. Cardinality(FrameEnds(s)) : Ended(s)[k] = s[NthEnd(s, k)][1]
<1>0. PICK n \in Nat : n = Cardinality(FrameEnds(s))
  BY EndsType
<1>1. ASSUME NEW k \in 1 .. n PROVE s[NthEnd(s, k)][1] \in Msgs
  <2>1. NthEnd(s, k) \in 1 .. Len(s)
    BY <1>0, NthEndIs, EndsType
  <2>2. s[NthEnd(s, k)] \in Byte
    BY <2>1
  <2> QED
    BY <2>2 DEF Byte
<1>2. Ended(s) = [k \in 1 .. n |-> s[NthEnd(s, k)][1]]
  BY <1>0 DEF Ended
<1>3. Ended(s) \in [1 .. n -> Msgs]
  BY <1>1, <1>2
<1>4. Ended(s) \in Seq(Msgs) /\ Len(Ended(s)) = n
  BY <1>3
<1> QED
  BY <1>0, <1>2, <1>4

(* No end, one end.                                                        *)
LEMMA EndedNone ==
  ASSUME NEW s \in Seq(Byte), FrameEnds(s) = {}
  PROVE  Ended(s) = <<>>
<1>1. Len(Ended(s)) = 0 /\ Ended(s) \in Seq(Msgs)
  BY EndedType, FS_EmptySet
<1> QED
  BY <1>1

(* With one end of a frame there is one message.                           *)
LEMMA EndedOne ==
  ASSUME NEW s \in Seq(Byte), NEW n \in Nat, FrameEnds(s) = {n}
  PROVE  Ended(s) = <<s[n][1]>>
<1>1. Cardinality(FrameEnds(s)) = 1
  BY FS_Singleton
<1>2. 1 \in 1 .. Cardinality(FrameEnds(s))
  BY <1>1
<1>3. NthEnd(s, 1) = n
  BY <1>2, NthEndIs
<1>4. /\ Len(Ended(s)) = Cardinality(FrameEnds(s)) /\ Ended(s) \in Seq(Msgs)
      /\ Ended(s)[1] = s[NthEnd(s, 1)][1]
  BY <1>2, EndedType
<1> QED
  BY <1>1, <1>3, <1>4

(* Ends behind a prefix of length d are counted beside those in it.        *)
LEMMA ShiftCount ==
  ASSUME NEW B \in SUBSET Nat, IsFiniteSet(B), NEW W \in SUBSET (Nat \ {0}), IsFiniteSet(W),
         NEW d \in Nat, \A i \in B : i <= d
  PROVE  Cardinality(B \cup {j + d : j \in W}) = Cardinality(B) + Cardinality(W)
<1> DEFINE T == {j + d : j \in W}
           f == [j \in W |-> j + d]
<1>1. f \in Bijection(W, T)
  <2>1. \A i, j \in W : i + d = j + d => i = j
    OBVIOUS
  <2>2. f \in [W -> T]
    OBVIOUS
  <2>3. \A i, j \in W : f[i] = f[j] => i = j
    BY <2>1
  <2>4. \A x \in T : \E j \in W : f[j] = x
    OBVIOUS
  <2> HIDE DEF f, T
  <2> QED
    BY <2>2, <2>3, <2>4 DEF Bijection, Injection, Surjection, IsInjective
<1>2. IsFiniteSet(T) /\ Cardinality(T) = Cardinality(W)
  <2>1. ExistsBijection(W, T)
    BY <1>1 DEF ExistsBijection
  <2> HIDE DEF T
  <2> QED
    BY <2>1, FS_Bijection
<1>3. B \cap T = {}
  OBVIOUS
<1> HIDE DEF T
<1>4. Cardinality(B \cup T) = Cardinality(B) + Cardinality(W) - 0
  BY <1>2, <1>3, FS_Union, FS_EmptySet
<1>5. Cardinality(B) \in Nat /\ Cardinality(W) \in Nat
  BY FS_CardinalityType
<1> QED
  BY <1>4, <1>5 DEF T

(* The messages that end in two pieces are those of the first and then     *)
(* those of the second.                                                    *)
LEMMA EndedConcat ==
  ASSUME NEW b \in Seq(Byte), NEW w \in Seq(Byte)
  PROVE  Ended(b \o w) = Ended(b) \o Ended(w)
<1>0. PICK s \in Seq(Byte) : s = b \o w
  BY ConcatProperties
<1>1. PICK d \in Nat : d = Len(b)
  OBVIOUS
<1>2. /\ Len(s) = d + Len(w) /\ Len(w) \in Nat
      /\ \A i \in 1 .. d : s[i] = b[i]
      /\ \A j \in 1 .. Len(w) : s[j + d] = w[j]
  BY <1>0, <1>1
<1> DEFINE B == FrameEnds(b)
           W == FrameEnds(w)
           S == FrameEnds(s)
<1>3. /\ B \in SUBSET Nat /\ IsFiniteSet(B) /\ B \in SUBSET (1 .. d)
      /\ W \in SUBSET Nat /\ IsFiniteSet(W) /\ W \in SUBSET (1 .. Len(w))
      /\ S \in SUBSET Nat /\ IsFiniteSet(S) /\ S \in SUBSET (1 .. Len(s))
  BY <1>1, EndsType
<1>4. /\ \A i \in 1 .. d : i \in B <=> i \in S
      /\ \A j \in 1 .. Len(w) : j \in W <=> j + d \in S
  <2>1. /\ \A i \in 1 .. d : i \in 1 .. Len(s)
        /\ \A j \in 1 .. Len(w) : j + d \in 1 .. Len(s)
    BY <1>2
  <2>2. DOMAIN s = 1 .. Len(s) /\ DOMAIN b = 1 .. d /\ DOMAIN w = 1 .. Len(w)
    BY <1>1
  <2> QED
    BY <1>2, <2>1, <2>2, Zenon DEF FrameEnds
<1> HIDE DEF B, W, S
<1>5. S = B \cup {j + d : j \in W}
  <2>1. ASSUME NEW i \in S PROVE i \in B \/ \E j \in W : i = j + d
    <3>1. CASE i <= d
      <4>1. i \in 1 .. d
        BY <1>3, <3>1
      <4> QED
        BY <1>4, <4>1
    <3>2. CASE ~(i <= d)
      <4>1. PICK j \in 1 .. Len(w) : i = j + d
        <5>1. i \in 1 .. d + Len(w)
          BY <1>2, <1>3
        <5>2. i - d \in 1 .. Len(w) /\ i = (i - d) + d
          BY <1>2, <3>2, <5>1
        <5> QED
          BY <5>2
      <4> QED
        BY <1>4, <4>1
    <3> QED
      BY <3>1, <3>2
  <2>2. \A i \in B : i \in S
    BY <1>3, <1>4
  <2>3. \A j \in W : j + d \in S
    BY <1>3, <1>4
  <2> QED
    BY <2>1, <2>2, <2>3
<1>6. PICK c \in Nat, n \in Nat : c = Cardinality(B) /\ n = Cardinality(W)
  BY <1>3, FS_CardinalityType
<1>7. /\ W \in SUBSET (Nat \ {0}) /\ \A i \in B : i <= d
      /\ \A x \in W : {j \in W : j <= x} \in SUBSET (Nat \ {0}) /\ IsFiniteSet({j \in W : j <= x})
  <2>1. W \in SUBSET (Nat \ {0}) /\ \A i \in B : i <= d
    BY <1>3
  <2>2. \A x \in W : {j \in W : j <= x} \in SUBSET W
    OBVIOUS
  <2> QED
    BY <1>3, <2>1, <2>2, FS_Subset
<1>8. Cardinality(S) = c + n
  BY <1>3, <1>5, <1>6, <1>7, ShiftCount
<1>9. ASSUME NEW i \in B PROVE i \in S /\ Rank(S, i) = Rank(B, i)
  <2>1. \A j \in S : j <= i => j \in B
    <3> SUFFICES ASSUME NEW j \in S, j <= i PROVE j \in B
      OBVIOUS
    <3>1. j \in 1 .. d
      BY <1>3, <1>7
    <3> QED
      BY <1>4, <3>1
  <2>2. \A j \in B : j \in S
    BY <1>5
  <2>3. {j \in S : j <= i} = {j \in B : j <= i}
    BY <2>1, <2>2
  <2> QED
    BY <2>2, <2>3 DEF Rank
<1>10. ASSUME NEW x \in W PROVE x + d \in S /\ Rank(S, x + d) = c + Rank(W, x)
  <2> DEFINE X == {j \in W : j <= x}
  <2>1. /\ \A i \in B : i <= x + d
        /\ \A j \in W : j + d <= x + d <=> j <= x
    BY <1>3, <1>7
  <2>2. {j \in S : j <= x + d} = B \cup {j + d : j \in X}
    BY <1>5, <2>1, Zenon
  <2>3. X \in SUBSET (Nat \ {0}) /\ IsFiniteSet(X)
    BY <1>7
  <2> HIDE DEF X
  <2>4. Cardinality(B \cup {j + d : j \in X}) = c + Cardinality(X)
    BY <1>3, <1>6, <1>7, <2>3, ShiftCount
  <2> QED
    BY <1>5, <2>2, <2>4 DEF Rank, X
<1> DEFINE v == Ended(b)
           u == Ended(w)
           y == Ended(s)
<1>11. /\ v \in Seq(Msgs) /\ Len(v) = c /\ \A k \in 1 .. c : v[k] = b[NthEnd(b, k)][1]
       /\ u \in Seq(Msgs) /\ Len(u) = n /\ \A k \in 1 .. n : u[k] = w[NthEnd(w, k)][1]
       /\ y \in Seq(Msgs) /\ Len(y) = c + n /\ \A k \in 1 .. c + n : y[k] = s[NthEnd(s, k)][1]
  BY <1>6, <1>8, EndedType DEF B, W, S
<1>12. ASSUME NEW k \in 1 .. c PROVE y[k] = v[k]
  <2>1. PICK i \in B : i = NthEnd(b, k) /\ Rank(B, i) = k
    BY <1>6, NthEndIs DEF B
  <2>2. i \in S /\ Rank(S, i) = k
    BY <1>9, <2>1
  <2>3. NthEnd(s, k) = i
    BY <2>2, NthEndIs DEF S
  <2>4. s[i] = b[i]
    BY <1>2, <1>3
  <2>5. k \in 1 .. c + n
    OBVIOUS
  <2> QED
    BY <1>11, <2>1, <2>3, <2>4, <2>5
<1>13. ASSUME NEW k \in 1 .. n PROVE y[c + k] = u[k]
  <2>1. PICK x \in W : x = NthEnd(w, k) /\ Rank(W, x) = k
    BY <1>6, NthEndIs DEF W
  <2>2. x + d \in S /\ Rank(S, x + d) = c + k
    BY <1>10, <2>1
  <2>3. NthEnd(s, c + k) = x + d
    BY <2>2, NthEndIs DEF S
  <2>4. s[x + d] = w[x]
    BY <1>2, <1>3
  <2>5. c + k \in 1 .. c + n
    OBVIOUS
  <2>6. y[c + k] = s[NthEnd(s, c + k)][1] /\ u[k] = w[NthEnd(w, k)][1]
    BY <1>11, <2>5, Zenon
  <2> QED
    BY <2>1, <2>3, <2>4, <2>6, Zenon
<1> HIDE DEF u, v, y
<1>14. y = v \o u
  <2>1. y \in Seq(Msgs) /\ Len(y) = c + n /\ v \o u \in Seq(Msgs) /\ Len(v \o u) = c + n
    BY <1>11, ConcatProperties
  <2>2. ASSUME NEW k \in 1 .. c + n PROVE y[k] = (v \o u)[k]
    <3>1. CASE k <= c
      <4>1. k \in 1 .. c /\ (v \o u)[k] = v[k]
        BY <1>11, <3>1
      <4> QED
        BY <1>12, <4>1
    <3>2. CASE ~(k <= c)
      <4>1. PICK j \in 1 .. n : k = c + j
        <5>1. k - c \in 1 .. n /\ k = c + (k - c)
          BY <3>2
        <5> QED
          BY <5>1
      <4>2. (v \o u)[c + j] = u[j]
        BY <1>11
      <4> QED
        BY <1>13, <4>1, <4>2
    <3> QED
      BY <3>1, <3>2
  <2> QED
    BY <2>1, <2>2, SeqEqual
<1> QED
  BY <1>0, <1>14 DEF u, v, y

(* What a run of bytes of one frame ends: the message, if its last byte is *)
(* the frame's, and otherwise nothing.                                     *)
LEMMA EndedRun ==
  ASSUME NEW s \in Seq(Byte), NEW m \in Msgs, NEW a \in Nat \ {0}, Run(s, m, a),
         a + Len(s) - 1 <= FrameLen(m)
  PROVE  Ended(s) = IF a + Len(s) - 1 = FrameLen(m) THEN <<m>> ELSE <<>>
<1>0. PICK n \in Nat \ {0}, f \in Nat : n = Len(s) /\ f = FrameLen(m)
  BY Lengths1 DEF Run
<1>1. DOMAIN s = 1 .. n /\ \A i \in 1 .. n : s[i] = <<m, a + i - 1>>
  BY <1>0 DEF Run
<1>2. \A i : i \in FrameEnds(s) <=> i \in 1 .. n /\ a + i - 1 = f
  <2>1. \A i \in 1 .. n : s[i][1] = m /\ s[i][2] = a + i - 1
    BY <1>1
  <2> QED
    BY <1>0, <1>1, <2>1, Zenon DEF FrameEnds
<1>3. CASE a + n - 1 = f
  <2>1. n \in 1 .. n /\ \A i \in 1 .. n : a + i - 1 = f <=> i = n
    BY <1>3
  <2>2. FrameEnds(s) = {n}
    <3>1. n \in FrameEnds(s) /\ \A i \in FrameEnds(s) : i = n
      BY <1>2, <2>1, <1>3, Zenon
    <3> QED
      BY <3>1
  <2>3. s[n][1] = m
    BY <1>1
  <2>4. Ended(s) = <<m>>
    BY <2>2, <2>3, EndedOne
  <2> QED
    BY <1>0, <1>3, <2>4
<1>4. CASE a + n - 1 # f
  <2>1. \A i \in 1 .. n : a + i - 1 # f
    BY <1>0, <1>4
  <2>2. FrameEnds(s) = {}
    BY <1>2, <2>1, Zenon
  <2>3. Ended(s) = <<>>
    BY <2>2, EndedNone
  <2> QED
    BY <1>0, <1>4, <2>3
<1> QED
  BY <1>3, <1>4

(* The messages left when the front is dropped are a suffix.               *)
LEMMA EndedSuffix ==
  ASSUME NEW b \in Seq(Byte), NEW w \in Seq(Byte)
  PROVE  Ended(w) \in Suffixes(Ended(b \o w))
<1>1. PICK v \in Seq(Msgs), u \in Seq(Msgs) : v = Ended(b) /\ u = Ended(w)
  BY EndedType
<1>2. PICK s \in Seq(Msgs) : s = v \o u /\ s = Ended(b \o w)
  BY <1>1, EndedConcat, ConcatProperties
<1>3. PICK c \in Nat, n \in Nat : c = Len(v) /\ n = Len(u)
  OBVIOUS
<1>4. Len(s) = c + n /\ \A k \in 1 .. n : s[c + k] = u[k]
  <2>1. /\ Len(s) = Len(v) + Len(u)
        /\ \A i \in 1 .. Len(v) + Len(u) : s[i] = IF i <= Len(v) THEN v[i] ELSE u[i - Len(v)]
    <3>1. /\ Len(v \o u) = Len(v) + Len(u)
          /\ \A i \in 1 .. Len(v) + Len(u) : (v \o u)[i] = IF i <= Len(v) THEN v[i] ELSE u[i - Len(v)]
      BY ConcatProperties
    <3> QED
      BY <1>2, <3>1
  <2>2. \A i \in 1 .. c + n : s[i] = IF i <= c THEN v[i] ELSE u[i - c]
    BY <1>3, <2>1
  <2>3. \A k \in 1 .. n : c + k \in 1 .. c + n /\ ~(c + k <= c) /\ (c + k) - c = k
    OBVIOUS
  <2> QED
    BY <1>3, <2>1, <2>2, <2>3
<1>5. CASE n = 0
  <2>1. u = <<>>
    <3>1. Len(u) = 0
      BY <1>3, <1>5
    <3> QED
      BY <3>1, EmptySeq
  <2> QED
    BY <1>1, <2>1 DEF Suffixes
<1>6. CASE n # 0
  <2>1. c + 1 \in 1 .. Len(s)
    BY <1>4, <1>6
  <2>2. \A i \in c + 1 .. c + n : s[i] \in Msgs
    BY <1>4
  <2>3. PICK r : r = SubSeq(s, c + 1, c + n)
    OBVIOUS
  <2>4. /\ r \in Seq(Msgs) /\ Len(r) = n
        /\ \A i \in 1 .. n : r[i] = s[c + i]
    <3>1. c + 1 \in Int /\ c + n \in Int /\ c + 1 <= c + n /\ (c + n) - (c + 1) + 1 = n
      BY <1>6
    <3>2. \A i \in 1 .. n : (c + 1) + i - 1 = c + i
      OBVIOUS
    <3>3. /\ r \in Seq(Msgs) /\ Len(r) = n
          /\ \A i \in 1 .. n : r[i] = s[(c + 1) + i - 1]
      BY <2>2, <2>3, <3>1, SubSeqProperties
    <3> QED
      BY <3>2, <3>3, Zenon
  <2>5. r = u
    BY <1>3, <1>4, <2>4, SeqEqual
  <2> QED
    BY <1>1, <1>2, <1>4, <2>1, <2>3, <2>5 DEF Suffixes
<1> QED
  BY <1>5, <1>6

-----------------------------------------------------------------------------
(* Not yet in a frame, or amid one: what has been read of it are its first *)
(* bytes, and need is its length once the header is there.                 *)
BufInv ==
  /\ buf = <<>> => need = -1
  /\ buf # <<>> =>
       \E m \in Msgs :
         /\ Len(buf) < FrameLen(m)
         /\ \A i \in 1 .. Len(buf) : buf[i] = <<m, i>>
         /\ need = IF Len(buf) < HeaderLen THEN -1 ELSE BodyLen[m]

(* The bytes sent and not yet handed on, in the buffer and on the wire:    *)
(* from the first byte of a frame to what has been sent last.              *)
Stream == buf \o wire
StreamInv ==
  /\ InOrder(Stream)
  /\ Stream # <<>> => Stream[1][2] = 1
  /\ conn = "open" =>
       /\ \A t \in Threads : Amid(t) =>
            /\ Stream # <<>>
            /\ \A a \in Nat : NextByte(thread[t], a) => Stream[Len(Stream)] = <<thread[t].m, a - 1>>
       /\ Stream # <<>> /\ (\A t \in Threads : ~Amid(t)) =>
            Stream[Len(Stream)][2] = FrameLen(Stream[Len(Stream)][1])

ChannelInv ==
  /\ buf \in Seq(Byte)
  /\ lock \in Threads \cup {NoThread}
  /\ \A i \in 1 .. Len(wire) : wire[i][2] \in 1 .. FrameLen(wire[i][1])
  /\ ~damaged => conn # "receiver" /\ BufInv /\ StreamInv

(* Taking a byte off the wire leaves the stream as it is.                  *)
LEMMA ReadProperties ==
  ASSUME NEW b \in Seq(Byte), NEW w \in Seq(Byte), w # <<>>
  PROVE  /\ Append(b, Head(w)) \in Seq(Byte) /\ Tail(w) \in Seq(Byte)
         /\ Len(Append(b, Head(w))) = Len(b) + 1 /\ Len(w) = Len(Tail(w)) + 1
         /\ \A i \in 1 .. Len(b) : Append(b, Head(w))[i] = b[i]
         /\ Append(b, Head(w))[Len(b) + 1] = w[1]
         /\ \A i \in 1 .. Len(Tail(w)) : Tail(w)[i] = w[i + 1]
         /\ Append(b, Head(w)) \o Tail(w) = b \o w
<1>1. /\ Append(b, Head(w)) \in Seq(Byte) /\ Tail(w) \in Seq(Byte)
      /\ Len(Append(b, Head(w))) = Len(b) + 1 /\ Len(w) = Len(Tail(w)) + 1
      /\ \A i \in 1 .. Len(b) : Append(b, Head(w))[i] = b[i]
      /\ Append(b, Head(w))[Len(b) + 1] = w[1]
      /\ \A i \in 1 .. Len(Tail(w)) : Tail(w)[i] = w[i + 1]
  OBVIOUS
<1>2. PICK r \in Seq(Byte), l \in Seq(Byte) : r = Append(b, Head(w)) /\ l = Tail(w)
  BY <1>1
<1>3. /\ Len(r) = Len(b) + 1 /\ Len(w) = Len(l) + 1
      /\ \A i \in 1 .. Len(b) : r[i] = b[i]
      /\ r[Len(b) + 1] = w[1]
      /\ \A i \in 1 .. Len(l) : l[i] = w[i + 1]
  BY <1>1, <1>2
<1>4. PICK x \in Nat, y \in Nat : x = Len(b) /\ y = Len(l)
  OBVIOUS
<1>5. PICK p \in Seq(Byte), q \in Seq(Byte) : p = r \o l /\ q = b \o w
  BY ConcatProperties
<1>6. /\ Len(p) = x + 1 + y /\ Len(q) = x + 1 + y
      /\ \A i \in 1 .. x + 1 + y : p[i] = IF i <= x + 1 THEN r[i] ELSE l[i - (x + 1)]
      /\ \A i \in 1 .. x + 1 + y : q[i] = IF i <= x THEN b[i] ELSE w[i - x]
  <2>1. /\ Len(p) = Len(r) + Len(l) /\ Len(q) = Len(b) + Len(w)
        /\ \A i \in 1 .. Len(r) + Len(l) : p[i] = IF i <= Len(r) THEN r[i] ELSE l[i - Len(r)]
        /\ \A i \in 1 .. Len(b) + Len(w) : q[i] = IF i <= Len(b) THEN b[i] ELSE w[i - Len(b)]
    BY <1>5, ConcatProperties
  <2>2. Len(r) = x + 1 /\ Len(l) = y /\ Len(b) = x /\ Len(b) + Len(w) = x + 1 + y
    BY <1>3, <1>4
  <2> QED
    BY <2>1, <2>2
<1>7. ASSUME NEW i \in 1 .. x + 1 + y PROVE p[i] = q[i]
  <2>1. CASE i <= x
    BY <1>3, <1>4, <1>6, <2>1
  <2>2. CASE i = x + 1
    BY <1>3, <1>4, <1>6, <2>2
  <2>3. CASE i > x + 1
    <3>1. PICK j \in 1 .. y : i = j + (x + 1)
      <4>1. i - (x + 1) \in 1 .. y /\ i = (i - (x + 1)) + (x + 1)
        BY <2>3
      <4> QED
        BY <4>1
    <3>2. p[i] = l[j] /\ q[i] = w[j + 1]
      <4>1. i - (x + 1) = j /\ i - x = j + 1 /\ ~(i <= x + 1) /\ ~(i <= x)
        BY <3>1
      <4> QED
        BY <1>6, <4>1
    <3> QED
      BY <1>3, <1>4, <3>2
  <2> QED
    BY <2>1, <2>2, <2>3
<1>8. p = q
  BY <1>6, <1>7, SeqEqual
<1> QED
  BY <1>1, <1>2, <1>5, <1>8

(* recv takes one byte from the wire to the buffer, and the stream stays   *)
(* as it is.                                                               *)
LEMMA ReadStream ==
  ASSUME FramesInv, ChannelInv, wire # <<>>
  PROVE  /\ Read \in Seq(Byte) /\ Tail(wire) \in Seq(Byte) /\ wire \in Seq(Byte) /\ buf \in Seq(Byte)
         /\ Len(Read) = Len(buf) + 1 /\ Len(wire) = Len(Tail(wire)) + 1
         /\ \A i \in 1 .. Len(buf) : Read[i] = buf[i]
         /\ Read[Len(buf) + 1] = wire[1]
         /\ \A i \in 1 .. Len(Tail(wire)) : Tail(wire)[i] = wire[i + 1]
         /\ Read \o Tail(wire) = Stream /\ Stream \in Seq(Byte)
<1>1. wire \in Seq(Byte) /\ buf \in Seq(Byte)
  BY DEF FramesInv, TypeInv, ChannelInv
<1>2. Stream \in Seq(Byte)
  BY <1>1, ConcatProperties DEF Stream
<1> QED
  BY <1>1, <1>2, ReadProperties DEF Read, Stream

(* In step, what is read next is the next byte of the frame.               *)
LEMMA ReadNext ==
  ASSUME FramesInv, ChannelInv, ~damaged, wire # <<>>
  PROVE  \E m \in Msgs :
           /\ Len(Read) <= FrameLen(m) /\ \A i \in 1 .. Len(Read) : Read[i] = <<m, i>>
           /\ need = IF Len(buf) < HeaderLen THEN -1 ELSE BodyLen[m]
<1>1. /\ wire \in Seq(Byte) /\ buf \in Seq(Byte) /\ Len(Read) = Len(buf) + 1
      /\ \A i \in 1 .. Len(buf) : Read[i] = buf[i]
      /\ Read[Len(buf) + 1] = wire[1]
  BY ReadStream
<1>2. BufInv /\ StreamInv
  BY DEF ChannelInv
<1>3. PICK k \in Nat, n \in Nat \ {0} : k = Len(buf) /\ n = Len(wire)
  BY <1>1
<1>4. /\ Stream \in Seq(Byte) /\ Len(Stream) = k + n
      /\ \A i \in 1 .. k + n : Stream[i] = IF i <= k THEN buf[i] ELSE wire[i - k]
  BY <1>1, <1>3, ConcatProperties DEF Stream
<1>5. Stream[k + 1] = wire[1] /\ wire[1] \in Byte
  <2>1. k + 1 \in 1 .. k + n /\ ~(k + 1 <= k) /\ (k + 1) - k = 1 /\ 1 \in 1 .. n
    OBVIOUS
  <2>2. Stream[k + 1] = wire[1]
    BY <1>4, <2>1
  <2>3. wire[1] \in Byte
    BY <1>1, <1>3, <2>1
  <2> QED
    BY <2>2, <2>3
<1>6. CASE buf = <<>>
  <2>1. k = 0 /\ need = -1 /\ Stream # <<>>
    BY <1>2, <1>3, <1>4, <1>6 DEF BufInv
  <2>2. wire[1][2] = 1
    BY <1>2, <1>5, <2>1 DEF StreamInv
  <2>3. PICK m \in Msgs : wire[1] = <<m, 1>>
    BY <1>5, <2>2 DEF Byte
  <2>4. Len(Read) = 1 /\ \A i \in 1 .. Len(Read) : Read[i] = <<m, i>>
    BY <1>1, <1>3, <2>1, <2>3
  <2>5. 1 <= FrameLen(m) /\ 0 < HeaderLen
    BY Lengths1
  <2> QED
    BY <1>3, <2>1, <2>4, <2>5
<1>7. CASE buf # <<>>
  <2>1. PICK m \in Msgs :
          /\ k < FrameLen(m) /\ \A i \in 1 .. k : buf[i] = <<m, i>>
          /\ need = IF k < HeaderLen THEN -1 ELSE BodyLen[m]
    BY <1>2, <1>3, <1>7 DEF BufInv
  <2>2. k \in 1 .. k + n - 1 /\ k \in 1 .. k /\ k + 1 \in 1 .. k + n
    BY <1>1, <1>3, <1>7
  <2>3. Follows(Stream[k], Stream[k + 1])
    BY <1>2, <1>4, <2>2 DEF StreamInv, InOrder
  <2>4. Stream[k] = <<m, k>>
    BY <1>4, <2>1, <2>2
  <2>5. wire[1] = <<m, k + 1>>
    <3>1. \/ m = wire[1][1] /\ wire[1][2] = k + 1
          \/ k = FrameLen(m)
      BY <1>5, <2>3, <2>4 DEF Follows
    <3>2. k # FrameLen(m)
      BY <2>1
    <3> QED
      BY <1>5, <3>1, <3>2 DEF Byte
  <2>6. FrameLen(m) \in Nat
    BY Lengths1
  <2>7. k + 1 <= FrameLen(m)
    BY <2>1, <2>6
  <2>8. \A i \in 1 .. k + 1 : Read[i] = <<m, i>>
    <3> SUFFICES ASSUME NEW i \in 1 .. k + 1 PROVE Read[i] = <<m, i>>
      OBVIOUS
    <3>1. CASE i = k + 1
      BY <1>1, <1>3, <2>5, <3>1
    <3>2. CASE i # k + 1
      <4>1. i \in 1 .. k
        BY <3>2
      <4> QED
        BY <1>1, <1>3, <2>1, <4>1
    <3> QED
      BY <3>1, <3>2
  <2> QED
    BY <1>1, <1>3, <2>1, <2>7, <2>8
<1> QED
  BY <1>6, <1>7

ChannelStep == [Channel!Next]_(Channel!vars)

(* A step of one thread changes no other.                                  *)
LEMMA ThreadStep ==
  ASSUME FramesInv, NEW t \in Threads, NEW p, thread' = [thread EXCEPT ![t] = p]
  PROVE  /\ thread'[t] = p /\ (Amid(t)' <=> AmidPart(p)) /\ (Amid(t) <=> AmidPart(thread[t]))
         /\ \A u \in Threads \ {t} : thread'[u] = thread[u] /\ (Amid(u)' <=> Amid(u))
<1>1. DOMAIN thread = Threads /\ thread = [u \in Threads |-> thread[u]]
  BY DEF FramesInv, TypeInv
<1>2. thread'[t] = p /\ \A u \in Threads \ {t} : thread'[u] = thread[u]
  BY <1>1
<1> QED
  BY <1>2 DEF Amid, AmidPart

(* The stream, and who is amid a frame of it, stay.                        *)
LEMMA StreamKept ==
  ASSUME StreamInv, UNCHANGED Stream, conn' = "open" => conn = "open",
         \A u \in Threads : (Amid(u)' <=> Amid(u)) /\ (Amid(u) => thread'[u] = thread[u])
  PROVE  StreamInv'
<1>1. PICK s : s = Stream /\ s = Stream'
  OBVIOUS
<1>2. /\ InOrder(s) /\ (s # <<>> => s[1][2] = 1)
      /\ conn = "open" =>
           /\ \A u \in Threads : Amid(u) =>
                s # <<>> /\ \A a \in Nat : NextByte(thread[u], a) => s[Len(s)] = <<thread[u].m, a - 1>>
           /\ s # <<>> /\ (\A u \in Threads : ~Amid(u)) => s[Len(s)][2] = FrameLen(s[Len(s)][1])
  BY <1>1 DEF StreamInv
<1>3. conn' = "open" =>
        /\ \A u \in Threads : Amid(u)' =>
             s # <<>> /\ \A a \in Nat : NextByte(thread'[u], a) => s[Len(s)] = <<thread'[u].m, a - 1>>
        /\ s # <<>> /\ (\A u \in Threads : ~Amid(u)') => s[Len(s)][2] = FrameLen(s[Len(s)][1])
  BY <1>2
<1> QED
  BY <1>1, <1>2, <1>3 DEF StreamInv

(* A step that leaves the stream is no step of the channel.                *)
LEMMA QuietStep ==
  ASSUME UNCHANGED <<Stream, got, damaged>>
  PROVE  ChannelStep
<1>1. UNCHANGED ChannelView
  BY DEF Stream, ChannelView
<1> QED
  BY <1>1 DEF ChannelStep, Channel!vars

(* A step that at most damages the direction breaks the channel or is none *)
(* of it.                                                                  *)
LEMMA BreakStep ==
  ASSUME UNCHANGED <<ChannelView, got>>, damaged \in BOOLEAN, damaged' \in BOOLEAN, damaged => damaged'
  PROVE  ChannelStep
<1>1. CASE damaged' = damaged
  BY <1>1 DEF ChannelStep, Channel!vars
<1>2. CASE ~damaged /\ damaged'
  BY <1>2 DEF ChannelStep, Channel!Next, Channel!Break
<1> QED
  BY <1>1, <1>2

(* Beginning a frame keeps the invariant and implements the channel.       *)
LEMMA SendMessageChannel ==
  ASSUME FramesInv, ChannelInv, NEW t \in Threads, NEW m \in Msgs, SendMessage(t, m)
  PROVE  ChannelInv' /\ ChannelStep
<1> DEFINE p == [m |-> m, step |-> "data", left |-> HeaderAndBody(m)]
<1>1. /\ thread[t] = Idle /\ thread' = [thread EXCEPT ![t] = p]
      /\ lock' = IF Locked THEN t ELSE lock
      /\ UNCHANGED <<conn, wire, buf, need, got, damaged>>
  BY DEF SendMessage, receiving
<1>2. ~AmidPart(p)
  BY FreshPart, AmidByte
<1> HIDE DEF p
<1>3. \A u \in Threads : (Amid(u)' <=> Amid(u)) /\ (Amid(u) => thread'[u] = thread[u])
  BY <1>1, <1>2, ThreadStep, IdleNotAmid
<1>4. UNCHANGED Stream
  BY <1>1 DEF Stream
<1>5. ~damaged' => conn' # "receiver" /\ BufInv' /\ StreamInv'
  BY <1>1, <1>3, <1>4, StreamKept DEF ChannelInv, BufInv
<1>6. buf' \in Seq(Byte) /\ lock' \in Threads \cup {NoThread}
  BY <1>1 DEF ChannelInv
<1>7. \A i \in 1 .. Len(wire') : wire'[i][2] \in 1 .. FrameLen(wire'[i][1])
  BY <1>1 DEF ChannelInv
<1>8. ChannelStep
  BY <1>1, <1>4, QuietStep
<1> QED
  BY <1>5, <1>6, <1>7, <1>8 DEF ChannelInv

(* So does a send that fails, which may break the channel.                 *)
LEMMA mSendFailsChannel ==
  ASSUME FramesInv, ChannelInv, NEW t \in Threads, mSendFails(t)
  PROVE  ChannelInv' /\ ChannelStep
<1>1. /\ thread' = [thread EXCEPT ![t] = Idle]
      /\ lock' = IF Locked THEN NoThread ELSE lock
      /\ conn' = IF Locked THEN "sender" ELSE conn
      /\ damaged' = (damaged \/ (~Locked /\ Amid(t)))
      /\ UNCHANGED <<wire, buf, need, got>>
  BY DEF mSendFails, receiving
<1>2. /\ ~Amid(t)' /\ thread'[t] = Idle
      /\ \A u \in Threads \ {t} : thread'[u] = thread[u] /\ (Amid(u)' <=> Amid(u))
  BY <1>1, ThreadStep, IdleNotAmid
<1>3. UNCHANGED Stream
  BY <1>1 DEF Stream
<1>d. damaged \in BOOLEAN /\ damaged' \in BOOLEAN
  BY <1>1, Zenon DEF FramesInv, TypeInv
<1>4. ASSUME ~damaged' PROVE conn' # "receiver" /\ BufInv' /\ StreamInv'
  <2>1. ~damaged /\ conn # "receiver" /\ BufInv /\ StreamInv /\ (Locked \/ ~Amid(t))
    BY <1>1, <1>4 DEF ChannelInv
  <2>2. conn' # "receiver" /\ BufInv'
    BY <1>1, <2>1 DEF BufInv
  <2>3. CASE Locked
    <3>1. conn' # "open" /\ Stream' = Stream
      BY <1>1, <1>3, <2>3
    <3> QED
      BY <2>1, <2>2, <3>1 DEF StreamInv
  <2>4. CASE ~Amid(t) /\ ~Locked
    <3>1. \A u \in Threads : (Amid(u)' <=> Amid(u)) /\ (Amid(u) => thread'[u] = thread[u])
      BY <1>2, <2>4
    <3>2. conn' = conn
      BY <1>1, <2>4
    <3> QED
      BY <1>3, <2>1, <2>2, <3>1, <3>2, StreamKept
  <2> QED
    BY <2>1, <2>3, <2>4
<1>5. buf' \in Seq(Byte) /\ lock' \in Threads \cup {NoThread}
  BY <1>1 DEF ChannelInv
<1>6. \A i \in 1 .. Len(wire') : wire'[i][2] \in 1 .. FrameLen(wire'[i][1])
  BY <1>1 DEF ChannelInv
<1>7. UNCHANGED ChannelView
  BY <1>3 DEF ChannelView, Stream
<1>8. ChannelStep
  <2>1. damaged => damaged'
    BY <1>1
  <2> QED
    BY <1>1, <1>d, <1>7, <2>1, BreakStep
<1> QED
  BY <1>4, <1>5, <1>6, <1>8 DEF ChannelInv

(* So does a send: the bytes of a whole frame append its message.          *)
LEMMA mSendChannel ==
  ASSUME FramesInv, ChannelInv, NEW t \in Threads, mSend(t)
  PROVE  ChannelInv' /\ ChannelStep
<1>1. /\ conn = "open"
      /\ damaged' = (damaged \/ \E u \in Threads \ {t} : Amid(u))
      /\ UNCHANGED <<conn, buf, need, got>>
  BY Zenon DEF mSend, receiving
<1>p. PICK m \in Msgs, a \in Nat \ {0}, n \in Nat \ {0}, s \in Seq(Byte),
           q \in Sending \cup {Idle} : Sends(t, m, a, n, s, q)
  BY mSendFacts
<1>2. /\ thread[t] \in Sending /\ thread[t].m = m /\ NextByte(thread[t], a)
      /\ Len(s) = n /\ Run(s, m, a)
      /\ a + n - 1 <= EndOf(thread[t]) /\ EndOf(thread[t]) <= FrameLen(m)
      /\ \/ q = Idle /\ a + n - 1 = FrameLen(m)
         \/ q \in Sending /\ q.m = m /\ NextByte(q, a + n) /\ a + n <= FrameLen(m)
      /\ wire' = wire \o s
      /\ thread' = [thread EXCEPT ![t] = q]
      /\ lock' = IF q = Idle /\ Locked THEN NoThread ELSE lock
  BY <1>p, Zenon DEF Sends
<1>3. PICK f \in Nat : f = FrameLen(m) /\ a + n - 1 <= f
  <2>1. FrameLen(m) \in Nat /\ EndOf(thread[t]) \in Nat
    <3>1. thread[t].step \in {"data", "over"} /\ thread[t].m = m
      BY <1>2 DEF Sending
    <3> QED
      BY <3>1, Lengths1 DEF EndOf
  <2> QED
    BY <1>2, <2>1
<1>4. /\ thread'[t] = q /\ (Amid(t)' <=> AmidPart(q)) /\ (Amid(t) <=> a # 1)
      /\ \A u \in Threads \ {t} : thread'[u] = thread[u] /\ (Amid(u)' <=> Amid(u))
  <2>1. AmidPart(thread[t]) <=> a # 1
    BY <1>2, AmidByte
  <2> QED
    BY <1>2, <2>1, ThreadStep
<1>d. damaged \in BOOLEAN /\ damaged' \in BOOLEAN
  BY <1>1, Zenon DEF FramesInv, TypeInv
<1>5. buf \in Seq(Byte) /\ wire \in Seq(Byte) /\ Stream \in Seq(Byte)
  <2>1. buf \in Seq(Byte) /\ wire \in Seq(Byte)
    BY DEF FramesInv, TypeInv, ChannelInv
  <2> QED
    BY <2>1, ConcatProperties DEF Stream
<1>6. Stream' = Stream \o s /\ Stream' \in Seq(Byte)
  <2>1. Stream' = buf \o (wire \o s)
    BY <1>1, <1>2 DEF Stream
  <2>2. Stream' = Stream \o s
    BY <1>5, <2>1, ConcatAssociative DEF Stream
  <2> QED
    BY <1>5, <2>2, ConcatProperties
<1>7. \A i \in 1 .. Len(wire') : wire'[i][2] \in 1 .. FrameLen(wire'[i][1])
  <2> SUFFICES ASSUME NEW i \in 1 .. Len(wire') PROVE wire'[i][2] \in 1 .. FrameLen(wire'[i][1])
    OBVIOUS
  <2>1. PICK k \in Nat : k = Len(wire)
    BY <1>5
  <2>2. Len(wire') = k + n /\ i \in 1 .. k + n /\ wire'[i] = IF i <= k THEN wire[i] ELSE s[i - k]
    BY <1>2, <1>5, <2>1, ConcatProperties
  <2>3. CASE i <= k
    BY <2>1, <2>2, <2>3 DEF ChannelInv
  <2>4. CASE ~(i <= k)
    <3>1. PICK j \in 1 .. n : j = i - k
      BY <2>2, <2>4
    <3>2. wire'[i] = <<m, a + j - 1>>
      BY <1>2, <2>2, <2>4, <3>1 DEF Run
    <3>3. a + j - 1 \in 1 .. f
      BY <1>3
    <3> QED
      BY <1>3, <3>2, <3>3
  <2> QED
    BY <2>3, <2>4
<1>8. ASSUME ~damaged' PROVE conn' # "receiver" /\ BufInv' /\ StreamInv'
  <2>1. /\ ~damaged /\ conn # "receiver" /\ BufInv /\ StreamInv
        /\ \A u \in Threads \ {t} : ~Amid(u)
    BY <1>1, <1>8 DEF ChannelInv
  <2>2. conn' # "receiver" /\ BufInv'
    BY <1>1, <2>1 DEF BufInv
  <2>3. PICK w \in Seq(Byte) : w = Stream
    BY <1>5
  <2>4. /\ InOrder(w) /\ (w # <<>> => w[1][2] = 1)
        /\ a # 1 => w # <<>> /\ w[Len(w)] = <<m, a - 1>>
        /\ a = 1 /\ w # <<>> => w[Len(w)][2] = FrameLen(w[Len(w)][1])
    BY <1>1, <1>2, <1>4, <2>1, <2>3 DEF StreamInv
  <2>5. Joins(w, m, a)
    BY <2>4 DEF Joins
  <2>6. InOrder(w \o s) /\ EndsAt(w \o s, m, a + n - 1)
    BY <1>2, <2>4, <2>5, WireFollows
  <2>7. PICK c \in Seq(Byte) : c = w \o s /\ c = Stream'
    BY <1>6, <2>3
  <2>8. InOrder(c) /\ c # <<>> /\ c[Len(c)] = <<m, a + n - 1>>
    BY <2>6, <2>7 DEF EndsAt
  <2>9. c[1][2] = 1
    <3>1. Len(s) \in Nat \ {0} /\ s[1] = <<m, a + 1 - 1>>
      <4>1. Len(s) \in Nat \ {0} /\ 1 \in 1 .. Len(s)
        BY <1>2
      <4> QED
        BY <1>2, <4>1, Zenon DEF Run
    <3>2. CASE w = <<>>
      <4>1. a = 1 /\ c = s
        BY <2>4, <2>7, <3>2, ConcatEmptySeq
      <4> QED
        BY <3>1, <4>1
    <3>3. CASE w # <<>>
      <4>1. c[1] = w[1]
        <5>1. 1 \in 1 .. Len(w) + Len(s) /\ 1 <= Len(w)
          BY <3>1, <3>3
        <5>2. \A i \in 1 .. Len(w) + Len(s) : c[i] = IF i <= Len(w) THEN w[i] ELSE s[i - Len(w)]
          BY <2>7, ConcatProperties
        <5> QED
          BY <5>1, <5>2
      <4> QED
        BY <2>4, <3>3, <4>1
    <3> QED
      BY <3>2, <3>3
  <2>10. \A u \in Threads \ {t} : ~Amid(u)'
    BY <1>4, <2>1
  <2>11. CASE q = Idle /\ a + n - 1 = FrameLen(m)
    <3>1. ~Amid(t)' /\ c[Len(c)][2] = FrameLen(c[Len(c)][1])
      BY <1>4, <2>8, <2>11, IdleNotAmid
    <3>2. \A u \in Threads : ~Amid(u)'
      BY <2>10, <3>1
    <3>3. StreamInv'
      BY <2>7, <2>8, <2>9, <3>1, <3>2 DEF StreamInv
    <3> QED
      BY <2>2, <3>3
  <2>12. CASE q \in Sending /\ q.m = m /\ NextByte(q, a + n)
    <3>1. a + n \in Nat /\ a + n # 1 /\ (a + n) - 1 = a + n - 1
      OBVIOUS
    <3>2. Amid(t)' /\ \A b \in Nat : NextByte(q, b) => b = a + n
      BY <1>4, <2>12, <3>1, AmidByte
    <3>3. \A b \in Nat : NextByte(q, b) => c[Len(c)] = <<q.m, b - 1>>
      BY <2>8, <2>12, <3>1, <3>2
    <3>4. StreamInv'
      BY <1>4, <2>7, <2>8, <2>9, <2>10, <3>2, <3>3 DEF StreamInv
    <3> QED
      BY <2>2, <3>4
  <2> QED
    BY <1>2, <2>11, <2>12
<1>9. buf' \in Seq(Byte) /\ lock' \in Threads \cup {NoThread}
  BY <1>1, <1>2 DEF ChannelInv
<1>10. ChannelView' = ChannelView \o Ended(s)
  BY <1>5, <1>6, EndedConcat DEF ChannelView, Stream
<1>11. Ended(s) = IF a + n - 1 = f THEN <<m>> ELSE <<>>
  BY <1>2, <1>3, EndedRun
<1>12. ChannelView \in Seq(Msgs)
  BY <1>5, EndedType DEF ChannelView, Stream
<1>13. CASE a + n - 1 = f
  <2>1. ChannelView' = Append(ChannelView, m)
    BY <1>10, <1>11, <1>12, <1>13
  <2>2. damaged' = damaged
    <3> SUFFICES ASSUME ~damaged, NEW u \in Threads \ {t}, Amid(u) PROVE FALSE
      BY <1>1, <1>d
    <3>1. ~Amid(t)
      BY DEF FramesInv, WireInv, InStep
    <3>2. a = 1
      BY <1>4, <3>1
    <3>3. thread[t].step = "data"
      BY <1>2, <3>2 DEF NextByte
    <3>4. EndOf(thread[t]) = HeaderLen + BodyLen[m]
      BY <1>2, <3>3 DEF EndOf
    <3> QED
      BY <1>2, <1>3, <1>13, <3>4, Lengths1
  <2> QED
    BY <1>1, <1>7, <1>8, <1>9, <2>1, <2>2 DEF ChannelInv, ChannelStep, Channel!Next, Channel!Put
<1>14. CASE a + n - 1 # f
  <2>1. UNCHANGED ChannelView
    BY <1>10, <1>11, <1>12, <1>14, ConcatEmptySeq
  <2>2. ChannelStep
    BY <1>1, <1>d, <2>1, BreakStep
  <2> QED
    BY <1>7, <1>8, <1>9, <2>2 DEF ChannelInv
<1> QED
  BY <1>13, <1>14

(* With nothing in the buffer the stream is the wire.                      *)
LEMMA EmptyStream ==
  /\ FramesInv /\ ~damaged /\ buf = <<>>
  /\ wire # <<>> => wire[1][2] = 1
  /\ conn = "open" /\ wire = <<>> => \A t \in Threads : ~Amid(t)
  => StreamInv
<1> SUFFICES ASSUME FramesInv, ~damaged, buf = <<>>,
                    wire # <<>> => wire[1][2] = 1,
                    conn = "open" /\ wire = <<>> => \A t \in Threads : ~Amid(t)
             PROVE  StreamInv
  OBVIOUS
<1>1. Stream = wire
  BY ConcatEmptySeq DEF Stream, FramesInv, TypeInv
<1>2. InStep
  BY DEF FramesInv, WireInv
<1>3. InOrder(wire)
  BY <1>2 DEF InStep, InOrder
<1> QED
  BY <1>1, <1>2, <1>3 DEF StreamInv, InStep

(* A byte more in the buffer.                                              *)
LEMMA ReadKept ==
  ASSUME FramesInv, ChannelInv, wire # <<>>, wire' = Tail(wire), buf' = Read,
         UNCHANGED <<sending, damaged>>, ~damaged => UNCHANGED conn /\ BufInv'
  PROVE  ChannelInv' /\ UNCHANGED Stream
<1>1. UNCHANGED <<thread, lock>>
  BY DEF sending
<1>2. /\ Read \in Seq(Byte) /\ Tail(wire) \in Seq(Byte) /\ Len(wire) = Len(Tail(wire)) + 1
      /\ \A i \in 1 .. Len(Tail(wire)) : Tail(wire)[i] = wire[i + 1]
      /\ Read \o Tail(wire) = Stream
  BY ReadStream
<1>3. UNCHANGED Stream
  BY <1>2 DEF Stream
<1>4. \A i \in 1 .. Len(wire') : wire'[i][2] \in 1 .. FrameLen(wire'[i][1])
  <2>1. \A i \in 1 .. Len(Tail(wire)) : i + 1 \in 1 .. Len(wire)
    BY <1>2
  <2> QED
    BY <1>2, <2>1, Zenon DEF ChannelInv
<1>5. \A u \in Threads : (Amid(u)' <=> Amid(u)) /\ (Amid(u) => thread'[u] = thread[u])
  BY <1>1 DEF Amid
<1>6. ~damaged' => conn' # "receiver" /\ BufInv' /\ StreamInv'
  BY <1>3, <1>5, StreamKept DEF ChannelInv
<1> QED
  BY <1>1, <1>2, <1>3, <1>4, <1>6 DEF ChannelInv

(* The buffer is given up.                                                 *)
LEMMA ReadDropped ==
  ASSUME FramesInv, ChannelInv, wire # <<>>, wire' = Tail(wire), buf' = <<>>, UNCHANGED sending,
         ~damaged' => conn' # "receiver" /\ BufInv' /\ StreamInv'
  PROVE  /\ ChannelInv'
         /\ ChannelView' = Ended(Tail(wire)) /\ ChannelView = Ended(Read) \o Ended(Tail(wire))
         /\ ChannelView' \in Suffixes(ChannelView)
<1>2. /\ Read \in Seq(Byte) /\ Tail(wire) \in Seq(Byte) /\ Len(wire) = Len(Tail(wire)) + 1
      /\ \A i \in 1 .. Len(Tail(wire)) : Tail(wire)[i] = wire[i + 1]
      /\ Read \o Tail(wire) = Stream
  BY ReadStream
<1>3. \A i \in 1 .. Len(wire') : wire'[i][2] \in 1 .. FrameLen(wire'[i][1])
  <2>1. \A i \in 1 .. Len(Tail(wire)) : i + 1 \in 1 .. Len(wire)
    BY <1>2
  <2> QED
    BY <1>2, <2>1, Zenon DEF ChannelInv
<1>4. ChannelView' = Ended(Tail(wire))
  <2>1. buf' \o wire' = Tail(wire)
    BY <1>2, ConcatEmptySeq
  <2> QED
    BY <2>1 DEF ChannelView
<1>5. ChannelView = Ended(Read \o Tail(wire))
  BY <1>2 DEF ChannelView, Stream
<1>6. ChannelView' \in Suffixes(ChannelView) /\ ChannelView = Ended(Read) \o Ended(Tail(wire))
  BY <1>2, <1>4, <1>5, EndedSuffix, EndedConcat
<1>7. buf' \in Seq(Byte) /\ lock' \in Threads \cup {NoThread}
  BY DEF sending, ChannelInv
<1> QED
  BY <1>3, <1>4, <1>6, <1>7 DEF ChannelInv

(* So does receiving a byte, which the channel does not see.               *)
LEMMA mRecvChannel ==
  ASSUME FramesInv, ChannelInv, mRecv
  PROVE  ChannelInv' /\ ChannelStep
<1>1. /\ wire # <<>> /\ wire' = Tail(wire) /\ buf' = Read
      /\ IF need = -1 THEN Len(Read) < HeaderLen ELSE Len(Read) < HeaderLen + need + OverLen
      /\ UNCHANGED <<sending, conn, need, got, damaged>>
  BY DEF mRecv, Reads
<1>2. ASSUME ~damaged PROVE BufInv'
  <2>1. PICK m \in Msgs :
          /\ Len(Read) <= FrameLen(m) /\ \A i \in 1 .. Len(Read) : Read[i] = <<m, i>>
          /\ need = IF Len(buf) < HeaderLen THEN -1 ELSE BodyLen[m]
    BY <1>1, <1>2, ReadNext
  <2>2. PICK k \in Nat : Len(buf) = k /\ Len(Read) = k + 1 /\ Read # <<>>
    BY <1>1, ReadStream
  <2>3. /\ BodyLen[m] \in Nat /\ HeaderLen \in Nat \ {0} /\ OverLen \in Nat \ {0}
        /\ FrameLen(m) = HeaderLen + BodyLen[m] + OverLen
    BY Lengths1
  <2>4. Len(Read) < FrameLen(m) /\ need = IF Len(Read) < HeaderLen THEN -1 ELSE BodyLen[m]
    <3>1. CASE k < HeaderLen
      <4>1. need = -1 /\ k + 1 < HeaderLen
        BY <1>1, <2>1, <2>2, <3>1
      <4> QED
        BY <2>2, <2>3, <4>1
    <3>2. CASE ~(k < HeaderLen)
      <4>1. need = BodyLen[m] /\ need # -1
        BY <2>1, <2>2, <2>3, <3>2
      <4>2. k + 1 < HeaderLen + BodyLen[m] + OverLen
        BY <1>1, <2>2, <4>1
      <4> QED
        BY <2>2, <2>3, <3>2, <4>1, <4>2
    <3> QED
      BY <3>1, <3>2
  <2> QED
    BY <1>1, <2>1, <2>2, <2>4 DEF BufInv
<1>3. ChannelInv' /\ UNCHANGED Stream
  BY <1>1, <1>2, ReadKept
<1> QED
  BY <1>1, <1>3, QuietStep

(* A broken channel may lose what was in the buffer, and hand on anything. *)
LEMMA DisturbedStep ==
  ASSUME damaged = TRUE, damaged' \in BOOLEAN, ChannelView' \in Suffixes(ChannelView),
         got' = got \/ \E x \in Msgs \cup {Garbled} : got' = Append(got, x)
  PROVE  ChannelStep
<1>1. (~damaged)' \in BOOLEAN /\ ~(~damaged)
  BY Zenon
<1>2. got' \in {got} \cup {Append(got, x) : x \in Msgs \cup {Garbled}}
  BY Zenon
<1> QED
  BY <1>1, <1>2, Zenon DEF ChannelStep, Channel!Next, Channel!Disturbed, Channel!Suffixes, Suffixes

(* So does reading the length in the header.                               *)
LEMMA HeaderChannel ==
  ASSUME FramesInv, ChannelInv, Header
  PROVE  ChannelInv' /\ ChannelStep
<1>1. PICK n \in Lengths(Read) :
        /\ need' = n
        /\ buf' = IF n = -1 THEN <<>> ELSE Read
        /\ conn' = IF n = -1 /\ receiver = "client" THEN "receiver" ELSE conn
  BY DEF Header
<1>2. /\ wire # <<>> /\ wire' = Tail(wire) /\ Len(Read) = HeaderLen
      /\ UNCHANGED <<sending, got, damaged>>
  BY DEF Header, Reads
<1>d. damaged \in BOOLEAN
  BY DEF FramesInv, TypeInv
<1>3. ASSUME ~damaged PROVE n # -1 /\ UNCHANGED conn /\ BufInv'
  <2>1. PICK m \in Msgs : \A i \in 1 .. Len(Read) : Read[i] = <<m, i>>
    BY <1>2, <1>3, ReadNext
  <2>2. /\ BodyLen[m] \in Nat /\ HeaderLen \in Nat \ {0} /\ OverLen \in Nat \ {0}
        /\ FrameLen(m) = HeaderLen + BodyLen[m] + OverLen
    BY Lengths1
  <2>3. Read \in Seq(Byte) /\ Read # <<>>
    BY <1>2, <2>2, ReadStream
  <2>4. Read = Bytes(m, 1, HeaderLen)
    <3>1. DOMAIN Read = 1 .. HeaderLen /\ Read = [i \in 1 .. HeaderLen |-> Read[i]]
      BY <1>2, <2>2, <2>3
    <3>2. HeaderLen - 1 + 1 = HeaderLen /\ \A i \in 1 .. HeaderLen : 1 + i - 1 = i
      BY <2>2
    <3>3. Bytes(m, 1, HeaderLen) = [i \in 1 .. HeaderLen |-> <<m, 1 + i - 1>>]
      BY <3>2, Zenon DEF Bytes
    <3>4. \A i \in 1 .. HeaderLen : Read[i] = <<m, 1 + i - 1>>
      BY <1>2, <2>1, <3>2
    <3> QED
      BY <3>1, <3>3, <3>4
  <2>5. Lengths(Read) = {BodyLen[Read[1][1]]}
    BY <2>4, Zenon DEF Lengths, IsHeader
  <2>6. Read[1][1] = m
    BY <1>2, <2>1, <2>2
  <2>7. n = BodyLen[m] /\ n # -1
    BY <2>2, <2>5, <2>6
  <2>8. buf' = Read /\ UNCHANGED conn /\ need' = BodyLen[m]
    BY <1>1, <2>7
  <2>9. Len(Read) < FrameLen(m) /\ ~(Len(Read) < HeaderLen)
    BY <1>2, <2>2
  <2> QED
    BY <2>1, <2>3, <2>7, <2>8, <2>9 DEF BufInv
<1>4. CASE n # -1
  <2>1. buf' = Read
    BY <1>1, <1>4
  <2>2. ChannelInv' /\ UNCHANGED Stream
    BY <1>2, <1>3, <2>1, ReadKept
  <2> QED
    BY <1>2, <2>2, QuietStep
<1>5. CASE n = -1
  <2>1. damaged = TRUE /\ damaged' = TRUE
    BY <1>2, <1>3, <1>5, <1>d
  <2>2. buf' = <<>>
    BY <1>1, <1>5
  <2>3. ChannelInv' /\ ChannelView' \in Suffixes(ChannelView)
    BY <1>2, <2>1, <2>2, ReadDropped
  <2> QED
    BY <1>2, <2>1, <2>3, DisturbedStep
<1> QED
  BY <1>4, <1>5

(* What is read as a whole frame in step is one: it ends in the mark, and  *)
(* its content is the message.                                             *)
LEMMA WholeFrame ==
  ASSUME NEW f \in Seq(Byte), NEW m \in Msgs, Len(f) = FrameLen(m),
         \A i \in 1 .. Len(f) : f[i] = <<m, i>>
  PROVE  EndsInOver(f) /\ Content(f) = m /\ Ended(f) = <<m>>
<1>1. /\ BodyLen[m] \in Nat /\ HeaderLen \in Nat \ {0} /\ OverLen \in Nat \ {0}
      /\ FrameLen(m) = HeaderLen + BodyLen[m] + OverLen
  BY Lengths1
<1>2. PICK l \in Nat \ {0} : l = FrameLen(m) /\ l >= OverLen
  BY <1>1
<1>3. EndsInOver(f)
  <2>1. ASSUME NEW j \in 1 .. OverLen
        PROVE  f[Len(f) - OverLen + j][2] = FrameLen(f[Len(f) - OverLen + j][1]) - OverLen + j
    <3>1. PICK x \in 1 .. l : x = l - OverLen + j
      BY <1>1, <1>2
    <3>2. f[x] = <<m, x>>
      BY <1>2, <3>1
    <3>3. f[x][2] = x /\ f[x][1] = m
      BY <3>2
    <3> QED
      BY <1>2, <3>1, <3>3
  <2> QED
    BY <2>1 DEF EndsInOver
<1>4. Content(f) = m
  <2>1. l - 1 + 1 = l /\ \A i \in 1 .. l : 1 + i - 1 = i
    OBVIOUS
  <2>2. Bytes(m, 1, l) = [i \in 1 .. l |-> <<m, 1 + i - 1>>]
    BY <2>1, Zenon DEF Bytes
  <2>3. DOMAIN f = 1 .. l /\ f = [i \in 1 .. l |-> f[i]]
    BY <1>2
  <2>4. \A i \in 1 .. l : f[i] = <<m, 1 + i - 1>>
    BY <1>2, <2>1
  <2>5. f = Bytes(m, 1, FrameLen(m))
    BY <1>2, <2>2, <2>3, <2>4
  <2>6. f[1][1] = m
    BY <1>2
  <2> QED
    BY <2>5, <2>6, Zenon DEF Content
<1>5. Ended(f) = <<m>>
  <2>1. Run(f, m, 1)
    BY <1>2 DEF Run
  <2>2. 1 + Len(f) - 1 <= FrameLen(m) /\ 1 + Len(f) - 1 = FrameLen(m)
    BY <1>2
  <2> QED
    BY <2>1, <2>2, EndedRun
<1> QED
  BY <1>3, <1>4, <1>5

(* A received frame is a message or garbled.                               *)
LEMMA ContentType ==
  ASSUME NEW f \in Seq(Byte)
  PROVE  Content(f) \in Msgs \cup {Garbled}
<1>1. ASSUME NEW m \in Msgs, f = Bytes(m, 1, FrameLen(m)) PROVE f[1][1] = m
  <2>1. PICK l \in Nat \ {0} : l = FrameLen(m)
    BY Lengths1
  <2>2. 1 \in 1 .. l - 1 + 1
    OBVIOUS
  <2>3. f[1] = <<m, 1 + 1 - 1>>
    BY <1>1, <2>1, <2>2, Zenon DEF Bytes
  <2> QED
    BY <2>3
<1> QED
  BY <1>1, Zenon DEF Content

(* So does a frame that is complete: the first message of the channel is   *)
(* delivered.                                                              *)
LEMMA FrameDelivered ==
  ASSUME FramesInv, FramesInv', ChannelInv, Frame
  PROVE  ChannelInv' /\ ChannelStep
<1>1. /\ wire # <<>> /\ wire' = Tail(wire) /\ need # -1
      /\ Len(Read) = HeaderLen + need + OverLen
      /\ got' = IF EndsInOver(Read) THEN Append(got, Content(Read)) ELSE got
      /\ buf' = <<>> /\ need' = -1
      /\ UNCHANGED <<sending, conn, damaged>>
  BY DEF Frame, Reads
<1>2. /\ Read \in Seq(Byte) /\ Tail(wire) \in Seq(Byte) /\ wire \in Seq(Byte) /\ buf \in Seq(Byte)
      /\ Len(Read) = Len(buf) + 1 /\ Read[Len(buf) + 1] = wire[1]
      /\ Len(wire) = Len(Tail(wire)) + 1
      /\ \A i \in 1 .. Len(Tail(wire)) : Tail(wire)[i] = wire[i + 1]
      /\ Read \o Tail(wire) = Stream
  BY <1>1, ReadStream
<1>d. damaged \in BOOLEAN /\ damaged' = damaged
  BY <1>1 DEF FramesInv, TypeInv
<1>3. CASE damaged = TRUE
  <2>1. ChannelInv' /\ ChannelView' \in Suffixes(ChannelView)
    BY <1>1, <1>3, <1>d, ReadDropped
  <2>2. got' = got \/ \E x \in Msgs \cup {Garbled} : got' = Append(got, x)
    BY <1>1, <1>2, ContentType
  <2> QED
    BY <1>3, <1>d, <2>1, <2>2, DisturbedStep
<1>4. CASE ~damaged
  <2>1. PICK m \in Msgs :
          /\ Len(Read) <= FrameLen(m) /\ \A i \in 1 .. Len(Read) : Read[i] = <<m, i>>
          /\ need = IF Len(buf) < HeaderLen THEN -1 ELSE BodyLen[m]
    BY <1>1, <1>4, ReadNext
  <2>2. PICK f \in Nat \ {0} : f = FrameLen(m) /\ Len(Read) = f
    <3>1. need = BodyLen[m]
      BY <1>1, <2>1
    <3> QED
      BY <1>1, <3>1, Lengths1
  <2>3. EndsInOver(Read) /\ Content(Read) = m /\ Ended(Read) = <<m>>
    BY <1>2, <2>1, <2>2, WholeFrame
  <2>4. got' = Append(got, m)
    BY <1>1, <2>3
  <2>5. wire[1] = <<m, f>>
    <3>1. f \in 1 .. Len(Read) /\ f = Len(buf) + 1
      BY <1>2, <2>2
    <3> QED
      BY <1>2, <2>1, <3>1
  <2>6. wire' # <<>> => wire'[1][2] = 1
    <3> SUFFICES ASSUME wire' # <<>> PROVE wire'[1][2] = 1
      OBVIOUS
    <3>1. 1 \in 1 .. Len(Tail(wire)) /\ 1 \in 1 .. Len(wire) - 1 /\ 2 \in 1 .. Len(wire) /\ 1 + 1 = 2
      BY <1>1, <1>2
    <3>2. wire'[1] = wire[2]
      BY <1>1, <1>2, <3>1
    <3>3. Follows(wire[1], wire[2])
      BY <1>4, <3>1 DEF FramesInv, WireInv, InStep
    <3>4. wire[2] \in Byte /\ wire[2][2] \in 1 .. FrameLen(wire[2][1])
      BY <1>2, <3>1 DEF ChannelInv
    <3>5. \/ m = wire[2][1] /\ wire[2][2] = f + 1
          \/ wire[2][2] = 1
      BY <2>5, <3>3 DEF Follows
    <3>6. ~(m = wire[2][1] /\ wire[2][2] = f + 1)
      BY <2>2, <3>4
    <3> QED
      BY <3>2, <3>5, <3>6
  <2>7. conn' = "open" /\ wire' = <<>> => \A t \in Threads : ~Amid(t)'
    <3> SUFFICES ASSUME conn = "open", wire' = <<>>, NEW t \in Threads, Amid(t) PROVE FALSE
      BY <1>1 DEF sending, Amid
    <3>1. thread[t] # Idle
      BY IdleNotAmid DEF Amid, AmidPart
    <3>2. PICK a \in Nat : thread[t] \in Sending /\ NextByte(thread[t], a)
      BY <3>1 DEF FramesInv, ThreadInv
    <3>3. PICK q \in Msgs : q = thread[t].m
      BY <3>2 DEF Sending
    <3>4. a <= FrameLen(q) /\ FrameLen(q) \in Nat /\ a # 0
      <4>1. a \in 1 .. EndOf(thread[t])
        BY <3>2 DEF NextByte
      <4>2. EndOf(thread[t]) \in Nat /\ EndOf(thread[t]) <= FrameLen(q) /\ FrameLen(q) \in Nat
        BY <3>3, Lengths1 DEF EndOf
      <4> QED
        BY <4>1, <4>2
    <3>5. Stream = Read
      BY <1>1, <1>2, ConcatEmptySeq
    <3>6. Read[Len(Read)] = <<m, f>>
      BY <2>1, <2>2
    <3>7. Stream[Len(Stream)] = <<q, a - 1>>
      BY <1>4, <3>2, <3>3 DEF ChannelInv, StreamInv
    <3>8. m = q /\ f = a - 1
      BY <3>5, <3>6, <3>7
    <3> QED
      BY <2>2, <3>4, <3>8
  <2>8. (/\ FramesInv /\ ~damaged /\ buf = <<>>
         /\ wire # <<>> => wire[1][2] = 1
         /\ conn = "open" /\ wire = <<>> => \A t \in Threads : ~Amid(t)
         => StreamInv)'
    BY EmptyStream, PTL
  <2>9. StreamInv' /\ BufInv' /\ conn' # "receiver"
    <3>1. StreamInv'
      BY <1>1, <1>4, <1>d, <2>6, <2>7, <2>8
    <3> QED
      BY <1>1, <1>4, <3>1 DEF BufInv, ChannelInv
  <2>10. /\ ChannelInv'
         /\ ChannelView' = Ended(Tail(wire)) /\ ChannelView = Ended(Read) \o Ended(Tail(wire))
    BY <1>1, <2>9, ReadDropped
  <2>11. PICK v \in Seq(Msgs) : v = Ended(Tail(wire))
    BY <1>2, EndedType
  <2>12. ChannelView = <<m>> \o v /\ ChannelView' = v
    BY <2>3, <2>10, <2>11
  <2>13. ChannelView # <<>> /\ ChannelView' = Tail(ChannelView) /\ Head(ChannelView) = m
    BY <2>12
  <2> QED
    BY <1>d, <2>4, <2>10, <2>13 DEF ChannelStep, Channel!Next, Channel!Get
<1> QED
  BY <1>3, <1>4, <1>d

(* So does a time-out: inside a frame it breaks the channel, at its end it *)
(* may mend it.                                                            *)
LEMMA RecvTimeoutChannel ==
  ASSUME FramesInv, FramesInv', ChannelInv, RecvTimeout
  PROVE  ChannelInv' /\ ChannelStep
<1>1. /\ Locked /\ conn = "open" /\ buf' = <<>> /\ need' = -1
      /\ damaged' = (Ahead # <<>> /\ Head(Ahead)[2] # 1)
      /\ UNCHANGED <<thread, lock, conn, wire, got>>
  BY DEF RecvTimeout, Locked, sending
<1>d. damaged \in BOOLEAN /\ damaged' \in BOOLEAN
  BY DEF FramesInv, TypeInv
<1>2. buf \in Seq(Byte) /\ wire \in Seq(Byte)
  BY DEF FramesInv, TypeInv, ChannelInv
<1>3. ChannelView' = Ended(wire) /\ ChannelView = Ended(buf \o wire)
  <2>1. buf' \o wire' = wire
    BY <1>1, <1>2, ConcatEmptySeq
  <2> QED
    BY <2>1 DEF ChannelView
(* The receiver is in step again if what comes next is a frame's start.    *)
<1>4. ASSUME ~damaged' PROVE conn' # "receiver" /\ BufInv' /\ StreamInv'
  <2>1. wire' # <<>> => wire'[1][2] = 1
    <3> SUFFICES ASSUME wire # <<>> PROVE wire[1][2] = 1
      BY <1>1
    <3>1. PICK x \in Seq(Byte) : Ahead = wire \o x
      <4>1. CASE lock = NoThread
        BY <4>1, EmptySeq DEF Ahead
      <4>2. CASE lock # NoThread
        <5>1. lock \in Threads
          BY <4>2 DEF ChannelInv
        <5>2. thread[lock].left \in Seq(Byte)
          <6>1. CASE thread[lock] = Idle
            <7>1. thread[lock].left = <<>>
              BY <6>1 DEF Idle
            <7> QED
              BY <7>1, EmptySeq
          <6>2. CASE thread[lock] \in Sending
            BY <6>2 DEF Sending
          <6> QED
            BY <5>1, <6>1, <6>2, Zenon DEF FramesInv, ThreadInv
        <5> QED
          BY <4>2, <5>2 DEF Ahead
      <4> QED
        BY <4>1, <4>2
    <3>2. Ahead # <<>> /\ Head(Ahead) = wire[1]
      BY <1>2, <3>1
    <3> QED
      BY <1>1, <1>4, <3>2
  <2>2. wire' = <<>> => \A t \in Threads : ~Amid(t)'
    <3> SUFFICES ASSUME wire = <<>>, NEW t \in Threads, Amid(t) PROVE FALSE
      BY <1>1 DEF Amid
    <3>1. thread[t] # Idle
      BY IdleNotAmid DEF Amid, AmidPart
    <3>2. PICK a \in Nat : thread[t] \in Sending /\ NextByte(thread[t], a)
      BY <3>1 DEF FramesInv, ThreadInv
    <3>3. a # 1
      BY <3>2, AmidByte DEF Amid, AmidPart
    <3>4. lock = t /\ lock # NoThread
      BY <1>1, <3>1, ThreadAssumption DEF FramesInv, LockInv
    <3>5. PICK l \in Seq(Byte) : l = thread[t].left
      BY <3>2 DEF Sending
    <3>6. Ahead = l
      BY <3>4, <3>5, ConcatEmptySeq DEF Ahead
    <3>7. Len(l) \in Nat \ {0}
      <4>1. EndOf(thread[t]) \in Nat
        BY <3>2, Lengths1 DEF EndOf, Sending
      <4>2. a \in 1 .. EndOf(thread[t]) /\ Len(l) = EndOf(thread[t]) - a + 1
        BY <3>2, <3>5 DEF NextByte
      <4> QED
        BY <4>1, <4>2
    <3>8. l[1] = <<thread[t].m, a + 1 - 1>>
      <4>1. 1 \in 1 .. Len(l)
        BY <3>7
      <4> QED
        BY <3>2, <3>5, <4>1, Zenon DEF NextByte
    <3>9. l # <<>> /\ Head(l)[2] = a
      BY <3>7, <3>8
    <3> QED
      BY <1>1, <1>4, <3>3, <3>6, <3>9
  <2>3. (/\ FramesInv /\ ~damaged /\ buf = <<>>
         /\ wire # <<>> => wire[1][2] = 1
         /\ conn = "open" /\ wire = <<>> => \A t \in Threads : ~Amid(t)
         => StreamInv)'
    BY EmptyStream, PTL
  <2>4. StreamInv'
    BY <1>1, <1>4, <2>1, <2>2, <2>3
  <2> QED
    BY <1>1, <2>4 DEF BufInv
<1>5. ChannelInv'
  <2>1. \A i \in 1 .. Len(wire') : wire'[i][2] \in 1 .. FrameLen(wire'[i][1])
    BY <1>1 DEF ChannelInv
  <2>2. buf' \in Seq(Byte) /\ lock' \in Threads \cup {NoThread}
    BY <1>1, EmptySeq DEF ChannelInv
  <2> QED
    BY <1>4, <2>1, <2>2 DEF ChannelInv
<1>6. CASE damaged = TRUE
  <2>1. ChannelView' \in Suffixes(ChannelView)
    BY <1>2, <1>3, EndedSuffix
  <2> QED
    BY <1>1, <1>5, <1>6, <1>d, <2>1, DisturbedStep
<1>7. CASE ~damaged
  <2>1. Ended(buf) = <<>>
    <3>1. CASE buf = <<>>
      <4>1. FrameEnds(buf) = {}
        BY <3>1 DEF FrameEnds
      <4> QED
        BY <1>2, <4>1, EndedNone
    <3>2. CASE buf # <<>>
      <4>1. PICK m \in Msgs : Len(buf) < FrameLen(m) /\ \A i \in 1 .. Len(buf) : buf[i] = <<m, i>>
        BY <1>7, <3>2 DEF ChannelInv, BufInv
      <4>2. Len(buf) \in Nat \ {0} /\ FrameLen(m) \in Nat
        BY <1>2, <3>2, Lengths1
      <4>3. Run(buf, m, 1)
        BY <4>1, <4>2 DEF Run
      <4>4. 1 + Len(buf) - 1 <= FrameLen(m) /\ 1 + Len(buf) - 1 # FrameLen(m)
        BY <4>1, <4>2
      <4> QED
        BY <1>2, <4>3, <4>4, EndedRun
    <3> QED
      BY <3>1, <3>2
  <2>2. UNCHANGED ChannelView
    <3>1. Ended(wire) \in Seq(Msgs)
      BY <1>2, EndedType
    <3>2. ChannelView = <<>> \o Ended(wire)
      BY <1>2, <1>3, <2>1, EndedConcat
    <3> QED
      BY <1>3, <3>1, <3>2, ConcatEmptySeq
  <2> QED
    BY <1>1, <1>5, <1>7, <1>d, <2>2, BreakStep
<1> QED
  BY <1>6, <1>7, <1>d

-----------------------------------------------------------------------------
(* The first states map to first states of the channel.                    *)
LEMMA InitChannelInv == Init => ChannelInv /\ Channel!Init
<1> SUFFICES ASSUME Init PROVE ChannelInv /\ Channel!Init
  OBVIOUS
<1>1. /\ wire = <<>> /\ buf = <<>> /\ need = -1 /\ got = <<>> /\ damaged = FALSE
      /\ conn = "open" /\ lock = NoThread
  BY DEF Init
<1>2. FramesInv /\ \A t \in Threads : ~Amid(t)
  BY InitFramesInv, IdleNotAmid DEF Init, Amid, AmidPart
<1>3. StreamInv
  BY <1>1, <1>2, EmptyStream
<1>4. ChannelInv
  <2>1. buf \in Seq(Byte) /\ Len(wire) = 0
    BY <1>1, EmptySeq
  <2>2. BufInv
    BY <1>1 DEF BufInv
  <2> QED
    BY <1>1, <1>3, <2>1, <2>2 DEF ChannelInv
<1>5. ChannelView = <<>>
  <2>1. buf \o wire = <<>> /\ <<>> \in Seq(Byte)
    BY <1>1, EmptySeq, ConcatEmptySeq
  <2>2. FrameEnds(<<>>) = {}
    BY DEF FrameEnds
  <2> QED
    BY <2>1, <2>2, EndedNone DEF ChannelView
<1> QED
  BY <1>1, <1>4, <1>5 DEF Channel!Init

(* Every step keeps the invariant and maps to a step of the channel or to  *)
(* none.                                                                   *)
LEMMA NextChannelInv ==
  FramesInv /\ FramesInv' /\ ChannelInv /\ [Next]_vars => ChannelInv' /\ ChannelStep
<1> SUFFICES ASSUME FramesInv, FramesInv', ChannelInv, [Next]_vars PROVE ChannelInv' /\ ChannelStep
  OBVIOUS
<1>1. ASSUME NEW t \in Threads, NEW m \in Msgs, SendMessage(t, m) PROVE ChannelInv' /\ ChannelStep
  BY <1>1, SendMessageChannel
<1>2. ASSUME NEW t \in Threads, mSend(t) PROVE ChannelInv' /\ ChannelStep
  BY <1>2, mSendChannel
<1>3. ASSUME NEW t \in Threads, mSendFails(t) PROVE ChannelInv' /\ ChannelStep
  BY <1>3, mSendFailsChannel
<1>4. CASE Receive
  BY <1>4, mRecvChannel, HeaderChannel, FrameDelivered DEF Receive
<1>5. CASE RecvTimeout
  BY <1>5, RecvTimeoutChannel
<1>6. CASE UNCHANGED vars
  <2>1. UNCHANGED <<thread, lock, conn, wire, buf, need, got, damaged>>
    BY <1>6 DEF vars
  <2>2. UNCHANGED Stream
    BY <2>1 DEF Stream
  <2>3. \A u \in Threads : (Amid(u)' <=> Amid(u)) /\ (Amid(u) => thread'[u] = thread[u])
    BY <2>1 DEF Amid
  <2>4. ~damaged' => conn' # "receiver" /\ BufInv' /\ StreamInv'
    BY <2>1, <2>2, <2>3, StreamKept DEF ChannelInv, BufInv
  <2>5. ChannelInv'
    BY <2>1, <2>4 DEF ChannelInv
  <2> QED
    BY <2>1, <2>2, <2>5, QuietStep
<1> QED
  BY <1>1, <1>2, <1>3, <1>4, <1>5, <1>6 DEF Next

(* Both directions of a connection implement FrameChannel: until two       *)
(* threads send at once, a send fails half-way on a socket that stays open *)
(* or a receive times out inside a frame, every message sent to its last   *)
(* byte arrives whole, once and in the order of the sending, whatever the  *)
(* number of threads, the lengths and the room (mSend, mRecv, sendMessage, *)
(* recvMessage, SendMessage, ThreadProcServer).                            *)
THEOREM ImplementsChannelHolds == Spec => ImplementsChannel
<1>1. Init => FramesInv /\ ChannelInv /\ Channel!Init
  BY InitFramesInv, InitChannelInv
<1>2. (FramesInv /\ ChannelInv) /\ [Next]_vars => (FramesInv /\ ChannelInv)' /\ ChannelStep
  BY NextFramesInv, NextChannelInv
<1> QED
  BY <1>1, <1>2, PTL DEF Spec, ImplementsChannel, Channel!Spec, ChannelStep
===========================================================================
