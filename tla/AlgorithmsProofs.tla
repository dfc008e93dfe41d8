------------------------- MODULE AlgorithmsProofs -------------------------
(***************************************************************************)
(* Proofs about the conversions: whatever was written as a time, a packed  *)
(* length, column metadata or a row image is read back, for any number of  *)
(* columns, rows and null bits per byte.                                   *)
(***************************************************************************)
EXTENDS Algorithms, SequenceTheorems, FiniteSetTheorems, WellFoundedInduction, TLAPS

(* A set of naturals that is not empty has a least element.                *)
LEMMA LeastNumber ==
  ASSUME NEW S \in SUBSET Nat, S # {}
  PROVE  \E n \in S : \A k \in S : n <= k
<1> DEFINE Less == OpToRel(<, Nat)
<1>1. IsWellFoundedOn(Less, Nat)
  BY NatLessThanWellFounded
<1>2. \A x, y \in Nat : x < y => <<x, y>> \in Less
  BY DEF OpToRel
<1> HIDE DEF Less
<1>3. PICK n \in S : \A k \in S : ~(<<k, n>> \in Less)
  BY <1>1, WFMin
<1>4. \A k \in S : ~(k < n)
  BY <1>2, <1>3, Zenon
<1> QED
  BY <1>4, SMT

(* Induction up to n, over a set instead of a predicate.                   *)
LEMMA UpTo ==
  ASSUME NEW n \in Nat, NEW S, 0 \in S,
         \A i \in 1..n : i - 1 \in S => i \in S
  PROVE  \A i \in 0..n : i \in S
<1> DEFINE Bad == {i \in 0..n : i \notin S}
<1> SUFFICES ASSUME Bad # {} PROVE FALSE
  OBVIOUS
<1>1. Bad \in SUBSET Nat
  OBVIOUS
<1>2. PICK i \in Bad : \A k \in Bad : i <= k
  BY <1>1, LeastNumber
<1>3. i # 0 /\ i \in 1..n /\ i - 1 \in 0..n
  BY <1>2
<1>4. i - 1 \notin Bad
  BY <1>2, <1>3
<1> QED
  BY <1>2, <1>3, <1>4

(* Two functions that start alike and go on alike are alike.               *)
GoOnAlike(f, g, n) == f[0] = g[0] /\ \A i \in 1..n : f[i - 1] = g[i - 1] => f[i] = g[i]

(* A function that goes on as another does is that function.               *)
LEMMA Unrolled ==
  ASSUME NEW n \in Nat, NEW f, NEW g, GoOnAlike(f, g, n)
  PROVE  \A i \in 0..n : f[i] = g[i]
<1> DEFINE Same == {i \in 0..n : f[i] = g[i]}
<1>1. 0 \in Same
  BY DEF GoOnAlike
<1>2. \A i \in 1..n : i - 1 \in Same => i \in Same
  BY DEF GoOnAlike
<1> HIDE DEF Same
<1>3. \A i \in 0..n : i \in Same
  BY <1>1, <1>2, UpTo, Zenon
<1> QED
  BY <1>3 DEF Same

(* What a recursion over 0..n defines.                                     *)
Recurses(f, n, S, base, step) ==
  f \in [0..n -> S] /\ f[0] = base /\ \A i \in 1..n : f[i] = step[i][f[i - 1]]

(* A recursive function over 0..n exists.                                  *)
LEMMA Recursion ==
  ASSUME NEW n \in Nat, NEW S, NEW base \in S, NEW step \in [1..n -> [S -> S]]
  PROVE  \E f : Recurses(f, n, S, base, step)
<1> DEFINE Upto(f, m) == f \in [0..m -> S] /\ f[0] = base /\ \A i \in 1..m : f[i] = step[i][f[i - 1]]
           Good == {m \in Nat : \E f : Upto(f, m)}
<1>1. 0 \in Good
  <2>1. Upto([k \in 0..0 |-> base], 0)
    OBVIOUS
  <2> QED
    BY <2>1
<1>2. ASSUME NEW m \in 1..n, m - 1 \in Good PROVE m \in Good
  <2>1. PICK f : Upto(f, m - 1)
    BY <1>2
  <2> DEFINE g == [k \in 0..m |-> IF k = m THEN step[m][f[m - 1]] ELSE f[k]]
  <2>2. f \in [0..(m - 1) -> S] /\ f[0] = base /\ \A i \in 1..(m - 1) : f[i] = step[i][f[i - 1]]
    BY <2>1
  <2>3. f[m - 1] \in S
    BY <2>2
  <2>4. step[m][f[m - 1]] \in S
    BY <2>3
  <2>5. g \in [0..m -> S]
    BY <2>2, <2>4
  <2>6. g[0] = base
    BY <2>2
  <2>7. ASSUME NEW i \in 1..m PROVE g[i] = step[i][g[i - 1]]
    <3>1. g[i - 1] = f[i - 1]
      OBVIOUS
    <3>2. CASE i = m
      BY <3>1, <3>2
    <3>3. CASE i # m
      <4>1. i \in 1..(m - 1) /\ g[i] = f[i]
        BY <3>3
      <4> QED
        BY <3>1, <4>1, <2>2
    <3> QED
      BY <3>2, <3>3
  <2>8. Upto(g, m)
    BY <2>5, <2>6, <2>7
  <2> HIDE DEF g, Upto
  <2>9. m \in Nat
    OBVIOUS
  <2> QED
    BY <2>8, <2>9
<1> HIDE DEF Good
<1>3. \A i \in 0..n : i \in Good
  <2>1. \A i \in 1..n : i - 1 \in Good => i \in Good
    BY <1>2
  <2> QED
    BY <1>1, <2>1, UpTo, Zenon
<1>4. n \in Good
  BY <1>3
<1> QED
  BY <1>4 DEF Good, Recurses

(* Where the parts of a flattened sequence stand.                          *)
Flattens(seqs, T, off) ==
  /\ off \in [0..Len(seqs) -> Nat]
  /\ off[0] = 0
  /\ \A i \in 1..Len(seqs) : off[i] = off[i - 1] + Len(seqs[i])
  /\ \A i \in 1..Len(seqs) : \A j \in i..Len(seqs) : off[i] <= off[j]
  /\ FlattenSeq(seqs) \in Seq(T)
  /\ Len(FlattenSeq(seqs)) = off[Len(seqs)]
  /\ \A i \in 1..Len(seqs) : \A k \in 1..Len(seqs[i]) : FlattenSeq(seqs)[off[i - 1] + k] = seqs[i][k]

(* FlattenSeq puts the parts one behind the other, and each stands at its  *)
(* own place.                                                              *)
LEMMA Flattened ==
  ASSUME NEW T, NEW seqs \in Seq(Seq(T)), seqs # <<>>
  PROVE  \E off : Flattens(seqs, T, off)
<1>1. PICK n : n = Len(seqs)
  OBVIOUS
<1>2. n \in Nat \ {0} /\ \A i \in 1..n : seqs[i] \in Seq(T)
  BY <1>1, EmptySeq, ElementOfSeq
<1> DEFINE step == [i \in 1..n |-> [s \in Seq(T) |-> s \o seqs[i]]]
<1>3. step \in [1..n -> [Seq(T) -> Seq(T)]]
  <2>1. ASSUME NEW i \in 1..n, NEW s \in Seq(T) PROVE s \o seqs[i] \in Seq(T)
    BY <1>2, ConcatProperties
  <2> QED
    BY <2>1
<1>4. <<>> \in Seq(T)
  BY EmptySeq
<1> HIDE DEF step
<1>5. PICK f \in [0..n -> Seq(T)] : f[0] = <<>> /\ \A i \in 1..n : f[i] = step[i][f[i - 1]]
  <2>1. n \in Nat
    BY <1>2
  <2>2. \E f : Recurses(f, n, Seq(T), <<>>, step)
    BY <2>1, <1>3, <1>4, Recursion
  <2> QED
    BY <2>2 DEF Recurses
<1>6. ASSUME NEW i \in 1..n PROVE f[i] = f[i - 1] \o seqs[i]
  <2>1. i - 1 \in 0..n /\ f[i - 1] \in Seq(T)
    BY <1>2, <1>5
  <2> QED
    BY <2>1, <1>5 DEF step
<1> DEFINE Fixed(g) == g = [i \in 1..n |-> IF i = 1 THEN seqs[i] ELSE g[i - 1] \o seqs[i]]
           flatten == CHOOSE g : Fixed(g)
<1>7. FlattenSeq(seqs) = flatten[n]
  BY <1>1, <1>2 DEF FlattenSeq
<1>8. Fixed([i \in 1..n |-> f[i]])
  <2> DEFINE g == [i \in 1..n |-> f[i]]
  <2>1. ASSUME NEW i \in 1..n PROVE f[i] = IF i = 1 THEN seqs[i] ELSE g[i - 1] \o seqs[i]
    <3>1. CASE i = 1
      <4>1. f[1] = <<>> \o seqs[1] /\ seqs[1] \in Seq(T)
        <5>1. 1 \in 1..n /\ f[1 - 1] = f[0]
          BY <1>2
        <5> QED
          BY <5>1, <1>2, <1>5, <1>6
      <4> QED
        BY <4>1, <3>1, ConcatEmptySeq
    <3>2. CASE i # 1
      <4>1. g[i - 1] = f[i - 1]
        BY <1>2, <3>2
      <4> QED
        BY <4>1, <3>2, <1>6
    <3> QED
      BY <3>1, <3>2
  <2> QED
    BY <2>1
<1>9. Fixed(flatten)
  BY <1>8
<1> HIDE DEF flatten
<1>10. \A i \in 1..n : flatten[i] = f[i]
  <2> DEFINE Same == {i \in 0..n : i = 0 \/ flatten[i] = f[i]}
  <2>1. 0 \in Same
    BY <1>2
  <2>2. ASSUME NEW i \in 1..n, i - 1 \in Same PROVE i \in Same
    <3>1. flatten[i] = IF i = 1 THEN seqs[i] ELSE flatten[i - 1] \o seqs[i]
      BY <1>9
    <3>2. CASE i = 1
      <4>1. f[1] = <<>> \o seqs[1] /\ seqs[1] \in Seq(T)
        <5>1. 1 \in 1..n /\ f[1 - 1] = f[0]
          BY <1>2
        <5> QED
          BY <5>1, <1>2, <1>5, <1>6
      <4>2. f[1] = seqs[1]
        BY <4>1, ConcatEmptySeq
      <4> QED
        BY <4>2, <3>1, <3>2
    <3>3. CASE i # 1
      <4>1. flatten[i - 1] = f[i - 1]
        BY <1>2, <2>2, <3>3
      <4>2. flatten[i] = f[i - 1] \o seqs[i] /\ i \in 0..n
        <5>1. flatten[i] = flatten[i - 1] \o seqs[i]
          BY <3>1, <3>3
        <5> QED
          BY <5>1, <4>1, <1>2
      <4> QED
        BY <4>2, <1>6, <1>2
    <3> QED
      BY <3>2, <3>3
  <2> HIDE DEF Same
  <2>3. \A i \in 0..n : i \in Same
    BY <1>2, <2>1, <2>2, UpTo
  <2> QED
    <3>1. \A i \in 1..n : i \in 0..n /\ i # 0
      BY <1>2
    <3> QED
      BY <3>1, <2>3 DEF Same
<1>11. FlattenSeq(seqs) = f[n]
  <2> HIDE DEF flatten
  <2>1. n \in 1..n
    BY <1>2
  <2> QED
    BY <2>1, <1>7, <1>10
<1> DEFINE off == [i \in 0..n |-> Len(f[i])]
<1>12. off \in [0..n -> Nat] /\ off[0] = 0
  <2>1. \A i \in 0..n : f[i] \in Seq(T) /\ Len(f[i]) \in Nat
    BY <1>5, LenProperties
  <2>2. 0 \in 0..n /\ Len(f[0]) = 0
    BY <1>2, <1>5, EmptySeq
  <2> QED
    BY <2>1, <2>2
<1>13. ASSUME NEW i \in 1..n
       PROVE  /\ off[i] = off[i - 1] + Len(seqs[i])
              /\ \A k \in 1..(off[i - 1]) : f[i][k] = f[i - 1][k]
              /\ \A k \in 1..Len(seqs[i]) : f[i][off[i - 1] + k] = seqs[i][k]
  <2>1. f[i - 1] \in Seq(T) /\ seqs[i] \in Seq(T) /\ i - 1 \in 0..n
    BY <1>2, <1>5
  <2>2. PICK a, b : a = f[i - 1] /\ b = seqs[i]
    OBVIOUS
  <2>3. f[i] = a \o b /\ a \in Seq(T) /\ b \in Seq(T) /\ off[i - 1] = Len(a) /\ off[i] = Len(a \o b)
    <3>1. i \in 0..n
      BY <1>2
    <3> QED
      BY <3>1, <2>1, <2>2, <1>6
  <2>4. /\ Len(a \o b) = Len(a) + Len(b)
        /\ \A k \in 1..(Len(a) + Len(b)) : (a \o b)[k] = IF k <= Len(a) THEN a[k] ELSE b[k - Len(a)]
        /\ Len(a) \in Nat /\ Len(b) \in Nat
    BY <2>3, ConcatProperties, LenProperties
  <2>5. ASSUME NEW k \in 1..Len(b) PROVE (a \o b)[Len(a) + k] = b[k]
    <3>1. Len(a) + k \in 1..(Len(a) + Len(b)) /\ ~(Len(a) + k <= Len(a)) /\ Len(a) + k - Len(a) = k
      BY <2>4
    <3> QED
      BY <3>1, <2>4
  <2>6. \A k \in 1..Len(a) : (a \o b)[k] = a[k]
    BY <2>4
  <2>7. off[i] = off[i - 1] + Len(seqs[i])
    BY <2>2, <2>3, <2>4
  <2>8. \A k \in 1..(off[i - 1]) : f[i][k] = f[i - 1][k]
    BY <2>2, <2>3, <2>6, Zenon
  <2>9. \A k \in 1..Len(seqs[i]) : f[i][off[i - 1] + k] = seqs[i][k]
    BY <2>2, <2>3, <2>5, Zenon
  <2> QED
    BY <2>7, <2>8, <2>9
<1>14. ASSUME NEW j \in 1..n
       PROVE  \A i \in j..n : off[j] <= off[i] /\ \A k \in 1..Len(seqs[j]) : f[i][off[j - 1] + k] = seqs[j][k]
  <2> DEFINE Kept == {i \in 0..n : i >= j => /\ off[j] <= off[i]
                                              /\ \A k \in 1..Len(seqs[j]) : f[i][off[j - 1] + k] = seqs[j][k]}
  <2> HIDE DEF off
  <2>1. 0 \in Kept
    BY <1>2
  <2>2. ASSUME NEW i \in 1..n, i - 1 \in Kept PROVE i \in Kept
    <3>1. CASE i < j
      BY <3>1
    <3>2. CASE i = j
      <4>1. off[i] <= off[i]
        BY <1>12
      <4> QED
        BY <3>2, <1>13, <4>1
    <3>3. CASE i > j
      <4>1. /\ off[j] <= off[i - 1]
            /\ \A k \in 1..Len(seqs[j]) : f[i - 1][off[j - 1] + k] = seqs[j][k]
        BY <3>3, <2>2
      <4>2. off[i - 1] \in Nat /\ off[i] \in Nat /\ off[j] \in Nat /\ off[j - 1] \in Nat /\ Len(seqs[i]) \in Nat /\ Len(seqs[j]) \in Nat
        <5>1. {i, i - 1, j, j - 1} \subseteq 0..n /\ seqs[i] \in Seq(T) /\ seqs[j] \in Seq(T)
          BY <1>2
        <5> QED
          BY <5>1, <1>12, LenProperties
      <4>3. off[i] = off[i - 1] + Len(seqs[i]) /\ off[j] = off[j - 1] + Len(seqs[j])
        BY <1>13
      <4>4. off[j] <= off[i]
        <5> HIDE DEF Kept
        <5>1. PICK x, y, z, l : x = off[j] /\ y = off[i - 1] /\ z = off[i] /\ l = Len(seqs[i])
          OBVIOUS
        <5>2. x \in Nat /\ y \in Nat /\ l \in Nat /\ x <= y /\ z = y + l
          BY <5>1, <4>1, <4>2, <4>3
        <5>3. x <= z
          BY <5>2
        <5> QED
          BY <5>1, <5>3
      <4>5. ASSUME NEW k \in 1..Len(seqs[j]) PROVE f[i][off[j - 1] + k] = seqs[j][k]
        <5>1. off[j - 1] + k \in 1..(off[i - 1])
          <6> HIDE DEF Kept
          <6>1. PICK x, y, z, l : x = off[j - 1] /\ y = off[j] /\ z = off[i - 1] /\ l = Len(seqs[j])
            OBVIOUS
          <6>2. x \in Nat /\ y \in Nat /\ z \in Nat /\ l \in Nat /\ y = x + l /\ y <= z /\ k \in 1..l
            BY <6>1, <4>1, <4>2, <4>3
          <6>3. x + k \in 1..z
            BY <6>2
          <6> QED
            BY <6>1, <6>3
        <5> QED
          BY <5>1, <4>1, <1>13
      <4> QED
        BY <4>4, <4>5
    <3> QED
      BY <3>1, <3>2, <3>3
  <2> HIDE DEF Kept
  <2>3. \A i \in 0..n : i \in Kept
    BY <1>2, <2>1, <2>2, UpTo
  <2> QED
    BY <1>2, <2>3 DEF Kept
<1>15. n \in 0..n /\ f[n] \in Seq(T) /\ Len(f[n]) = off[n]
  BY <1>2, <1>5
<1>16. \A i \in 1..n : \A k \in 1..Len(seqs[i]) : f[n][off[i - 1] + k] = seqs[i][k]
  <2> HIDE DEF off
  <2>1. \A i \in 1..n : n \in i..n
    BY <1>2
  <2> QED
    BY <2>1, <1>14
<1> HIDE DEF off
<1>17. Flattens(seqs, T, off)
  BY <1>1, <1>11, <1>12, <1>13, <1>14, <1>15, <1>16 DEF Flattens
<1> QED
  BY <1>17

(* An element in front of a sequence.                                      *)
LEMMA Prepended ==
  ASSUME NEW T, NEW x \in T, NEW s \in Seq(T)
  PROVE  /\ <<x>> \o s \in Seq(T)
         /\ Len(<<x>> \o s) = Len(s) + 1
         /\ (<<x>> \o s)[1] = x
         /\ \A i \in 1..Len(s) : (<<x>> \o s)[i + 1] = s[i]
<1>1. PICK h : h = <<x>>
  OBVIOUS
<1>2. h \in Seq(T) /\ Len(h) = 1 /\ h[1] = x
  BY <1>1
<1>3. Len(s) \in Nat
  BY LenProperties
<1>4. /\ h \o s \in Seq(T)
      /\ Len(h \o s) = 1 + Len(s)
      /\ \A i \in 1..(1 + Len(s)) : (h \o s)[i] = IF i <= 1 THEN h[i] ELSE s[i - 1]
  <2>1. /\ h \o s \in Seq(T)
        /\ Len(h \o s) = Len(h) + Len(s)
        /\ \A i \in 1..(Len(h) + Len(s)) : (h \o s)[i] = IF i <= Len(h) THEN h[i] ELSE s[i - Len(h)]
    BY <1>2, ConcatProperties
  <2> QED
    BY <2>1, <1>2
<1>5. (h \o s)[1] = x
  BY <1>2, <1>3, <1>4
<1>6. ASSUME NEW i \in 1..Len(s) PROVE (h \o s)[i + 1] = s[i]
  <2>1. i + 1 \in 1..(1 + Len(s)) /\ ~(i + 1 <= 1) /\ (i + 1) - 1 = i
    BY <1>3
  <2> QED
    BY <2>1, <1>4
<1>7. Len(h \o s) = Len(s) + 1
  BY <1>3, <1>4
<1> QED
  BY <1>1, <1>4, <1>5, <1>6, <1>7

(* The bytes of a packed length.                                           *)
LEMMA PackedBytes ==
  ASSUME NEW n \in Nat
  PROVE  /\ Packed(n) \in Seq(Nat)
         /\ n < 251 => Len(Packed(n)) = 1 /\ Packed(n)[1] = n
         /\ n >= 251 /\ n < TwoBytes =>
              /\ Len(Packed(n)) = 3
              /\ Packed(n)[1] = 252 /\ Packed(n)[2] = n % 256 /\ Packed(n)[3] = (n \div 256) % 256
         /\ n >= TwoBytes /\ n < ThreeBytes =>
              /\ Len(Packed(n)) = 4
              /\ Packed(n)[1] = 253 /\ Packed(n)[2] = n % 256 /\ Packed(n)[3] = (n \div 256) % 256
              /\ Packed(n)[4] = (n \div TwoBytes) % 256
         /\ n >= ThreeBytes =>
              /\ Len(Packed(n)) = 9
              /\ Packed(n)[1] = 254 /\ Packed(n)[2] = n % 256 /\ Packed(n)[3] = (n \div 256) % 256
              /\ Packed(n)[4] = (n \div TwoBytes) % 256 /\ Packed(n)[5] = n \div ThreeBytes
<1>1. PICK a, b, c, d : a = n % 256 /\ b = (n \div 256) % 256 /\ c = (n \div TwoBytes) % 256 /\ d = n \div ThreeBytes
  OBVIOUS
<1>2. {a, b, c, d} \subseteq Nat
  BY <1>1 DEF TwoBytes, ThreeBytes
<1>3. LittleEndian(n) = <<a, b, c, d>>
  BY <1>1 DEF LittleEndian
<1>4. PICK all : all = <<a, b, c, d>>
  OBVIOUS
<1>5. all \in Seq(Nat) /\ Len(all) = 4 /\ all[1] = a /\ all[2] = b /\ all[3] = c /\ all[4] = d
  BY <1>2, <1>4
<1>6. \A x \in Nat : <<x>> \in Seq(Nat) /\ Len(<<x>>) = 1 /\ <<x>>[1] = x
  OBVIOUS
<1>7. CASE n < 251
  <2>1. Packed(n) = <<n>>
    BY <1>7 DEF Packed, TwoBytes, ThreeBytes
  <2>2. ~(n >= 251) /\ ~(n >= TwoBytes) /\ ~(n >= ThreeBytes)
    BY <1>7 DEF TwoBytes, ThreeBytes
  <2> QED
    BY <1>6, <2>1, <2>2
<1>8. CASE n >= 251 /\ n < TwoBytes
  <2>1. PICK u : u = SubSeq(all, 1, 2)
    OBVIOUS
  <2>2. Packed(n) = <<252>> \o u
    <3>1. ~(n < 251) /\ ~(n >= TwoBytes) /\ ~(n >= ThreeBytes)
      BY <1>8 DEF TwoBytes, ThreeBytes
    <3> QED
      BY <1>8, <1>3, <1>4, <2>1, <3>1 DEF Packed
  <2>3. u \in Seq(Nat) /\ Len(u) = 2 /\ u[1] = a /\ u[2] = b
    <3>1. \A i \in 1..2 : all[i] \in Nat
      BY <1>2, <1>5
    <3>2. u \in Seq(Nat) /\ Len(u) = 2 /\ \A i \in 1..2 : u[i] = all[i]
      BY <3>1, <2>1, SubSeqProperties
    <3> QED
      BY <3>2, <1>5
  <2>4. /\ Packed(n) \in Seq(Nat) /\ Len(Packed(n)) = 3
        /\ Packed(n)[1] = 252 /\ Packed(n)[2] = a /\ Packed(n)[3] = b
    <3>1. /\ <<252>> \o u \in Seq(Nat) /\ Len(<<252>> \o u) = 3 /\ (<<252>> \o u)[1] = 252
          /\ \A i \in 1..2 : (<<252>> \o u)[i + 1] = u[i]
      <4>1. /\ <<252>> \o u \in Seq(Nat) /\ Len(<<252>> \o u) = Len(u) + 1 /\ (<<252>> \o u)[1] = 252
            /\ \A i \in 1..Len(u) : (<<252>> \o u)[i + 1] = u[i]
        <5>1. u \in Seq(Nat) /\ 252 \in Nat
          BY <2>3
        <5> QED
          BY <5>1, Prepended
      <4> QED
        BY <4>1, <2>3
    <3> QED
      BY <3>1, <2>2, <2>3
  <2>5. ~(n < 251) /\ ~(n >= TwoBytes) /\ ~(n >= ThreeBytes)
    BY <1>8 DEF TwoBytes, ThreeBytes
  <2> QED
    BY <1>1, <2>4, <2>5
<1>9. CASE n >= TwoBytes /\ n < ThreeBytes
  <2>1. PICK u : u = SubSeq(all, 1, 3)
    OBVIOUS
  <2>2. ~(n < 251) /\ ~(n < TwoBytes) /\ ~(n >= ThreeBytes)
    BY <1>9 DEF TwoBytes, ThreeBytes
  <2>3. Packed(n) = <<253>> \o u
    BY <1>9, <1>3, <1>4, <2>1, <2>2 DEF Packed
  <2>4. u \in Seq(Nat) /\ Len(u) = 3 /\ u[1] = a /\ u[2] = b /\ u[3] = c
    <3>1. \A i \in 1..3 : all[i] \in Nat
      BY <1>2, <1>5
    <3>2. u \in Seq(Nat) /\ Len(u) = 3 /\ \A i \in 1..3 : u[i] = all[i]
      BY <3>1, <2>1, SubSeqProperties
    <3> QED
      BY <3>2, <1>5
  <2>5. /\ Packed(n) \in Seq(Nat) /\ Len(Packed(n)) = 4
        /\ Packed(n)[1] = 253 /\ Packed(n)[2] = a /\ Packed(n)[3] = b /\ Packed(n)[4] = c
    <3>1. /\ <<253>> \o u \in Seq(Nat) /\ Len(<<253>> \o u) = 4 /\ (<<253>> \o u)[1] = 253
          /\ \A i \in 1..3 : (<<253>> \o u)[i + 1] = u[i]
      <4>1. /\ <<253>> \o u \in Seq(Nat) /\ Len(<<253>> \o u) = Len(u) + 1 /\ (<<253>> \o u)[1] = 253
            /\ \A i \in 1..Len(u) : (<<253>> \o u)[i + 1] = u[i]
        <5>1. u \in Seq(Nat) /\ 253 \in Nat
          BY <2>4
        <5> QED
          BY <5>1, Prepended
      <4> QED
        BY <4>1, <2>4
    <3> QED
      BY <3>1, <2>3, <2>4
  <2> QED
    BY <1>1, <2>5, <2>2
<1>10. CASE n >= ThreeBytes
  <2>1. ~(n < 251) /\ ~(n < TwoBytes) /\ ~(n < ThreeBytes)
    BY <1>10 DEF TwoBytes, ThreeBytes
  <2>2. PICK u, v : u = <<254>> \o all /\ v = <<0, 0, 0, 0>>
    OBVIOUS
  <2>3. Packed(n) = u \o v
    BY <1>10, <1>3, <1>4, <2>1, <2>2 DEF Packed
  <2>4. u \in Seq(Nat) /\ Len(u) = 5 /\ u[1] = 254 /\ u[2] = a /\ u[3] = b /\ u[4] = c /\ u[5] = d
    <3>1. /\ <<254>> \o all \in Seq(Nat) /\ Len(<<254>> \o all) = 5 /\ (<<254>> \o all)[1] = 254
          /\ \A i \in 1..4 : (<<254>> \o all)[i + 1] = all[i]
      <4>1. /\ <<254>> \o all \in Seq(Nat) /\ Len(<<254>> \o all) = Len(all) + 1 /\ (<<254>> \o all)[1] = 254
            /\ \A i \in 1..Len(all) : (<<254>> \o all)[i + 1] = all[i]
        <5>1. all \in Seq(Nat) /\ 254 \in Nat
          BY <1>5
        <5> QED
          BY <5>1, Prepended
      <4> QED
        BY <4>1, <1>5
    <3> QED
      BY <3>1, <2>2, <1>5
  <2>5. v \in Seq(Nat) /\ Len(v) = 4
    BY <2>2
  <2>6. /\ Packed(n) \in Seq(Nat) /\ Len(Packed(n)) = 9
        /\ Packed(n)[1] = 254 /\ Packed(n)[2] = a /\ Packed(n)[3] = b /\ Packed(n)[4] = c /\ Packed(n)[5] = d
    <3>1. PICK w : w = u \o v
      OBVIOUS
    <3>2. u \in Seq(Nat) /\ v \in Seq(Nat)
      BY <2>4, <2>5
    <3>3. /\ w \in Seq(Nat) /\ Len(w) = Len(u) + Len(v)
          /\ \A i \in 1..(Len(u) + Len(v)) : w[i] = IF i <= Len(u) THEN u[i] ELSE v[i - Len(u)]
      BY <3>1, <3>2, ConcatProperties
    <3>4. Len(u) = 5 /\ Len(v) = 4
      BY <2>4, <2>5
    <3>5. Len(w) = 9 /\ w[1] = u[1] /\ w[2] = u[2] /\ w[3] = u[3] /\ w[4] = u[4] /\ w[5] = u[5]
      BY <3>3, <3>4
    <3> QED
      BY <3>1, <3>3, <3>5, <2>3, <2>4
  <2> QED
    BY <1>1, <2>6, <2>1
<1> QED
  BY <1>7, <1>8, <1>9, <1>10 DEF TwoBytes, ThreeBytes

(* A packed length that stands at pos in a packet is read as it was        *)
(* written, and the position ends behind it.                               *)
LEMMA LengthRead ==
  ASSUME NEW n \in Nat, NEW packet, NEW pos \in Nat,
         \A k \in 1..Len(Packed(n)) : packet[pos + k - 1] = Packed(n)[k]
  PROVE  get_field_length(packet, pos) = [value |-> n, pos |-> pos + Len(Packed(n))]
<1> DEFINE b(k) == packet[pos + k]
<1>1. CASE n < 251
  <2>1. Len(Packed(n)) = 1 /\ Packed(n)[1] = n
    BY <1>1, PackedBytes
  <2>2. b(0) = n
    BY <2>1
  <2> QED
    BY <1>1, <2>1, <2>2 DEF get_field_length, TwoBytes, ThreeBytes
<1>2. CASE n >= 251 /\ n < TwoBytes
  <2>1. Len(Packed(n)) = 3 /\ Packed(n)[1] = 252 /\ Packed(n)[2] = n % 256 /\ Packed(n)[3] = (n \div 256) % 256
    BY <1>2, PackedBytes
  <2>2. packet[pos + 0] = 252 /\ packet[pos + 1] = n % 256 /\ packet[pos + 2] = (n \div 256) % 256
    BY <2>1
  <2>3. n = (n % 256) + 256 * ((n \div 256) % 256)
    BY <1>2 DEF TwoBytes, ThreeBytes
  <2> QED
    BY <2>1, <2>2, <2>3 DEF get_field_length, TwoBytes, ThreeBytes
<1>3. CASE n >= TwoBytes /\ n < ThreeBytes
  <2>1. Len(Packed(n)) = 4 /\ Packed(n)[1] = 253 /\ Packed(n)[2] = n % 256
          /\ Packed(n)[3] = (n \div 256) % 256 /\ Packed(n)[4] = (n \div TwoBytes) % 256
    BY <1>3, PackedBytes
  <2>2. packet[pos + 0] = 253 /\ packet[pos + 1] = n % 256 /\ packet[pos + 2] = (n \div 256) % 256
          /\ packet[pos + 3] = (n \div TwoBytes) % 256
    BY <2>1
  <2>3. n = (n % 256) + 256 * ((n \div 256) % 256) + TwoBytes * ((n \div TwoBytes) % 256)
    <3>1. (n \div TwoBytes) % 256 = n \div TwoBytes
      BY <1>3 DEF TwoBytes, ThreeBytes
    <3>2. n = (n % 256) + 256 * ((n \div 256) % 256) + TwoBytes * (n \div TwoBytes)
      BY DEF TwoBytes
    <3> QED
      BY <3>1, <3>2
  <2> QED
    BY <2>1, <2>2, <2>3 DEF get_field_length, TwoBytes, ThreeBytes
<1>4. CASE n >= ThreeBytes
  <2>1. Len(Packed(n)) = 9 /\ Packed(n)[1] = 254 /\ Packed(n)[2] = n % 256
          /\ Packed(n)[3] = (n \div 256) % 256 /\ Packed(n)[4] = (n \div TwoBytes) % 256
          /\ Packed(n)[5] = n \div ThreeBytes
    BY <1>4, PackedBytes
  <2>2. packet[pos + 0] = 254 /\ packet[pos + 1] = n % 256 /\ packet[pos + 2] = (n \div 256) % 256
          /\ packet[pos + 3] = (n \div TwoBytes) % 256 /\ packet[pos + 4] = n \div ThreeBytes
    BY <2>1
  <2>3. n = (n % 256) + 256 * ((n \div 256) % 256) + TwoBytes * ((n \div TwoBytes) % 256) + ThreeBytes * (n \div ThreeBytes)
    BY <1>4 DEF TwoBytes, ThreeBytes
  <2> QED
    BY <2>1, <2>2, <2>3 DEF get_field_length, TwoBytes, ThreeBytes
<1> QED
  BY <1>1, <1>2, <1>3, <1>4 DEF TwoBytes, ThreeBytes

(* get_field_length reads the two lengths of a table map as they were      *)
(* packed.                                                                 *)
LEMMA LengthsBack ==
  ASSUME Init PROVE LengthsReadBack
<1> SUFFICES ASSUME input.alg = "lengths" PROVE LengthsReadBack
  BY DEF LengthsReadBack
<1>1. input \in [alg : {"lengths"}, first : Lengths, second : Lengths]
  BY DEF Init
<1>2. PICK m, n : m = input.first /\ n = input.second
  OBVIOUS
<1>3. m \in Nat /\ n \in Nat
  <2>1. m \in Lengths /\ n \in Lengths
    BY <1>1, <1>2
  <2>2. PICK top \in Int : top = 127 * ThreeBytes + (ThreeBytes - 1)
    BY DEF TwoBytes, ThreeBytes
  <2>3. Lengths \subseteq 0..top
    <3>1. Lengths \subseteq 0..(127 * ThreeBytes + (ThreeBytes - 1))
      BY TableMapAssumption, Zenon
    <3> QED
      BY <3>1, <2>2, Zenon
  <2> QED
    BY <2>1, <2>3
<1>4. PICK p, q : p = Packed(m) /\ q = Packed(n)
  OBVIOUS
<1>5. p \in Seq(Nat) /\ q \in Seq(Nat)
  BY <1>3, <1>4, PackedBytes
<1>6. PICK s : s = p \o q
  OBVIOUS
<1>7. /\ Len(s) = Len(p) + Len(q) /\ Len(p) \in Nat /\ Len(q) \in Nat
      /\ \A i \in 1..(Len(p) + Len(q)) : s[i] = IF i <= Len(p) THEN p[i] ELSE q[i - Len(p)]
  BY <1>5, <1>6, ConcatProperties, LenProperties
<1>8. get_field_length(s, 1) = [value |-> m, pos |-> 1 + Len(p)]
  <2>1. \A k \in 1..Len(p) : s[1 + k - 1] = p[k]
    BY <1>7
  <2> QED
    BY <2>1, <1>3, <1>4, LengthRead
<1>9. get_field_length(s, 1 + Len(p)) = [value |-> n, pos |-> 1 + Len(p) + Len(q)]
  <2>1. ASSUME NEW k \in 1..Len(q) PROVE s[(1 + Len(p)) + k - 1] = q[k]
    <3>1. (1 + Len(p)) + k - 1 = Len(p) + k /\ Len(p) + k \in 1..(Len(p) + Len(q)) /\ ~(Len(p) + k <= Len(p))
            /\ Len(p) + k - Len(p) = k
      BY <1>7
    <3> QED
      BY <3>1, <1>7
  <2>2. 1 + Len(p) \in Nat
    BY <1>7
  <2> QED
    BY <2>1, <2>2, <1>3, <1>4, LengthRead
<1> QED
  BY <1>2, <1>4, <1>6, <1>7, <1>8, <1>9 DEF LengthsReadBack

(* A prefix and the next element.                                          *)
LEMMA PrefixGrown ==
  ASSUME NEW T, NEW s \in Seq(T), NEW i \in 1..Len(s)
  PROVE  Append(SubSeq(s, 1, i - 1), s[i]) = SubSeq(s, 1, i)
<1>1. Len(s) \in Nat /\ \A k \in 1..Len(s) : s[k] \in T
  BY LenProperties, ElementOfSeq
<1>2. PICK u, v : u = SubSeq(s, 1, i - 1) /\ v = SubSeq(s, 1, i)
  OBVIOUS
<1>3. u \in Seq(T) /\ Len(u) = i - 1 /\ \A k \in 1..(i - 1) : u[k] = s[k]
  <2>1. i - 1 \in Int /\ 1 \in Int /\ \A k \in 1..(i - 1) : s[k] \in T
    BY <1>1
  <2>2. /\ u \in Seq(T)
        /\ Len(u) = IF 1 <= i - 1 THEN (i - 1) - 1 + 1 ELSE 0
        /\ \A k \in 1..((i - 1) - 1 + 1) : u[k] = s[1 + k - 1]
    BY <2>1, <1>2, SubSeqProperties
  <2> QED
    BY <2>2, <1>1
<1>4. v \in Seq(T) /\ Len(v) = i /\ \A k \in 1..i : v[k] = s[k]
  <2>1. i \in Int /\ 1 \in Int /\ \A k \in 1..i : s[k] \in T
    BY <1>1
  <2>2. /\ v \in Seq(T)
        /\ Len(v) = IF 1 <= i THEN i - 1 + 1 ELSE 0
        /\ \A k \in 1..(i - 1 + 1) : v[k] = s[1 + k - 1]
    BY <2>1, <1>2, SubSeqProperties
  <2> QED
    BY <2>2, <1>1
<1>5. PICK x : x = s[i]
  OBVIOUS
<1>6. x \in T
  BY <1>1, <1>5
<1>7. Append(u, x) \in Seq(T) /\ Len(Append(u, x)) = i /\ \A k \in 1..i : Append(u, x)[k] = IF k = i THEN x ELSE u[k]
  BY <1>3, <1>6
<1>8. Append(u, x) = v
  <2>1. \A k \in 1..i : Append(u, x)[k] = v[k]
    BY <1>3, <1>4, <1>5, <1>7
  <2> QED
    BY <2>1, <1>4, <1>7, SeqEqual
<1> QED
  BY <1>2, <1>5, <1>8

(* The constructor of CTableDef finds the metadata of each column.         *)
LEMMA MetadataBack ==
  ASSUME Init PROVE MetadataOwn
<1> SUFFICES ASSUME input.alg = "metadata" PROVE MetadataOwn
  BY DEF MetadataOwn
<1>1. input \in [alg : {"metadata"}, columns : Columns]
  BY DEF Init
<1>2. PICK columns : columns = input.columns
  OBVIOUS
<1>3. PICK n \in Nat \ {0} : columns \in [1..n -> Column]
  <2>1. columns \in Columns
    BY <1>1, <1>2
  <2>2. PICK m \in 1..MaxColumns : columns \in [1..m -> Column]
    BY <2>1 DEF Columns
  <2>3. MaxColumns \in Nat
    BY RowsAssumption
  <2> QED
    BY <2>2, <2>3
<1>4. DOMAIN columns = 1..n /\ \A i \in 1..n : columns[i] \in Column
  BY <1>3
<1>5. PICK types, seqs, meta : /\ types = [i \in 1..n |-> columns[i].type]
                               /\ seqs = [i \in 1..n |-> MetadataBytes(columns[i])]
                               /\ meta = [i \in 1..n |-> Metadata(columns[i])]
  OBVIOUS
<1>6. \A c \in Column : /\ c.low \in Nat /\ c.high \in Nat /\ c.low < 256 /\ c.high < 256
                        /\ c.type \in {"LONG", "BLOB", "STRING", "BIT", "VARCHAR"}
                        /\ Metadata(c) \in Nat /\ MetadataBytes(c) \in Seq(Nat)
  <2> SUFFICES ASSUME NEW c \in Column
               PROVE  /\ c.low \in Nat /\ c.high \in Nat /\ c.low < 256 /\ c.high < 256
                      /\ c.type \in {"LONG", "BLOB", "STRING", "BIT", "VARCHAR"}
                      /\ Metadata(c) \in Nat /\ MetadataBytes(c) \in Seq(Nat)
    OBVIOUS
  <2>1. c.low \in MetaBytes /\ c.high \in MetaBytes /\ c.type \in Types
    BY DEF Column
  <2>2. MetaBytes \subseteq 0..255
    BY TableMapAssumption, SMT
  <2>3. c.low \in Nat /\ c.high \in Nat /\ c.low < 256 /\ c.high < 256
    <3>1. c.low \in 0..255 /\ c.high \in 0..255
      BY <2>1, <2>2, Zenon
    <3> QED
      BY <3>1
  <2>4. c.type \in {"LONG", "BLOB", "STRING", "BIT", "VARCHAR"}
    BY <2>1 DEF Types
  <2>5. Metadata(c) \in Nat
    BY <2>3, <2>4 DEF Metadata
  <2>6. MetadataBytes(c) \in Seq(Nat)
    BY <2>3, <2>4 DEF MetadataBytes
  <2> QED
    BY <2>3, <2>4, <2>5, <2>6
<1>7. seqs \in Seq(Seq(Nat)) /\ Len(seqs) = n /\ seqs # <<>>
  <2>1. seqs \in [1..n -> Seq(Nat)]
    BY <1>4, <1>5, <1>6
  <2>2. seqs \in Seq(Seq(Nat)) /\ Len(seqs) = n
    BY <2>1
  <2> QED
    BY <2>2, <1>3, EmptySeq
<1>8. meta \in Seq(Nat) /\ Len(meta) = n
  <2>1. meta \in [1..n -> Nat]
    BY <1>4, <1>5, <1>6
  <2> QED
    BY <2>1
<1>9. Len(types) = n /\ DOMAIN types = 1..n
  <2>1. types \in [1..n -> Types]
    BY <1>4, <1>5 DEF Column
  <2>2. types \in Seq(Types)
    BY <2>1
  <2> QED
    BY <2>1, <2>2
<1>10. PICK bytes, off : bytes = FlattenSeq(seqs) /\ Flattens(seqs, Nat, off)
  BY <1>7, Flattened
<1>11. /\ off \in [0..n -> Nat] /\ off[0] = 0
       /\ \A i \in 1..n : off[i] = off[i - 1] + Len(seqs[i])
       /\ \A i \in 1..n : \A j \in i..n : off[i] <= off[j]
       /\ bytes \in Seq(Nat) /\ Len(bytes) = off[n]
       /\ \A i \in 1..n : \A k \in 1..Len(seqs[i]) : bytes[off[i - 1] + k] = seqs[i][k]
  BY <1>7, <1>10 DEF Flattens
<1> DEFINE Turn(d, i) == IF i = 0 THEN [index |-> 1, field_metadata |-> <<>>]
                         ELSE AddMetadata(bytes, d[i - 1], types[i])
           closed == [i \in 0..n |-> [index |-> 1 + off[i], field_metadata |-> SubSeq(meta, 1, i)]]
           def == CHOOSE d : d = [i \in 0..n |-> Turn(d, i)]
<1>12. ASSUME NEW i \in 1..n PROVE closed[i] = AddMetadata(bytes, closed[i - 1], types[i])
  <2>1. PICK c, at, fm, x : c = columns[i] /\ at = off[i - 1] /\ fm = SubSeq(meta, 1, i - 1) /\ x = meta[i]
    OBVIOUS
  <2>2. closed[i - 1] = [index |-> 1 + at, field_metadata |-> fm]
    BY <2>1, <1>3
  <2>3. at \in Nat /\ c \in Column /\ types[i] = c.type /\ x = Metadata(c)
    BY <2>1, <1>4, <1>5, <1>11, <1>3
  <2>4. closed[i] = [index |-> 1 + off[i], field_metadata |-> Append(fm, x)]
    <3>1. i \in 1..Len(meta)
      BY <1>8
    <3>2. Append(fm, x) = SubSeq(meta, 1, i)
      BY <3>1, <2>1, <1>8, PrefixGrown
    <3> QED
      BY <3>2, <1>3
  <2>5. off[i] = at + Len(MetadataBytes(c)) /\ \A k \in 1..Len(MetadataBytes(c)) : bytes[at + k] = MetadataBytes(c)[k]
    BY <2>1, <1>5, <1>11
  <2>6. PICK d : d = [index |-> 1 + at, field_metadata |-> fm]
    OBVIOUS
  <2>7. d.index = 1 + at /\ d.field_metadata = fm
    BY <2>6
  <2> HIDE DEF closed
  <2>8. AddMetadata(bytes, d, c.type) = [index |-> 1 + off[i], field_metadata |-> Append(fm, x)]
    <3>1. CASE c.type = "LONG"
      <4>1. Len(MetadataBytes(c)) = 0 /\ x = 0
        BY <3>1, <2>3 DEF MetadataBytes, Metadata
      <4> QED
        BY <4>1, <3>1, <2>3, <2>5, <2>7 DEF AddMetadata
    <3>2. CASE c.type = "BLOB"
      <4>1. Len(MetadataBytes(c)) = 1 /\ MetadataBytes(c)[1] = c.low /\ x = c.low
        BY <3>2, <2>3 DEF MetadataBytes, Metadata
      <4>2. bytes[at + 1] = c.low /\ off[i] = at + 1
        BY <4>1, <2>5
      <4> QED
        BY <4>1, <4>2, <3>2, <2>3, <2>7 DEF AddMetadata
    <3>3. CASE c.type = "STRING"
      <4>1. Len(MetadataBytes(c)) = 2 /\ MetadataBytes(c)[1] = c.high /\ MetadataBytes(c)[2] = c.low /\ x = 256 * c.high + c.low
        BY <3>3, <2>3 DEF MetadataBytes, Metadata
      <4>2. bytes[at + 1] = c.high /\ bytes[at + 2] = c.low /\ off[i] = at + 2
        BY <4>1, <2>5
      <4>3. bytes[d.index + 0] = c.high /\ bytes[d.index + 1] = c.low /\ d.index + 2 = 1 + off[i]
        BY <4>2, <2>3, <2>7
      <4> QED
        BY <4>1, <4>3, <3>3, <2>7 DEF AddMetadata
    <3>4. CASE c.type \in {"BIT", "VARCHAR"}
      <4>1. Len(MetadataBytes(c)) = 2 /\ MetadataBytes(c)[1] = c.low /\ MetadataBytes(c)[2] = c.high /\ x = 256 * c.high + c.low
        BY <3>4, <2>3 DEF MetadataBytes, Metadata
      <4>2. bytes[at + 1] = c.low /\ bytes[at + 2] = c.high /\ off[i] = at + 2
        BY <4>1, <2>5
      <4>3. x = c.low + 256 * c.high
        BY <4>1, <1>6, <2>3
      <4>4. bytes[d.index + 0] = c.low /\ bytes[d.index + 1] = c.high /\ d.index + 2 = 1 + off[i]
        BY <4>2, <2>3, <2>7
      <4> QED
        BY <4>3, <4>4, <3>4, <2>7 DEF AddMetadata
    <3> QED
      BY <3>1, <3>2, <3>3, <3>4, <2>3, <1>6
  <2> QED
    BY <2>2, <2>3, <2>4, <2>6, <2>8
<1>13. closed[0] = [index |-> 1, field_metadata |-> <<>>]
  <2>1. SubSeq(meta, 1, 0) = <<>>
    BY SubSeqEmpty
  <2> QED
    BY <2>1, <1>3, <1>11
<1>14. closed = [i \in 0..n |-> Turn(closed, i)]
  <2>1. ASSUME NEW i \in 0..n PROVE closed[i] = Turn(closed, i)
    <3> HIDE DEF closed
    <3>1. CASE i = 0
      BY <3>1, <1>13
    <3>2. CASE i # 0
      BY <3>2, <1>12, <1>3
    <3> QED
      BY <3>1, <3>2
  <2>2. closed = [i \in 0..n |-> closed[i]]
    OBVIOUS
  <2> HIDE DEF closed, Turn
  <2> QED
    BY <2>1, <2>2
<1>15. def = [i \in 0..n |-> Turn(def, i)]
  <2> HIDE DEF closed, Turn
  <2> QED
    BY <1>14
<1>16. CTableDef(types, bytes) = IF bytes = <<>> THEN <<>> ELSE def[n].field_metadata
  BY <1>9 DEF CTableDef
<1> HIDE DEF closed, def
<1>17. \A i \in 0..n : def[i] = closed[i]
  <2>1. def[0] = closed[0]
    BY <1>13, <1>15, <1>3
  <2>2. ASSUME NEW i \in 1..n, def[i - 1] = closed[i - 1] PROVE def[i] = closed[i]
    BY <2>2, <1>12, <1>15, <1>3
  <2>3. n \in Nat
    BY <1>3
  <2>4. GoOnAlike(def, closed, n)
    BY <2>1, <2>2 DEF GoOnAlike
  <2> QED
    BY <2>3, <2>4, Unrolled
<1>18. def[n].field_metadata = meta
  <2>1. def[n] = [index |-> 1 + off[n], field_metadata |-> SubSeq(meta, 1, n)]
    BY <1>17, <1>3 DEF closed
  <2> QED
    BY <2>1, <1>8, SubSeqFull
<1>19. ASSUME NEW i \in 1..n
       PROVE  field_metadata(CTableDef(types, bytes), i) = Metadata(columns[i])
  <2>1. CASE bytes = <<>>
    <3>1. CTableDef(types, bytes) = <<>>
      BY <2>1, <1>16
    <3>2. Len(bytes) = 0
      BY <2>1
    <3>3. Len(MetadataBytes(columns[i])) = 0
      <4>1. off[i] <= off[n] /\ off[n] = 0 /\ off[i] = off[i - 1] + Len(seqs[i])
        BY <3>2, <1>11, <1>3
      <4>2. off[i] \in Nat /\ off[i - 1] \in Nat /\ seqs[i] = MetadataBytes(columns[i]) /\ Len(MetadataBytes(columns[i])) \in Nat
        <5>1. i \in 0..n /\ i - 1 \in 0..n
          BY <1>3
        <5> QED
          BY <5>1, <1>4, <1>5, <1>6, <1>11, LenProperties
      <4> QED
        BY <4>1, <4>2
    <3>4. PICK c : c = columns[i]
      OBVIOUS
    <3>5. c \in Column /\ Len(MetadataBytes(c)) = 0 /\ c.type \in {"LONG", "BLOB", "STRING", "BIT", "VARCHAR"}
      BY <3>3, <3>4, <1>4, <1>6
    <3>6. c.type = "LONG"
      BY <3>5 DEF MetadataBytes
    <3>7. Metadata(c) = 0
      BY <3>6 DEF Metadata
    <3> QED
      BY <3>1, <3>4, <3>7 DEF field_metadata
  <2>2. CASE bytes # <<>>
    <3>1. CTableDef(types, bytes) = meta
      BY <2>2, <1>16, <1>18
    <3>2. meta # <<>>
      BY <1>3, <1>8, EmptySeq
    <3>3. meta[i] = Metadata(columns[i])
      BY <1>5
    <3> QED
      BY <3>1, <3>2, <3>3 DEF field_metadata
  <2> QED
    BY <2>1, <2>2
<1>20. /\ types = [i \in DOMAIN input.columns |-> input.columns[i].type]
       /\ bytes = FlattenSeq([i \in DOMAIN input.columns |-> MetadataBytes(input.columns[i])])
       /\ DOMAIN types = 1..n
  BY <1>2, <1>4, <1>5, <1>9, <1>10
<1> QED
  BY <1>2, <1>19, <1>20 DEF MetadataOwn

(* Digits, and the characters of a time.                                   *)
Digits == {Digit[i] : i \in 1..10}
Chars == Digits \cup {"-", " ", ":"}

(* The number that a digit means is the one it was written for.            *)
LEMMA DigitValue ==
  /\ \A d \in 0..9 : Digit[d + 1] \in Digits /\ Value(Digit[d + 1]) = d
  /\ \A c \in Digits : c # "-" /\ c # " " /\ c # ":" /\ IsDigit(c) /\ Value(c) \in Nat
  /\ \A c \in {"-", " ", ":"} : ~IsDigit(c)
<1>1. \A d, e \in 0..9 : Digit[d + 1] = Digit[e + 1] => d = e
  BY SMT DEF Digit
<1>2. ASSUME NEW d \in 0..9 PROVE Digit[d + 1] \in Digits /\ Value(Digit[d + 1]) = d
  <2>1. d + 1 \in 1..10
    OBVIOUS
  <2>2. Value(Digit[d + 1]) = d
    BY <1>1 DEF Value
  <2> QED
    BY <2>1, <2>2 DEF Digits
<1>3. \A i \in 1..10 : Digit[i] # "-" /\ Digit[i] # " " /\ Digit[i] # ":"
  <2> SUFFICES ASSUME NEW i \in 1..10 PROVE Digit[i] # "-" /\ Digit[i] # " " /\ Digit[i] # ":"
    OBVIOUS
  <2>1. Digit[i] \in {"0", "1", "2", "3", "4", "5", "6", "7", "8", "9"}
    BY SMT DEF Digit
  <2> QED
    BY <2>1
<1>4. DOMAIN Digit = 1..10
  BY DEF Digit
<1>5. \A c : IsDigit(c) <=> c \in Digits
  BY <1>4 DEF IsDigit, ToSet, Digits
<1>6. ASSUME NEW c \in Digits PROVE c # "-" /\ c # " " /\ c # ":" /\ IsDigit(c) /\ Value(c) \in Nat
  <2>1. PICK i \in 1..10 : c = Digit[i]
    BY DEF Digits
  <2>2. i - 1 \in 0..9 /\ (i - 1) + 1 = i
    OBVIOUS
  <2>3. Value(c) = i - 1
    BY <1>2, <2>1, <2>2
  <2>4. Value(c) \in Nat
    BY <2>3
  <2>5. c # "-" /\ c # " " /\ c # ":"
    BY <2>1, <1>3
  <2> QED
    BY <2>4, <2>5, <1>5
<1>7. ASSUME NEW c \in {"-", " ", ":"} PROVE ~IsDigit(c)
  BY <1>6, <1>5
<1> QED
  BY <1>2, <1>6, <1>7

(* The digit of a number below ten.                                        *)
LEMMA DigitOf ==
  ASSUME NEW d \in 0..9
  PROVE  Digit[d + 1] \in Digits /\ Value(Digit[d + 1]) = d
BY DigitValue

(* The first and the last of a set of positions.                           *)
LEMMA LeastIs ==
  ASSUME NEW I \in SUBSET Nat, NEW m \in I, \A i \in I : m <= i
  PROVE  I # {} /\ Min(I) = m
<1>1. \A x \in I : (\A y \in I : x <= y) => x = m
  OBVIOUS
<1> QED
  BY <1>1 DEF Min

(* Max is the element that no other exceeds.                               *)
LEMMA GreatestIs ==
  ASSUME NEW I \in SUBSET Nat, NEW m \in I, \A i \in I : m >= i
  PROVE  I # {} /\ Max(I) = m
<1>1. \A x \in I : (\A y \in I : x >= y) => x = m
  OBVIOUS
<1> QED
  BY <1>1 DEF Max

(* A part of a sequence, from where it stands.                             *)
LEMMA CutOut ==
  ASSUME NEW T, NEW s \in Seq(T), NEW p \in Seq(T), NEW at \in Nat, at + Len(p) <= Len(s),
         \A k \in 1..Len(p) : s[at + k] = p[k]
  PROVE  SubSeq(s, at + 1, at + Len(p)) = p
<1>1. Len(p) \in Nat /\ Len(s) \in Nat /\ \A i \in 1..Len(s) : s[i] \in T
  BY LenProperties, ElementOfSeq
<1>2. PICK a, b : a = at + 1 /\ b = at + Len(p)
  OBVIOUS
<1>3. a \in Int /\ b \in Int /\ \A i \in a..b : s[i] \in T
  BY <1>1, <1>2
<1>4. PICK u : u = SubSeq(s, a, b)
  OBVIOUS
<1>5. /\ u \in Seq(T) /\ Len(u) = (IF a <= b THEN b - a + 1 ELSE 0)
      /\ \A i \in 1..(b - a + 1) : u[i] = s[a + i - 1]
  BY <1>3, <1>4, SubSeqProperties
<1>6. Len(u) = Len(p)
  BY <1>1, <1>2, <1>5
<1>7. ASSUME NEW i \in 1..Len(p) PROVE u[i] = p[i]
  <2>1. i \in 1..(b - a + 1) /\ a + i - 1 = at + i
    <3>1. PICK l : l = Len(p)
      OBVIOUS
    <3>2. at \in Nat /\ l \in Nat /\ i \in 1..l /\ a = at + 1 /\ b = at + l
      BY <3>1, <1>1, <1>2
    <3>3. b - a + 1 = l /\ a + i - 1 = at + i
      BY ONLY <3>2, SMT
    <3> QED
      BY <3>2, <3>3, Zenon
  <2> QED
    BY <2>1, <1>5
<1>8. u = p
  BY <1>5, <1>6, <1>7, SeqEqual
<1> QED
  BY <1>2, <1>4, <1>8

(* A sequence, a separator, and another sequence.                          *)
Joins(u, T, s, c, p) ==
  /\ u \in Seq(T)
  /\ Len(u) = Len(s) + 1 + Len(p)
  /\ \A i \in 1..Len(s) : u[i] = s[i]
  /\ u[Len(s) + 1] = c
  /\ \A k \in 1..Len(p) : u[Len(s) + 1 + k] = p[k]

(* A separator and a field behind a sequence.                              *)
LEMMA Joined ==
  ASSUME NEW T, NEW s \in Seq(T), NEW c \in T, NEW p \in Seq(T)
  PROVE  Joins(s \o <<c>> \o p, T, s, c, p)
<1>1. PICK h : h = <<c>>
  OBVIOUS
<1>2. h \in Seq(T) /\ Len(h) = 1 /\ h[1] = c
  BY <1>1
<1>3. PICK v : v = s \o h
  OBVIOUS
<1>4. h \in Seq(T)
  BY <1>2
<1>5. /\ v \in Seq(T) /\ Len(v) = Len(s) + Len(h)
      /\ \A i \in 1..(Len(s) + Len(h)) : v[i] = IF i <= Len(s) THEN s[i] ELSE h[i - Len(s)]
  BY <1>3, <1>4, ConcatProperties
<1>6. PICK u : u = v \o p
  OBVIOUS
<1>7. v \in Seq(T)
  BY <1>5
<1>8. /\ u \in Seq(T) /\ Len(u) = Len(v) + Len(p)
      /\ \A i \in 1..(Len(v) + Len(p)) : u[i] = IF i <= Len(v) THEN v[i] ELSE p[i - Len(v)]
  BY <1>7, <1>6, ConcatProperties
<1>9. PICK m, n : m = Len(s) /\ n = Len(p)
  OBVIOUS
<1>10. m \in Nat /\ n \in Nat /\ Len(v) = m + 1 /\ Len(u) = m + 1 + n
  BY <1>2, <1>5, <1>8, <1>9, LenProperties
<1>11. ASSUME NEW i \in 1..m PROVE u[i] = s[i]
  <2>1. i \in 1..(Len(v) + n) /\ i <= Len(v) /\ i \in 1..(m + Len(h)) /\ i <= m
    BY <1>2, <1>10
  <2> QED
    BY <2>1, <1>5, <1>8, <1>9
<1>12. u[m + 1] = c
  <2>1. m + 1 \in 1..(Len(v) + n) /\ m + 1 <= Len(v) /\ m + 1 \in 1..(m + Len(h)) /\ ~(m + 1 <= m) /\ m + 1 - m = 1
    BY <1>2, <1>10
  <2>2. u[m + 1] = v[m + 1]
    BY <2>1, <1>8, <1>9
  <2>3. v[m + 1] = h[m + 1 - m]
    BY <2>1, <1>5, <1>9
  <2> QED
    BY <2>1, <2>2, <2>3, <1>2
<1>13. ASSUME NEW k \in 1..n PROVE u[m + 1 + k] = p[k]
  <2>1. m + 1 + k \in 1..(Len(v) + n) /\ ~(m + 1 + k <= Len(v)) /\ m + 1 + k - Len(v) = k
    BY <1>10
  <2> QED
    BY <2>1, <1>8, <1>9
<1>14. u = s \o <<c>> \o p
  BY <1>1, <1>3, <1>6
<1>15. Joins(u, T, s, c, p)
  BY <1>8, <1>9, <1>10, <1>11, <1>12, <1>13 DEF Joins
<1> QED
  BY <1>14, <1>15

(* The value of a run of digits, digit by digit.                           *)
LEMMA NumberUnrolled ==
  ASSUME NEW p \in Seq(Digits)
  PROVE  \E f \in [0..Len(p) -> Nat] :
           f[0] = 0 /\ Number(p) = f[Len(p)] /\ \A i \in 1..Len(p) : f[i] = 10 * f[i - 1] + Value(p[i])
<1>1. PICK n : n = Len(p)
  OBVIOUS
<1>2. n \in Nat /\ \A i \in 1..n : Value(p[i]) \in Nat
  BY <1>1, LenProperties, ElementOfSeq, DigitValue
<1> DEFINE step == [i \in 1..n |-> [x \in Nat |-> 10 * x + Value(p[i])]]
<1>3. step \in [1..n -> [Nat -> Nat]]
  BY <1>2
<1> HIDE DEF step
<1>4. PICK f : Recurses(f, n, Nat, 0, step)
  BY <1>2, <1>3, Recursion
<1>5. f \in [0..n -> Nat] /\ f[0] = 0 /\ \A i \in 1..n : f[i] = step[i][f[i - 1]]
  BY <1>4 DEF Recurses
<1>6. ASSUME NEW i \in 1..n PROVE f[i] = 10 * f[i - 1] + Value(p[i])
  <2>1. f[i - 1] \in Nat /\ f[i] = step[i][f[i - 1]]
    BY <1>2, <1>5
  <2> QED
    BY <2>1 DEF step
<1> DEFINE Turn(g, k) == IF k = 0 THEN 0 ELSE 10 * g[k - 1] + Value(p[k])
           value == CHOOSE g : g = [k \in 0..n |-> Turn(g, k)]
<1>7. Number(p) = value[n]
  BY <1>1 DEF Number
<1>8. f = [k \in 0..n |-> Turn(f, k)]
  <2>1. \A k \in 0..n : f[k] = Turn(f, k)
    BY <1>2, <1>5, <1>6
  <2>2. f = [k \in 0..n |-> f[k]]
    BY <1>5
  <2> HIDE DEF Turn
  <2> QED
    BY <2>1, <2>2
<1>9. value = [k \in 0..n |-> Turn(value, k)]
  <2> HIDE DEF Turn
  <2> QED
    BY <1>8
<1> HIDE DEF value
<1>10. \A k \in 0..n : value[k] = f[k]
  <2>1. value[0] = f[0]
    BY <1>2, <1>5, <1>9
  <2>2. ASSUME NEW k \in 1..n, value[k - 1] = f[k - 1] PROVE value[k] = f[k]
    BY <1>2, <1>6, <1>9, <2>2
  <2>3. GoOnAlike(value, f, n)
    BY <2>1, <2>2 DEF GoOnAlike
  <2> QED
    BY <1>2, <2>3, Unrolled
<1>11. n \in 0..n
  BY <1>2
<1> QED
  BY <1>1, <1>5, <1>6, <1>7, <1>10, <1>11

(* atoi of digits, without a blank or anything behind them.                *)
LEMMA DigitsRead ==
  ASSUME NEW p \in Seq(Digits), p # <<>>
  PROVE  atoi(p) = Number(p)
<1>1. Len(p) \in Nat \ {0} /\ \A i \in 1..Len(p) : p[i] \in Digits
  BY EmptySeq, ElementOfSeq
<1>2. \A i \in 1..Len(p) : p[i] # " " /\ IsDigit(p[i])
  BY <1>1, DigitValue
<1> DEFINE I == {i \in 1..Len(p) : p[i] # " "}
           J == {i \in 1..Len(p) : ~IsDigit(p[i])}
<1>3. I # {} /\ Min(I) = 1
  <2>1. 1 \in 1..Len(p)
    BY <1>1
  <2>2. 1 \in I
    BY <1>2, <2>1
  <2>3. \A i \in 1..Len(p) : i \in Nat /\ 1 <= i
    BY <1>1
  <2>4. I \in SUBSET Nat /\ \A i \in I : 1 <= i
    BY <2>3
  <2> HIDE DEF I
  <2> QED
    BY <2>2, <2>4, LeastIs
<1>4. J = {}
  BY <1>2
<1>5. SubSeq(p, 1, Len(p)) = p
  BY SubSeqFull
<1>6. AfterBlanks(p) = p
  <2>1. AfterBlanks(p) = LET start == IF I # {} THEN Min(I) ELSE 0
                         IN  IF start = 0 THEN <<>> ELSE SubSeq(p, start, Len(p))
    BY DEF AfterBlanks, SelectInSeq
  <2> HIDE DEF I
  <2> QED
    BY <2>1, <1>3, <1>5
<1>7. LeadingDigits(p) = p
  BY <1>4 DEF LeadingDigits, SelectInSeq
<1> QED
  BY <1>6, <1>7 DEF atoi

(* The two digits of a field and the four of a year, as they are read.     *)
LEMMA TwoRead ==
  ASSUME NEW p \in Seq(Digits), Len(p) = 2
  PROVE  atoi(p) = 10 * Value(p[1]) + Value(p[2])
<1>1. p # <<>> /\ \A i \in 1..2 : Value(p[i]) \in Nat
  <2>1. \A i \in 1..2 : p[i] \in Digits
    BY ElementOfSeq
  <2>2. \A c \in Digits : Value(c) \in Nat
    BY DigitValue, Zenon
  <2>3. p # <<>>
    OBVIOUS
  <2> QED
    BY <2>1, <2>2, <2>3
<1>2. PICK f \in [0..Len(p) -> Nat] :
        f[0] = 0 /\ Number(p) = f[Len(p)] /\ \A i \in 1..Len(p) : f[i] = 10 * f[i - 1] + Value(p[i])
  BY NumberUnrolled
<1>3. f[0] = 0 /\ Number(p) = f[2] /\ f[1] = 10 * f[0] + Value(p[1]) /\ f[2] = 10 * f[1] + Value(p[2])
  BY <1>2
<1>4. PICK a, b : a = Value(p[1]) /\ b = Value(p[2])
  OBVIOUS
<1>5. a \in Nat /\ b \in Nat /\ Number(p) = 10 * (10 * 0 + a) + b
  BY <1>1, <1>3, <1>4
<1> QED
  BY <1>1, <1>4, <1>5, DigitsRead

(* atoi of four digits.                                                    *)
LEMMA FourRead ==
  ASSUME NEW p \in Seq(Digits), Len(p) = 4
  PROVE  atoi(p) = 1000 * Value(p[1]) + 100 * Value(p[2]) + 10 * Value(p[3]) + Value(p[4])
<1>1. p # <<>> /\ \A i \in 1..4 : Value(p[i]) \in Nat
  <2>1. \A i \in 1..4 : p[i] \in Digits
    BY ElementOfSeq
  <2>2. \A c \in Digits : Value(c) \in Nat
    BY DigitValue, Zenon
  <2>3. p # <<>>
    OBVIOUS
  <2> QED
    BY <2>1, <2>2, <2>3
<1>2. PICK f \in [0..Len(p) -> Nat] :
        f[0] = 0 /\ Number(p) = f[Len(p)] /\ \A i \in 1..Len(p) : f[i] = 10 * f[i - 1] + Value(p[i])
  BY NumberUnrolled
<1>3. /\ f[0] = 0 /\ Number(p) = f[4]
      /\ f[1] = 10 * f[0] + Value(p[1]) /\ f[2] = 10 * f[1] + Value(p[2])
      /\ f[3] = 10 * f[2] + Value(p[3]) /\ f[4] = 10 * f[3] + Value(p[4])
  BY <1>2
<1>4. PICK a, b, c, d : a = Value(p[1]) /\ b = Value(p[2]) /\ c = Value(p[3]) /\ d = Value(p[4])
  OBVIOUS
<1>5. a \in Nat /\ b \in Nat /\ c \in Nat /\ d \in Nat /\ Number(p) = 10 * (10 * (10 * (10 * 0 + a) + b) + c) + d
  BY <1>1, <1>3, <1>4
<1>6. Number(p) = 1000 * a + 100 * b + 10 * c + d
  BY <1>5, SMT
<1> QED
  BY <1>1, <1>4, <1>6, DigitsRead

(* An element behind a sequence.                                           *)
LEMMA Extended ==
  ASSUME NEW T, NEW s \in Seq(T), NEW x \in T
  PROVE  /\ s \o <<x>> \in Seq(T)
         /\ Len(s \o <<x>>) = Len(s) + 1
         /\ \A i \in 1..Len(s) : (s \o <<x>>)[i] = s[i]
         /\ (s \o <<x>>)[Len(s) + 1] = x
<1>1. PICK h, u, n : h = <<x>> /\ u = s \o h /\ n = Len(s)
  OBVIOUS
<1>2. h \in Seq(T)
  BY <1>1
<1>3. Len(h) = 1 /\ h[1] = x /\ n \in Nat
  BY <1>1, LenProperties
<1>4. /\ u \in Seq(T) /\ Len(u) = n + Len(h)
      /\ \A i \in 1..(n + Len(h)) : u[i] = IF i <= n THEN s[i] ELSE h[i - n]
  BY <1>1, <1>2, ConcatProperties
<1>5. Len(u) = n + 1 /\ \A i \in 1..n : u[i] = s[i]
  BY <1>3, <1>4
<1>6. u[n + 1] = x
  <2>1. n + 1 \in 1..(n + Len(h)) /\ ~(n + 1 <= n) /\ n + 1 - n = 1
    BY <1>3
  <2> QED
    BY <2>1, <1>3, <1>4
<1> QED
  BY <1>1, <1>4, <1>5, <1>6

(* sprintf's decimals: one or two digits of a field, four of a year.       *)
LEMMA DecimalField ==
  ASSUME NEW n \in 0..99
  PROVE  /\ Decimal(n) \in Seq(Digits) /\ Len(Decimal(n)) \in {1, 2}
         /\ Pad(Decimal(n)) \in Seq(Digits) /\ Len(Pad(Decimal(n))) = 2
         /\ Len(Decimal(n)) = 2 => Pad(Decimal(n)) = Decimal(n)
         /\ atoi(Pad(Decimal(n))) = n
<1>1. PICK x, y : x = (n \div 10) % 10 /\ y = (n \div 1) % 10
  OBVIOUS
<1>2. x \in 0..9 /\ y \in 0..9 /\ n = 10 * x + y /\ (n < 10 => x = 0)
  BY <1>1
<1>3. PICK a, b : a = Digit[x + 1] /\ b = Digit[y + 1]
  OBVIOUS
<1>4. a \in Digits /\ b \in Digits /\ Value(a) = x /\ Value(b) = y
  BY <1>2, <1>3, DigitValue
<1>5. PICK one, two : one = <<b>> /\ two = <<a>> \o <<b>>
  OBVIOUS
<1>6. one \in Seq(Digits) /\ Len(one) = 1
  BY <1>4, <1>5
<1>7. two \in Seq(Digits) /\ Len(two) = 2 /\ atoi(two) = n
  <2>1. <<a>> \in Seq(Digits) /\ Len(<<a>>) = 1 /\ <<a>>[1] = a
    BY <1>4
  <2>2. PICK h : h = <<a>>
    OBVIOUS
  <2>3. h \in Seq(Digits)
    BY <2>1, <2>2
  <2>4. two \in Seq(Digits) /\ Len(two) = Len(h) + 1 /\ (\A i \in 1..Len(h) : two[i] = h[i]) /\ two[Len(h) + 1] = b
    BY <2>2, <2>3, <1>4, <1>5, Extended
  <2>5. Len(two) = 2 /\ two[1] = a /\ two[2] = b
    BY <2>1, <2>2, <2>4
  <2>6. atoi(two) = 10 * Value(two[1]) + Value(two[2])
    BY <2>4, <2>5, TwoRead
  <2> QED
    BY <2>4, <2>5, <2>6, <1>2, <1>4
<1>8. \A s \in Seq(Digits) : <<>> \o s = s /\ s \o <<>> = s
  BY ConcatEmptySeq
<1>9. <<>> \in Seq(Digits) /\ <<a>> \in Seq(Digits)
  BY <1>4
<1>10. CASE n < 10
  <2>1. Decimal(n) = one
    <3>1. n < 100 /\ n < 1000
      BY <1>10
    <3>2. Decimal(n) = <<>> \o <<>> \o <<>> \o one
      BY <1>1, <1>3, <1>5, <1>10, <3>1 DEF Decimal
    <3> QED
      BY <3>2, <1>6, <1>8, <1>9
  <2>2. Digit[1] = "0" /\ a = Digit[1]
    BY <1>2, <1>3, <1>10 DEF Digit
  <2>3. Pad(one) = two
    BY <2>2, <1>5, <1>6 DEF Pad
  <2> QED
    BY <2>1, <2>3, <1>6, <1>7
<1>11. CASE ~(n < 10)
  <2>1. Decimal(n) = two
    <3>1. n < 100 /\ n < 1000
      OBVIOUS
    <3>2. Decimal(n) = <<>> \o <<>> \o <<a>> \o <<b>>
      BY <1>1, <1>3, <1>11, <3>1 DEF Decimal
    <3>3. <<>> \o <<>> \o <<a>> = <<a>>
      BY <1>8, <1>9
    <3> QED
      BY <3>2, <3>3, <1>5
  <2>2. Pad(two) = two
    BY <1>7 DEF Pad
  <2> QED
    BY <2>1, <2>2, <1>7
<1> QED
  BY <1>10, <1>11

Four(p, a, b, c, d) == p = <<a>> \o <<b>> \o <<c>> \o <<d>>

(* Four digits in a row, one by one.                                       *)
LEMMA FourDigits ==
  ASSUME NEW a \in Digits, NEW b \in Digits, NEW c \in Digits, NEW d \in Digits,
         NEW p, Four(p, a, b, c, d)
  PROVE  /\ p \in Seq(Digits)
         /\ Len(p) = 4
         /\ atoi(p) = 1000 * Value(a) + 100 * Value(b) + 10 * Value(c) + Value(d)
<1>1. PICK p1 : p1 = <<a>>
  OBVIOUS
<1>2. PICK p2 : p2 = p1 \o <<b>>
  OBVIOUS
<1>3. PICK p3 : p3 = p2 \o <<c>>
  OBVIOUS
<1>4. PICK p4 : p4 = p3 \o <<d>>
  OBVIOUS
<1>5. p1 \in Seq(Digits)
  BY <1>1
<1>6. Len(p1) = 1 /\ p1[1] = a
  BY <1>1
<1>7. p2 \in Seq(Digits) /\ Len(p2) = Len(p1) + 1 /\ (\A i \in 1..Len(p1) : p2[i] = p1[i]) /\ p2[Len(p1) + 1] = b
  BY <1>2, <1>5, Extended
<1>8. p2 \in Seq(Digits)
  BY <1>7
<1>9. p3 \in Seq(Digits) /\ Len(p3) = Len(p2) + 1 /\ (\A i \in 1..Len(p2) : p3[i] = p2[i]) /\ p3[Len(p2) + 1] = c
  BY <1>3, <1>8, Extended
<1>10. p3 \in Seq(Digits)
  BY <1>9
<1>11. p4 \in Seq(Digits) /\ Len(p4) = Len(p3) + 1 /\ (\A i \in 1..Len(p3) : p4[i] = p3[i]) /\ p4[Len(p3) + 1] = d
  BY <1>4, <1>10, Extended
<1>12. Len(p4) = 4 /\ p4[1] = a /\ p4[2] = b /\ p4[3] = c /\ p4[4] = d
  BY <1>6, <1>7, <1>9, <1>11
<1>13. p4 \in Seq(Digits)
  BY <1>11
<1>14. atoi(p4) = 1000 * Value(p4[1]) + 100 * Value(p4[2]) + 10 * Value(p4[3]) + Value(p4[4])
  BY <1>12, <1>13, FourRead
<1>15. p4 = p
  BY <1>1, <1>2, <1>3, <1>4 DEF Four
<1>16. atoi(p4) = 1000 * Value(a) + 100 * Value(b) + 10 * Value(c) + Value(d)
  BY <1>12, <1>14
<1> QED
  BY <1>12, <1>13, <1>15, <1>16

(* A year is written in four digits, which atoi reads back.                *)
LEMMA DecimalYear ==
  ASSUME NEW n \in Nat, n >= 1000, n < 10000
  PROVE  Decimal(n) \in Seq(Digits) /\ Len(Decimal(n)) = 4 /\ atoi(Decimal(n)) = n
<1>1. PICK w, x, y, z : /\ w = (n \div 1000) % 10 /\ x = (n \div 100) % 10
                        /\ y = (n \div 10) % 10 /\ z = (n \div 1) % 10
  OBVIOUS
<1>2. w \in 0..9 /\ x \in 0..9 /\ y \in 0..9 /\ z \in 0..9 /\ n = 1000 * w + 100 * x + 10 * y + z
  BY <1>1, SMT
<1>3. PICK a, b, c, d : a = Digit[w + 1] /\ b = Digit[x + 1] /\ c = Digit[y + 1] /\ d = Digit[z + 1]
  OBVIOUS
<1>4. a \in Digits /\ b \in Digits /\ c \in Digits /\ d \in Digits
  BY <1>2, <1>3, DigitOf, SMT
<1>5. Value(a) = w /\ Value(b) = x /\ Value(c) = y /\ Value(d) = z
  BY <1>2, <1>3, DigitOf, SMT
<1>6. PICK p : p = Decimal(n)
  OBVIOUS
<1>7. Four(p, a, b, c, d)
  BY <1>1, <1>3, <1>6, SMT DEF Decimal, Four
<1>8. /\ p \in Seq(Digits) /\ Len(p) = 4
      /\ atoi(p) = 1000 * Value(a) + 100 * Value(b) + 10 * Value(c) + Value(d)
  BY <1>4, <1>7, FourDigits, SMT
<1> QED
  BY <1>2, <1>5, <1>6, <1>8, SMT

(* The text of a time: a year and five fields, and where they stand.       *)
Text(y, a, b, c, d, e) ==
  y \o <<"-">> \o a \o <<"-">> \o b \o <<" ">> \o c \o <<":">> \o d \o <<":">> \o e

Parts(s, y, a, b, c, d, e, i1, i2, i3, i4) ==
  /\ s \in Seq(Chars)
  /\ i1 = 6 + Len(a) /\ i2 = i1 + 1 + Len(b) /\ i3 = i2 + 1 + Len(c) /\ i4 = i3 + 1 + Len(d)
  /\ Len(s) = i4 + Len(e)
  /\ s[5] = "-" /\ s[i1] = "-" /\ s[i2] = " " /\ s[i3] = ":" /\ s[i4] = ":"
  /\ \A k \in 1..4 : s[k] = y[k]
  /\ \A k \in 1..Len(a) : s[5 + k] = a[k]
  /\ \A k \in 1..Len(b) : s[i1 + k] = b[k]
  /\ \A k \in 1..Len(c) : s[i2 + k] = c[k]
  /\ \A k \in 1..Len(d) : s[i3 + k] = d[k]
  /\ \A k \in 1..Len(e) : s[i4 + k] = e[k]

(* Where the fields and the separators of a time stand.                    *)
LEMMA TextParts ==
  ASSUME NEW y \in Seq(Digits), Len(y) = 4, NEW a \in Seq(Digits), NEW b \in Seq(Digits),
         NEW c \in Seq(Digits), NEW d \in Seq(Digits), NEW e \in Seq(Digits)
  PROVE  \E i1, i2, i3, i4 : Parts(Text(y, a, b, c, d, e), y, a, b, c, d, e, i1, i2, i3, i4)
<1>1. y \in Seq(Chars) /\ a \in Seq(Chars) /\ b \in Seq(Chars) /\ c \in Seq(Chars) /\ d \in Seq(Chars) /\ e \in Seq(Chars)
  <2>1. Digits \subseteq Chars
    BY DEF Chars
  <2> QED
    BY <2>1, SeqMonotonic
<1>2. "-" \in Chars /\ " " \in Chars /\ ":" \in Chars
  BY DEF Chars
<1>3. PICK s1 : s1 = y \o <<"-">> \o a
  OBVIOUS
<1>4. PICK s2 : s2 = s1 \o <<"-">> \o b
  OBVIOUS
<1>5. PICK s3 : s3 = s2 \o <<" ">> \o c
  OBVIOUS
<1>6. PICK s4 : s4 = s3 \o <<":">> \o d
  OBVIOUS
<1>7. PICK s : s = s4 \o <<":">> \o e
  OBVIOUS
<1>8. Joins(s1, Chars, y, "-", a)
  BY <1>1, <1>2, <1>3, Joined
<1>9. Joins(s2, Chars, s1, "-", b)
  <2>1. s1 \in Seq(Chars)
    BY <1>8 DEF Joins
  <2> QED
    BY <2>1, <1>1, <1>2, <1>4, Joined
<1>10. Joins(s3, Chars, s2, " ", c)
  <2>1. s2 \in Seq(Chars)
    BY <1>9 DEF Joins
  <2> QED
    BY <2>1, <1>1, <1>2, <1>5, Joined
<1>11. Joins(s4, Chars, s3, ":", d)
  <2>1. s3 \in Seq(Chars)
    BY <1>10 DEF Joins
  <2> QED
    BY <2>1, <1>1, <1>2, <1>6, Joined
<1>12. Joins(s, Chars, s4, ":", e)
  <2>1. s4 \in Seq(Chars)
    BY <1>11 DEF Joins
  <2> QED
    BY <2>1, <1>1, <1>2, <1>7, Joined
<1>13. PICK la, lb, lc, ld, le : la = Len(a) /\ lb = Len(b) /\ lc = Len(c) /\ ld = Len(d) /\ le = Len(e)
  OBVIOUS
<1>14. la \in Nat /\ lb \in Nat /\ lc \in Nat /\ ld \in Nat /\ le \in Nat
  BY <1>13, LenProperties
<1>15. PICK i1, i2, i3, i4 : i1 = 6 + la /\ i2 = 7 + la + lb /\ i3 = 8 + la + lb + lc /\ i4 = 9 + la + lb + lc + ld
  OBVIOUS
<1>16. /\ Len(s1) = 5 + la /\ Len(s2) = 6 + la + lb /\ Len(s3) = 7 + la + lb + lc
       /\ Len(s4) = 8 + la + lb + lc + ld /\ Len(s) = 9 + la + lb + lc + ld + le
  <2>1. Len(s1) = 4 + 1 + la
    BY <1>8, <1>13 DEF Joins
  <2>2. Len(s2) = Len(s1) + 1 + lb
    BY <1>9, <1>13 DEF Joins
  <2>3. Len(s3) = Len(s2) + 1 + lc
    BY <1>10, <1>13 DEF Joins
  <2>4. Len(s4) = Len(s3) + 1 + ld
    BY <1>11, <1>13 DEF Joins
  <2>5. Len(s) = Len(s4) + 1 + le
    BY <1>12, <1>13 DEF Joins
  <2> QED
    BY <2>1, <2>2, <2>3, <2>4, <2>5, <1>14
<1>17. /\ \A i \in 1..(8 + la + lb + lc + ld) : s[i] = s4[i]
       /\ \A i \in 1..(7 + la + lb + lc) : s4[i] = s3[i]
       /\ \A i \in 1..(6 + la + lb) : s3[i] = s2[i]
       /\ \A i \in 1..(5 + la) : s2[i] = s1[i]
       /\ \A i \in 1..4 : s1[i] = y[i]
  BY <1>8, <1>9, <1>10, <1>11, <1>12, <1>16 DEF Joins
<1>18. /\ \A i \in 1..(7 + la + lb + lc) : s[i] = s3[i]
       /\ \A i \in 1..(6 + la + lb) : s[i] = s2[i]
       /\ \A i \in 1..(5 + la) : s[i] = s1[i]
       /\ \A i \in 1..4 : s[i] = y[i]
  <2>1. \A i \in 1..(7 + la + lb + lc) : s[i] = s3[i]
    BY <1>14, <1>17
  <2>2. \A i \in 1..(6 + la + lb) : s[i] = s2[i]
    BY <2>1, <1>14, <1>17
  <2>3. \A i \in 1..(5 + la) : s[i] = s1[i]
    BY <2>2, <1>14, <1>17
  <2>4. \A i \in 1..4 : s[i] = y[i]
    BY <2>3, <1>14, <1>17
  <2> QED
    BY <2>1, <2>2, <2>3, <2>4
<1>19. s[5] = "-" /\ \A k \in 1..la : s[5 + k] = a[k]
  <2>1. s1[4 + 1] = "-" /\ \A k \in 1..la : s1[4 + 1 + k] = a[k]
    BY <1>8, <1>13 DEF Joins
  <2>2. s1[5] = "-" /\ \A k \in 1..la : s1[5 + k] = a[k]
    BY <2>1, <1>14
  <2> QED
    BY <2>2, <1>14, <1>18
<1>20. s[i1] = "-" /\ \A k \in 1..lb : s[i1 + k] = b[k]
  <2>1. s2[i1] = "-" /\ \A k \in 1..lb : s2[i1 + k] = b[k]
    <3>1. s2[Len(s1) + 1] = "-" /\ \A k \in 1..lb : s2[Len(s1) + 1 + k] = b[k]
      BY <1>9, <1>13 DEF Joins
    <3>2. Len(s1) + 1 = i1
      BY <1>14, <1>15, <1>16
    <3> QED
      BY <3>1, <3>2
  <2> QED
    BY <2>1, <1>14, <1>15, <1>18
<1>21. s[i2] = " " /\ \A k \in 1..lc : s[i2 + k] = c[k]
  <2>1. s3[i2] = " " /\ \A k \in 1..lc : s3[i2 + k] = c[k]
    <3>1. s3[Len(s2) + 1] = " " /\ \A k \in 1..lc : s3[Len(s2) + 1 + k] = c[k]
      BY <1>10, <1>13 DEF Joins
    <3>2. Len(s2) + 1 = i2
      BY <1>14, <1>15, <1>16
    <3> QED
      BY <3>1, <3>2
  <2> QED
    <3>1. i2 \in 1..(7 + la + lb + lc) /\ \A k \in 1..lc : i2 + k \in 1..(7 + la + lb + lc)
      BY <1>14, <1>15
    <3> QED
      BY <3>1, <2>1, <1>18
<1>22. s[i3] = ":" /\ \A k \in 1..ld : s[i3 + k] = d[k]
  <2>1. s4[i3] = ":" /\ \A k \in 1..ld : s4[i3 + k] = d[k]
    <3>1. s4[Len(s3) + 1] = ":" /\ \A k \in 1..ld : s4[Len(s3) + 1 + k] = d[k]
      BY <1>11, <1>13 DEF Joins
    <3>2. Len(s3) + 1 = i3
      BY <1>14, <1>15, <1>16
    <3> QED
      BY <3>1, <3>2
  <2> QED
    BY <2>1, <1>14, <1>15, <1>17
<1>23. s[i4] = ":" /\ \A k \in 1..le : s[i4 + k] = e[k]
  <2>1. s[Len(s4) + 1] = ":" /\ \A k \in 1..le : s[Len(s4) + 1 + k] = e[k]
    BY <1>12, <1>13 DEF Joins
  <2>2. Len(s4) + 1 = i4
    BY <1>14, <1>15, <1>16
  <2> QED
    BY <2>1, <2>2
<1>24. s \in Seq(Chars)
  BY <1>12 DEF Joins
<1>25. i2 = i1 + 1 + lb /\ i3 = i2 + 1 + lc /\ i4 = i3 + 1 + ld /\ Len(s) = i4 + le
  BY <1>14, <1>15, <1>16
<1>26. Parts(s, y, a, b, c, d, e, i1, i2, i3, i4)
  BY <1>13, <1>15, <1>18, <1>19, <1>20, <1>21, <1>22, <1>23, <1>24, <1>25 DEF Parts
<1>27. s = Text(y, a, b, c, d, e)
  BY <1>3, <1>4, <1>5, <1>6, <1>7 DEF Text
<1> QED
  BY <1>26, <1>27

(* The separators of a text stand where Parts says, and nowhere else.      *)
Located(s, i1, i2, i3, i4) ==
  /\ i1 \in Nat /\ i2 \in Nat /\ i3 \in Nat /\ i4 \in Nat /\ Len(s) \in Nat
  /\ 5 < i1 /\ i1 < i2 /\ i2 < i3 /\ i3 < i4 /\ i4 <= Len(s)
  /\ \A i \in 1..Len(s) : /\ s[i] = "-" <=> i \in {5, i1}
                          /\ s[i] = " " <=> i = i2
                          /\ s[i] = ":" <=> i \in {i3, i4}

(* The searches of GetWriteXmlTime find the separators of a time.          *)
LEMMA Separators ==
  ASSUME NEW y \in Seq(Digits), Len(y) = 4, NEW a \in Seq(Digits), NEW b \in Seq(Digits),
         NEW c \in Seq(Digits), NEW d \in Seq(Digits), NEW e \in Seq(Digits),
         NEW s, NEW i1, NEW i2, NEW i3, NEW i4, Parts(s, y, a, b, c, d, e, i1, i2, i3, i4)
  PROVE  Located(s, i1, i2, i3, i4)
<1>1. PICK la, lb, lc, ld, le : la = Len(a) /\ lb = Len(b) /\ lc = Len(c) /\ ld = Len(d) /\ le = Len(e)
  OBVIOUS
<1>2. la \in Nat /\ lb \in Nat /\ lc \in Nat /\ ld \in Nat /\ le \in Nat
  BY <1>1, LenProperties
<1>3. i1 = 6 + la /\ i2 = i1 + 1 + lb /\ i3 = i2 + 1 + lc /\ i4 = i3 + 1 + ld /\ Len(s) = i4 + le
  BY <1>1 DEF Parts
<1>4. /\ s[5] = "-" /\ s[i1] = "-" /\ s[i2] = " " /\ s[i3] = ":" /\ s[i4] = ":"
  BY <1>1 DEF Parts
<1>5. /\ i1 \in Nat /\ i2 \in Nat /\ i3 \in Nat /\ i4 \in Nat /\ Len(s) \in Nat
      /\ 5 < i1 /\ i1 < i2 /\ i2 < i3 /\ i3 < i4 /\ i4 <= Len(s)
  <2>1. i1 \in Nat
    BY <1>3, <1>2
  <2>2. i2 \in Nat
    BY <1>3, <1>2, <2>1
  <2>3. i3 \in Nat
    BY <1>3, <1>2, <2>2
  <2>4. i4 \in Nat
    BY <1>3, <1>2, <2>3
  <2>5. Len(s) \in Nat
    BY <1>3, <1>2, <2>4
  <2> QED
    BY <1>3, <1>2, <2>1, <2>2, <2>3, <2>4, <2>5
<1>6. ASSUME NEW i \in 1..Len(s), i \notin {5, i1, i2, i3, i4} PROVE s[i] \in Digits
  <2>1. CASE i < 5
    <3>1. i \in 1..4
      BY <2>1, <1>5
    <3>2. s[i] = y[i]
      BY <3>1 DEF Parts
    <3> QED
      BY <3>1, <3>2, ElementOfSeq
  <2>2. CASE i > 5 /\ i < i1
    <3>1. i - 5 \in 1..la /\ 5 + (i - 5) = i
      BY <2>2, <1>3, <1>2, <1>5
    <3>2. \A k \in 1..la : s[5 + k] = a[k]
      BY <1>1 DEF Parts
    <3> QED
      BY <3>1, <3>2, <1>1, ElementOfSeq
  <2>3. CASE i > i1 /\ i < i2
    <3>1. i - i1 \in 1..lb /\ i1 + (i - i1) = i
      BY <2>3, <1>3, <1>2, <1>5
    <3>2. \A k \in 1..lb : s[i1 + k] = b[k]
      BY <1>1 DEF Parts
    <3> QED
      BY <3>1, <3>2, <1>1, ElementOfSeq
  <2>4. CASE i > i2 /\ i < i3
    <3>1. i - i2 \in 1..lc /\ i2 + (i - i2) = i
      BY <2>4, <1>3, <1>2, <1>5
    <3>2. \A k \in 1..lc : s[i2 + k] = c[k]
      BY <1>1 DEF Parts
    <3> QED
      BY <3>1, <3>2, <1>1, ElementOfSeq
  <2>5. CASE i > i3 /\ i < i4
    <3>1. i - i3 \in 1..ld /\ i3 + (i - i3) = i
      BY <2>5, <1>3, <1>2, <1>5
    <3>2. \A k \in 1..ld : s[i3 + k] = d[k]
      BY <1>1 DEF Parts
    <3> QED
      BY <3>1, <3>2, <1>1, ElementOfSeq
  <2>6. CASE i > i4
    <3>1. i - i4 \in 1..le /\ i4 + (i - i4) = i
      BY <2>6, <1>3, <1>2, <1>5
    <3>2. \A k \in 1..le : s[i4 + k] = e[k]
      BY <1>1 DEF Parts
    <3> QED
      BY <3>1, <3>2, <1>1, ElementOfSeq
  <2> QED
    BY <2>1, <2>2, <2>3, <2>4, <2>5, <2>6, <1>5, <1>6
<1>7. ASSUME NEW i \in 1..Len(s)
      PROVE  /\ s[i] = "-" <=> i \in {5, i1}
             /\ s[i] = " " <=> i = i2
             /\ s[i] = ":" <=> i \in {i3, i4}
  <2>1. CASE i \in {5, i1}
    BY <2>1, <1>4, <1>5
  <2>2. CASE i = i2
    BY <2>2, <1>4, <1>5
  <2>3. CASE i \in {i3, i4}
    BY <2>3, <1>4, <1>5
  <2>4. CASE i \notin {5, i1, i2, i3, i4}
    <3>1. s[i] # "-" /\ s[i] # " " /\ s[i] # ":"
      BY <2>4, <1>6, DigitValue
    <3> QED
      BY <3>1, <2>4
  <2> QED
    BY <2>1, <2>2, <2>3, <2>4
<1> QED
  BY <1>5, <1>7 DEF Located

(* The fields of a text, cut out by the separators.                        *)
Cuts(s, y, a, b, c, d, e, i1, i2, i3, i4) ==
  /\ SubSeq(s, 1, 4) = y /\ SubSeq(s, 6, i1 - 1) = a /\ SubSeq(s, i1 + 1, i2 - 1) = b
  /\ SubSeq(s, i2 + 1, i3 - 1) = c /\ SubSeq(s, i3 + 1, i4 - 1) = d
  /\ SubSeq(s, i4 + 1, Len(s)) = e

(* What stands between the separators is the fields.                       *)
LEMMA FieldsCut ==
  ASSUME NEW y \in Seq(Digits), Len(y) = 4, NEW a \in Seq(Digits), NEW b \in Seq(Digits),
         NEW c \in Seq(Digits), NEW d \in Seq(Digits), NEW e \in Seq(Digits),
         NEW s, NEW i1, NEW i2, NEW i3, NEW i4, Parts(s, y, a, b, c, d, e, i1, i2, i3, i4)
  PROVE  Cuts(s, y, a, b, c, d, e, i1, i2, i3, i4)
<1>1. /\ i1 \in Nat /\ i2 \in Nat /\ i3 \in Nat /\ i4 \in Nat /\ Len(s) \in Nat
      /\ 5 < i1 /\ i1 < i2 /\ i2 < i3 /\ i3 < i4 /\ i4 <= Len(s)
  <2>1. Located(s, i1, i2, i3, i4)
    BY Separators
  <2> QED
    BY <2>1 DEF Located
<1>2. /\ s \in Seq(Chars) /\ y \in Seq(Chars) /\ a \in Seq(Chars) /\ b \in Seq(Chars)
      /\ c \in Seq(Chars) /\ d \in Seq(Chars) /\ e \in Seq(Chars)
  <2>1. Digits \subseteq Chars
    BY DEF Chars
  <2>2. s \in Seq(Chars)
    BY DEF Parts
  <2> QED
    BY <2>1, <2>2, SeqMonotonic
<1>3. /\ Len(a) \in Nat /\ Len(b) \in Nat /\ Len(c) \in Nat /\ Len(d) \in Nat /\ Len(e) \in Nat
      /\ i1 = 6 + Len(a) /\ i2 = i1 + 1 + Len(b) /\ i3 = i2 + 1 + Len(c) /\ i4 = i3 + 1 + Len(d) /\ Len(s) = i4 + Len(e)
  BY LenProperties DEF Parts
<1>4. SubSeq(s, 1, 4) = y
  <2>1. 0 \in Nat /\ 0 + Len(y) <= Len(s)
    BY <1>1
  <2>2. \A k \in 1..Len(y) : s[0 + k] = y[k]
    <3>1. \A k \in 1..4 : s[k] = y[k]
      BY DEF Parts
    <3>2. \A k \in 1..Len(y) : k \in 1..4 /\ 0 + k = k
      OBVIOUS
    <3> QED
      BY <3>1, <3>2
  <2>3. SubSeq(s, 0 + 1, 0 + Len(y)) = y
    BY <2>1, <2>2, <1>2, CutOut
  <2> QED
    BY <2>3
<1>5. SubSeq(s, 6, i1 - 1) = a
  <2>1. 5 \in Nat /\ 5 + Len(a) <= Len(s)
    BY <1>1, <1>3
  <2>2. \A k \in 1..Len(a) : s[5 + k] = a[k]
    BY DEF Parts
  <2>3. SubSeq(s, 5 + 1, 5 + Len(a)) = a
    BY <2>1, <2>2, <1>2, CutOut
  <2>4. 5 + 1 = 6 /\ 5 + Len(a) = i1 - 1
    BY <1>3
  <2> QED
    BY <2>3, <2>4
<1>6. SubSeq(s, i1 + 1, i2 - 1) = b
  <2>1. i1 + Len(b) <= Len(s)
    BY <1>1, <1>3
  <2>2. \A k \in 1..Len(b) : s[i1 + k] = b[k]
    BY DEF Parts
  <2>3. SubSeq(s, i1 + 1, i1 + Len(b)) = b
    BY <2>1, <2>2, <1>1, <1>2, CutOut
  <2>4. i1 + Len(b) = i2 - 1
    BY <1>1, <1>3
  <2> QED
    BY <2>3, <2>4
<1>7. SubSeq(s, i2 + 1, i3 - 1) = c
  <2>1. i2 + Len(c) <= Len(s)
    BY <1>1, <1>3
  <2>2. \A k \in 1..Len(c) : s[i2 + k] = c[k]
    BY DEF Parts
  <2>3. SubSeq(s, i2 + 1, i2 + Len(c)) = c
    BY <2>1, <2>2, <1>1, <1>2, CutOut
  <2>4. i2 + Len(c) = i3 - 1
    BY <1>1, <1>3
  <2> QED
    BY <2>3, <2>4
<1>8. SubSeq(s, i3 + 1, i4 - 1) = d
  <2>1. i3 + Len(d) <= Len(s)
    BY <1>1, <1>3
  <2>2. \A k \in 1..Len(d) : s[i3 + k] = d[k]
    BY DEF Parts
  <2>3. SubSeq(s, i3 + 1, i3 + Len(d)) = d
    BY <2>1, <2>2, <1>1, <1>2, CutOut
  <2>4. i3 + Len(d) = i4 - 1
    BY <1>1, <1>3
  <2> QED
    BY <2>3, <2>4
<1>9. SubSeq(s, i4 + 1, Len(s)) = e
  <2>1. i4 + Len(e) <= Len(s)
    BY <1>1, <1>3
  <2>2. \A k \in 1..Len(e) : s[i4 + k] = e[k]
    BY DEF Parts
  <2>3. SubSeq(s, i4 + 1, i4 + Len(e)) = e
    BY <2>1, <2>2, <1>1, <1>2, CutOut
  <2> QED
    BY <2>3, <1>3
<1> QED
  BY <1>4, <1>5, <1>6, <1>7, <1>8, <1>9 DEF Cuts

(* GetWriteXmlTime pads every field, whether or not the text is as long    *)
(* already: with five fields of one or two digits, a text of nineteen      *)
(* characters has nothing to pad.                                          *)
Padding(x) == Len(x) \in {1, 2} /\ (Len(x) = 2 => Pad(x) = x)

(* GetWriteXmlTime pads the fields of a time to two digits and changes     *)
(* nothing else.                                                           *)
LEMMA Padded ==
  ASSUME NEW y \in Seq(Digits), Len(y) = 4, NEW a \in Seq(Digits), NEW b \in Seq(Digits),
         NEW c \in Seq(Digits), NEW d \in Seq(Digits), NEW e \in Seq(Digits),
         Padding(a), Padding(b), Padding(c), Padding(d), Padding(e)
  PROVE  GetWriteXmlTime(Text(y, a, b, c, d, e)) = Text(y, Pad(a), Pad(b), Pad(c), Pad(d), Pad(e))
<1>1. PICK s : s = Text(y, a, b, c, d, e)
  OBVIOUS
<1>2. PICK i1, i2, i3, i4 : Parts(s, y, a, b, c, d, e, i1, i2, i3, i4)
  BY <1>1, TextParts
<1>3. Located(s, i1, i2, i3, i4)
  BY <1>2, Separators
<1>4. /\ i1 \in Nat /\ i2 \in Nat /\ i3 \in Nat /\ i4 \in Nat /\ Len(s) \in Nat
      /\ 5 < i1 /\ i1 < i2 /\ i2 < i3 /\ i3 < i4 /\ i4 <= Len(s)
  BY <1>3 DEF Located
<1>5. \A i \in 1..Len(s) : /\ s[i] = "-" <=> i \in {5, i1}
                           /\ s[i] = " " <=> i = i2
                           /\ s[i] = ":" <=> i \in {i3, i4}
  BY <1>3 DEF Located
<1>6. 5 \in 1..Len(s) /\ i1 \in 1..Len(s) /\ i2 \in 1..Len(s) /\ i3 \in 1..Len(s) /\ i4 \in 1..Len(s)
  BY <1>4
<1> DEFINE D == {i \in 1..Len(s) : s[i] = "-"}
           B == {i \in 1..Len(s) : s[i] = " "}
           C == {i \in 1..Len(s) : s[i] = ":"}
<1>7. D = {5, i1} /\ B = {i2} /\ C = {i3, i4}
  <2>1. D = {5, i1}
    BY <1>5, <1>6, Zenon
  <2>2. B = {i2}
    BY <1>5, <1>6, Zenon
  <2>3. C = {i3, i4}
    BY <1>5, <1>6, Zenon
  <2> HIDE DEF D, B, C
  <2> QED
    BY <2>1, <2>2, <2>3, Zenon
<1>8. D # {} /\ Max(D) = i1
  <2> HIDE DEF D
  <2>1. D \in SUBSET Nat /\ i1 \in D /\ \A i \in D : i1 >= i
    <3>1. 5 \in Nat /\ i1 \in Nat /\ i1 >= 5 /\ i1 >= i1
      BY <1>4
    <3> QED
      BY <3>1, <1>7, Zenon
  <2> QED
    BY <2>1, GreatestIs
<1>9. B # {} /\ Min(B) = i2
  <2> HIDE DEF B
  <2>1. B \in SUBSET Nat /\ i2 \in B /\ \A i \in B : i2 <= i
    BY <1>4, <1>7
  <2> QED
    BY <2>1, LeastIs
<1>10. C # {} /\ Min(C) = i3 /\ Max(C) = i4
  <2> HIDE DEF C
  <2>1. C \in SUBSET Nat /\ i3 \in C /\ i4 \in C /\ \A i \in C : i3 <= i /\ i4 >= i
    <3>1. i3 \in Nat /\ i4 \in Nat /\ i3 <= i3 /\ i3 <= i4 /\ i4 >= i3 /\ i4 >= i4
      BY <1>4
    <3> QED
      BY <3>1, <1>7, Zenon
  <2>2. C # {} /\ Min(C) = i3
    BY <2>1, LeastIs
  <2>3. Max(C) = i4
    BY <2>1, GreatestIs
  <2> QED
    BY <2>2, <2>3
<1>11. GetWriteXmlTime(s) =
         LET dash  == IF D # {} THEN Max(D) ELSE 0
             blank == IF B # {} THEN Min(B) ELSE 0
             colon == IF C # {} THEN Min(C) ELSE 0
             colon2 == IF C # {} THEN Max(C) ELSE 0
         IN  IF Len(s) = 19
             THEN s
             ELSE Text(SubSeq(s, 1, 4), Pad(SubSeq(s, 6, dash - 1)), Pad(SubSeq(s, dash + 1, blank - 1)),
                       Pad(SubSeq(s, blank + 1, colon - 1)), Pad(SubSeq(s, colon + 1, colon2 - 1)),
                       Pad(SubSeq(s, colon2 + 1, Len(s))))
  BY DEF GetWriteXmlTime, SelectInSeq, SelectLastInSeq, Text
<1> HIDE DEF D, B, C
<1>12. GetWriteXmlTime(s) =
         IF Len(s) = 19
         THEN s
         ELSE Text(SubSeq(s, 1, 4), Pad(SubSeq(s, 6, i1 - 1)), Pad(SubSeq(s, i1 + 1, i2 - 1)),
                   Pad(SubSeq(s, i2 + 1, i3 - 1)), Pad(SubSeq(s, i3 + 1, i4 - 1)),
                   Pad(SubSeq(s, i4 + 1, Len(s))))
  BY <1>8, <1>9, <1>10, <1>11
<1>13. /\ SubSeq(s, 1, 4) = y /\ SubSeq(s, 6, i1 - 1) = a /\ SubSeq(s, i1 + 1, i2 - 1) = b
       /\ SubSeq(s, i2 + 1, i3 - 1) = c /\ SubSeq(s, i3 + 1, i4 - 1) = d
       /\ SubSeq(s, i4 + 1, Len(s)) = e
  <2>1. Cuts(s, y, a, b, c, d, e, i1, i2, i3, i4)
    BY <1>2, FieldsCut
  <2> QED
    BY <2>1 DEF Cuts
<1>14. CASE Len(s) = 19
  <2>1. /\ i1 = 6 + Len(a) /\ i2 = i1 + 1 + Len(b) /\ i3 = i2 + 1 + Len(c) /\ i4 = i3 + 1 + Len(d) /\ Len(s) = i4 + Len(e)
    BY <1>2 DEF Parts
  <2>2. Len(a) \in {1, 2} /\ Len(b) \in {1, 2} /\ Len(c) \in {1, 2} /\ Len(d) \in {1, 2} /\ Len(e) \in {1, 2}
    BY DEF Padding
  <2>3. Len(a) = 2 /\ Len(b) = 2 /\ Len(c) = 2 /\ Len(d) = 2 /\ Len(e) = 2
    <3>1. PICK la, lb, lc, ld, le : la = Len(a) /\ lb = Len(b) /\ lc = Len(c) /\ ld = Len(d) /\ le = Len(e)
      OBVIOUS
    <3>2. la \in {1, 2} /\ lb \in {1, 2} /\ lc \in {1, 2} /\ ld \in {1, 2} /\ le \in {1, 2}
      BY <2>2, <3>1
    <3>3. i1 = 6 + la /\ i2 = i1 + 1 + lb /\ i3 = i2 + 1 + lc /\ i4 = i3 + 1 + ld /\ 19 = i4 + le
      BY <2>1, <3>1, <1>14
    <3>4. la = 2 /\ lb = 2 /\ lc = 2 /\ ld = 2 /\ le = 2
      BY <3>2, <3>3, <1>4, SMT
    <3> QED
      BY <3>1, <3>4
  <2>4. Pad(a) = a /\ Pad(b) = b /\ Pad(c) = c /\ Pad(d) = d /\ Pad(e) = e
    BY <2>3 DEF Padding
  <2> QED
    BY <1>1, <1>12, <1>14, <2>4
<1>15. CASE Len(s) # 19
  BY <1>1, <1>12, <1>13, <1>15
<1> QED
  BY <1>14, <1>15

(* The padded text has its fields in the columns that are read.            *)
LEMMA ColumnsRead ==
  ASSUME NEW y \in Seq(Digits), Len(y) = 4, NEW a \in Seq(Digits), NEW b \in Seq(Digits),
         NEW c \in Seq(Digits), NEW d \in Seq(Digits), NEW e \in Seq(Digits),
         Len(a) = 2, Len(b) = 2, Len(c) = 2, Len(d) = 2, Len(e) = 2
  PROVE  GetTimeStampByStr(Text(y, a, b, c, d, e)) =
           [year |-> atoi(y), mon |-> atoi(a), day |-> atoi(b), hour |-> atoi(c), min |-> atoi(d), sec |-> atoi(e)]
<1>1. PICK s : s = Text(y, a, b, c, d, e)
  OBVIOUS
<1>2. PICK i1, i2, i3, i4 : Parts(s, y, a, b, c, d, e, i1, i2, i3, i4)
  BY <1>1, TextParts
<1>3. i1 = 8 /\ i2 = 11 /\ i3 = 14 /\ i4 = 17 /\ Len(s) = 19
  <2>1. i1 = 6 + Len(a) /\ i2 = i1 + 1 + Len(b) /\ i3 = i2 + 1 + Len(c) /\ i4 = i3 + 1 + Len(d) /\ Len(s) = i4 + Len(e)
    BY <1>2 DEF Parts
  <2> QED
    BY <2>1
<1>4. /\ SubSeq(s, 1, 4) = y /\ SubSeq(s, 6, i1 - 1) = a /\ SubSeq(s, i1 + 1, i2 - 1) = b
      /\ SubSeq(s, i2 + 1, i3 - 1) = c /\ SubSeq(s, i3 + 1, i4 - 1) = d
      /\ SubSeq(s, i4 + 1, Len(s)) = e
  <2>1. Cuts(s, y, a, b, c, d, e, i1, i2, i3, i4)
    BY <1>2, FieldsCut
  <2> QED
    BY <2>1 DEF Cuts
<1>5. /\ SubSeq(s, 1, 4) = y /\ SubSeq(s, 6, 7) = a /\ SubSeq(s, 9, 10) = b /\ SubSeq(s, 12, 13) = c
      /\ SubSeq(s, 15, 16) = d /\ SubSeq(s, 18, 19) = e
  BY <1>3, <1>4
<1>6. GetTimeStampByStr(s) =
        [year |-> atoi(SubSeq(s, 1, 4)), mon |-> atoi(SubSeq(s, 6, 7)), day |-> atoi(SubSeq(s, 9, 10)),
         hour |-> atoi(SubSeq(s, 12, 13)), min |-> atoi(SubSeq(s, 15, 16)), sec |-> atoi(SubSeq(s, 18, 19))]
  BY <1>3 DEF GetTimeStampByStr
<1> QED
  BY <1>1, <1>5, <1>6

(* A time that is an input is read as it was written.                      *)
LEMMA TimeBack ==
  ASSUME Init PROVE TimeReadBack
<1> SUFFICES ASSUME input.alg = "time" PROVE TimeReadBack
  BY DEF TimeReadBack
<1>1. input \in [alg : {"time"}, tm : Tm]
  BY DEF Init
<1>2. PICK t : t = input.tm
  OBVIOUS
<1>3. t \in Tm
  BY <1>1, <1>2
<1>4. /\ t.year \in Years /\ t.mon \in Months /\ t.day \in Days
      /\ t.hour \in Hours /\ t.min \in Minutes /\ t.sec \in Minutes
  BY <1>3 DEF Tm
<1>5. t.year \in Nat /\ t.year >= 1000 /\ t.year < 10000
  <2>1. Years \subseteq 1000..9999
    BY TimeAssumption, SMT
  <2>2. PICK n : n = t.year
    OBVIOUS
  <2>3. n \in Years
    BY <1>4, <2>2, SMT
  <2>4. n \in 1000..9999
    BY <2>1, <2>3, SMT
  <2>5. n \in Nat /\ n >= 1000 /\ n < 10000
    BY <2>4, SMT
  <2> QED
    BY <2>2, <2>5, SMT
<1>6. t.mon \in 0..99 /\ t.day \in 0..99 /\ t.hour \in 0..99 /\ t.min \in 0..99 /\ t.sec \in 0..99
  <2>1. Months \subseteq 0..99 /\ Days \subseteq 0..99 /\ Hours \subseteq 0..99 /\ Minutes \subseteq 0..99
    <3>1. Months \subseteq 1..12 /\ Days \subseteq 1..31 /\ Hours \subseteq 0..23 /\ Minutes \subseteq 0..59
      BY TimeAssumption, SMT
    <3> QED
      BY <3>1, SMT
  <2> QED
    BY <1>4, <2>1, Zenon
<1>7. PICK y, a, b, c, d, e : /\ y = Decimal(t.year) /\ a = Decimal(t.mon) /\ b = Decimal(t.day)
                              /\ c = Decimal(t.hour) /\ d = Decimal(t.min) /\ e = Decimal(t.sec)
  OBVIOUS
<1>8. y \in Seq(Digits) /\ Len(y) = 4 /\ atoi(y) = t.year
  BY <1>5, <1>7, DecimalYear, SMT
<1>9. /\ a \in Seq(Digits) /\ Len(a) \in {1, 2} /\ (Len(a) = 2 => Pad(a) = a)
      /\ Pad(a) \in Seq(Digits) /\ Len(Pad(a)) = 2 /\ atoi(Pad(a)) = t.mon
  BY <1>6, <1>7, DecimalField
<1>10. /\ b \in Seq(Digits) /\ Len(b) \in {1, 2} /\ (Len(b) = 2 => Pad(b) = b)
       /\ Pad(b) \in Seq(Digits) /\ Len(Pad(b)) = 2 /\ atoi(Pad(b)) = t.day
  BY <1>6, <1>7, DecimalField
<1>11. /\ c \in Seq(Digits) /\ Len(c) \in {1, 2} /\ (Len(c) = 2 => Pad(c) = c)
       /\ Pad(c) \in Seq(Digits) /\ Len(Pad(c)) = 2 /\ atoi(Pad(c)) = t.hour
  BY <1>6, <1>7, DecimalField
<1>12. /\ d \in Seq(Digits) /\ Len(d) \in {1, 2} /\ (Len(d) = 2 => Pad(d) = d)
       /\ Pad(d) \in Seq(Digits) /\ Len(Pad(d)) = 2 /\ atoi(Pad(d)) = t.min
  BY <1>6, <1>7, DecimalField
<1>13. /\ e \in Seq(Digits) /\ Len(e) \in {1, 2} /\ (Len(e) = 2 => Pad(e) = e)
       /\ Pad(e) \in Seq(Digits) /\ Len(Pad(e)) = 2 /\ atoi(Pad(e)) = t.sec
  BY <1>6, <1>7, DecimalField
<1>14. Padding(a) /\ Padding(b) /\ Padding(c) /\ Padding(d) /\ Padding(e)
  BY <1>9, <1>10, <1>11, <1>12, <1>13 DEF Padding
<1>15. GetStrFromTime(t) = Text(y, a, b, c, d, e)
  BY <1>7 DEF GetStrFromTime, Text
<1>16. GetWriteXmlTime(Text(y, a, b, c, d, e)) = Text(y, Pad(a), Pad(b), Pad(c), Pad(d), Pad(e))
  <2>1. /\ y \in Seq(Digits) /\ Len(y) = 4 /\ a \in Seq(Digits) /\ b \in Seq(Digits)
        /\ c \in Seq(Digits) /\ d \in Seq(Digits) /\ e \in Seq(Digits)
    BY <1>8, <1>9, <1>10, <1>11, <1>12, <1>13
  <2> QED
    BY <2>1, <1>14, Padded
<1>17. GetTimeStampByStr(Text(y, Pad(a), Pad(b), Pad(c), Pad(d), Pad(e))) =
         [year |-> atoi(y), mon |-> atoi(Pad(a)), day |-> atoi(Pad(b)), hour |-> atoi(Pad(c)),
          min |-> atoi(Pad(d)), sec |-> atoi(Pad(e))]
  <2>1. PICK pa, pb, pc, pd, pe : pa = Pad(a) /\ pb = Pad(b) /\ pc = Pad(c) /\ pd = Pad(d) /\ pe = Pad(e)
    OBVIOUS
  <2>2. /\ y \in Seq(Digits) /\ Len(y) = 4
        /\ pa \in Seq(Digits) /\ pb \in Seq(Digits) /\ pc \in Seq(Digits) /\ pd \in Seq(Digits) /\ pe \in Seq(Digits)
        /\ Len(pa) = 2 /\ Len(pb) = 2 /\ Len(pc) = 2 /\ Len(pd) = 2 /\ Len(pe) = 2
    BY <2>1, <1>8, <1>9, <1>10, <1>11, <1>12, <1>13
  <2>3. GetTimeStampByStr(Text(y, pa, pb, pc, pd, pe)) =
          [year |-> atoi(y), mon |-> atoi(pa), day |-> atoi(pb), hour |-> atoi(pc), min |-> atoi(pd), sec |-> atoi(pe)]
    BY <2>2, ColumnsRead
  <2> QED
    BY <2>1, <2>3
<1>18. t = [year |-> t.year, mon |-> t.mon, day |-> t.day, hour |-> t.hour, min |-> t.min, sec |-> t.sec]
  BY <1>3 DEF Tm
<1> QED
  BY <1>2, <1>8, <1>9, <1>10, <1>11, <1>12, <1>13, <1>15, <1>16, <1>17, <1>18 DEF TimeReadBack

(* A null bit stands in a byte that exists.                                *)
LEMMA BitPlace ==
  ASSUME NEW w \in Nat, NEW bit \in Nat, bit < w
  PROVE  /\ bit % ByteBits \in 0..(ByteBits - 1)
         /\ bit \div ByteBits \in Nat
         /\ (bit \div ByteBits) * ByteBits + (bit % ByteBits) = bit
         /\ BitmapLen(w) \in Nat /\ (bit \div ByteBits) + 1 \in 1..BitmapLen(w)
<1>1. PICK B : B = ByteBits
  OBVIOUS
<1>2. B \in Nat /\ B >= 1
  <2>1. ByteBits \in Nat \ {0}
    BY RowsAssumption
  <2> QED
    BY <2>1, <1>1
<1>3. PICK q, r, t, p, z : q = bit \div B /\ r = bit % B /\ t = w + B - 1 /\ p = t \div B /\ z = t % B
  OBVIOUS
<1>4. t \in Nat /\ bit + B <= t
  BY <1>2, <1>3
<1>5. q \in Nat /\ r \in 0..(B - 1) /\ bit = B * q + r
  BY <1>2, <1>3
<1>6. p \in Nat /\ z \in 0..(B - 1) /\ t = B * p + z
  BY <1>2, <1>3, <1>4
<1>7. q * B = B * q
  BY <1>2, <1>5
<1>8. q + 1 <= p
  <2> SUFFICES ASSUME p <= q PROVE FALSE
    BY <1>5, <1>6
  <2>1. B * p <= B * q
    BY <1>2, <1>5, <1>6
  <2> QED
    BY <2>1, <1>2, <1>4, <1>5, <1>6
<1>9. BitmapLen(w) = p
  BY <1>1, <1>3 DEF BitmapLen
<1>10. q * B + r = bit /\ p \in Nat /\ q + 1 \in 1..p
  BY <1>5, <1>6, <1>7, <1>8
<1>11. q = bit \div ByteBits /\ r = bit % ByteBits
  BY <1>1, <1>3
<1> QED
  BY <1>1, <1>5, <1>9, <1>10, <1>11

(* The columns of an image up to the i-th column of the table.             *)
Taken(cols, i) == {j \in 1..i : cols[j]}

(* The columns taken grow by one at each column of the image, up to its    *)
(* width.                                                                  *)
LEMMA TakenColumns ==
  ASSUME NEW m \in Nat, NEW cols \in [1..m -> BOOLEAN]
  PROVE  /\ \A i \in 0..m : Cardinality(Taken(cols, i)) \in Nat /\ Cardinality(Taken(cols, i)) <= Width(cols)
         /\ Cardinality(Taken(cols, 0)) = 0
         /\ Cardinality(Taken(cols, m)) = Width(cols)
         /\ \A i \in 1..m : Cardinality(Taken(cols, i)) =
                              Cardinality(Taken(cols, i - 1)) + (IF cols[i] THEN 1 ELSE 0)
<1>1. \A i \in 0..m : IsFiniteSet(Taken(cols, i))
  <2> SUFFICES ASSUME NEW i \in 0..m PROVE IsFiniteSet(Taken(cols, i))
    OBVIOUS
  <2>1. IsFiniteSet(1..i)
    BY FS_Interval
  <2>2. Taken(cols, i) \subseteq 1..i
    BY DEF Taken
  <2> QED
    BY <2>1, <2>2, FS_Subset
<1>2. Width(cols) = Cardinality(Taken(cols, m))
  <2>1. {i \in DOMAIN cols : cols[i]} = Taken(cols, m)
    BY DEF Taken
  <2> QED
    BY <2>1 DEF Width
<1>3. ASSUME NEW i \in 0..m
      PROVE  Cardinality(Taken(cols, i)) \in Nat /\ Cardinality(Taken(cols, i)) <= Width(cols)
  <2>1. Taken(cols, i) \subseteq Taken(cols, m)
    BY DEF Taken
  <2>2. m \in 0..m
    OBVIOUS
  <2> QED
    BY <2>1, <2>2, <1>1, <1>2, FS_CardinalityType, FS_Subset
<1>4. Cardinality(Taken(cols, 0)) = 0
  <2>1. Taken(cols, 0) = {}
    BY DEF Taken
  <2> QED
    BY <2>1, FS_EmptySet
<1>5. ASSUME NEW i \in 1..m
      PROVE  Cardinality(Taken(cols, i)) = Cardinality(Taken(cols, i - 1)) + (IF cols[i] THEN 1 ELSE 0)
  <2>1. i - 1 \in 0..m /\ i \in 0..m
    OBVIOUS
  <2>2. CASE cols[i]
    <3>1. Taken(cols, i) = Taken(cols, i - 1) \cup {i} /\ i \notin Taken(cols, i - 1)
      BY <2>2 DEF Taken
    <3> QED
      BY <3>1, <2>1, <2>2, <1>1, FS_AddElement
  <2>3. CASE ~cols[i]
    <3>1. Taken(cols, i) = Taken(cols, i - 1)
      BY <2>3 DEF Taken
    <3>2. Cardinality(Taken(cols, i - 1)) \in Nat
      BY <2>1, <1>3
    <3> QED
      BY <3>1, <3>2, <2>3
  <2> QED
    BY <2>2, <2>3
<1> QED
  BY <1>2, <1>3, <1>4, <1>5

(* The values of an image and the units of an event.                       *)
RowValues == (Nat \X Nat) \cup {NullValue}
EventUnits == [nulls : SUBSET Nat, value : RowValues \cup {"bitmap", "crc32"}]

(* The k-th byte of an image's null bits.                                  *)
NullBits(image, k) ==
  {j \in 0..(ByteBits - 1) : (k - 1) * ByteBits + j < Len(image) /\ image[(k - 1) * ByteBits + j + 1] = NullValue}

(* Where the null bits and the values of an image stand among its units:   *)
(* v counts the values that are not null.                                  *)
Imaged(image, w, v) ==
  /\ v \in [0..w -> Nat] /\ v[0] = 0
  /\ \A k \in 1..w : v[k] = v[k - 1] + (IF image[k] = NullValue THEN 0 ELSE 1)
  /\ ImageUnits(image) \in Seq(EventUnits)
  /\ Len(ImageUnits(image)) = BitmapLen(w) + v[w]
  /\ BitmapLen(w) \in Nat \ {0}
  /\ \A k \in 1..BitmapLen(w) : ImageUnits(image)[k].nulls = NullBits(image, k)
  /\ \A k \in 1..w : image[k] # NullValue =>
       v[k] \in 1..(v[w]) /\ ImageUnits(image)[BitmapLen(w) + v[k]].value = image[k]

(* The units of an image are its null bits and its values, each at its own *)
(* place.                                                                  *)
LEMMA ImageParts ==
  ASSUME NEW w \in Nat \ {0}, NEW image \in Seq(RowValues), Len(image) = w
  PROVE  \E v : Imaged(image, w, v)
<1>1. DOMAIN image = 1..w /\ \A k \in 1..w : image[k] \in RowValues
  BY LenProperties, ElementOfSeq
<1>2. PICK n : n = BitmapLen(w)
  OBVIOUS
<1>3. n \in Nat \ {0}
  <2>1. BitmapLen(w) \in Nat /\ (0 \div ByteBits) + 1 \in 1..BitmapLen(w) /\ 0 \div ByteBits \in Nat
    BY BitPlace
  <2> QED
    BY <2>1, <1>2
<1>4. PICK bm, seqs : /\ bm = [k \in 1..n |-> Unit(NullBits(image, k), "bitmap")]
                      /\ seqs = [k \in 1..w |-> IF image[k] = NullValue THEN <<>> ELSE <<Unit({}, image[k])>>]
  OBVIOUS
<1>5. \A k \in 1..n : Unit(NullBits(image, k), "bitmap") \in EventUnits
  <2> SUFFICES ASSUME NEW k \in 1..n PROVE Unit(NullBits(image, k), "bitmap") \in EventUnits
    OBVIOUS
  <2>1. NullBits(image, k) \in SUBSET Nat
    <3>1. ByteBits \in Nat
      BY RowsAssumption
    <3>2. 0..(ByteBits - 1) \subseteq Nat
      BY <3>1
    <3> QED
      BY <3>2 DEF NullBits
  <2> QED
    BY <2>1 DEF Unit, EventUnits
<1>6. bm \in Seq(EventUnits) /\ Len(bm) = n /\ \A k \in 1..n : bm[k].nulls = NullBits(image, k)
  <2>1. bm \in [1..n -> EventUnits]
    BY <1>4, <1>5
  <2>2. bm \in Seq(EventUnits) /\ Len(bm) = n
    BY <2>1, <1>3
  <2>3. \A k \in 1..n : bm[k] = Unit(NullBits(image, k), "bitmap")
    BY <1>4
  <2> QED
    BY <2>2, <2>3 DEF Unit
<1>7. seqs \in Seq(Seq(EventUnits)) /\ Len(seqs) = w /\ seqs # <<>>
  <2>1. ASSUME NEW k \in 1..w PROVE seqs[k] \in Seq(EventUnits)
    <3>1. Unit({}, image[k]) \in EventUnits
      BY <1>1 DEF Unit, EventUnits
    <3>2. <<Unit({}, image[k])>> \in Seq(EventUnits) /\ <<>> \in Seq(EventUnits)
      BY <3>1
    <3> QED
      BY <3>2, <1>4
  <2>2. seqs \in [1..w -> Seq(EventUnits)]
    BY <2>1, <1>4
  <2>3. seqs \in Seq(Seq(EventUnits)) /\ Len(seqs) = w
    BY <2>2
  <2> QED
    BY <2>3
<1>8. PICK v, fl : Flattens(seqs, EventUnits, v) /\ fl = FlattenSeq(seqs)
  BY <1>7, Flattened
<1>9. /\ v \in [0..w -> Nat] /\ v[0] = 0
      /\ \A i \in 1..w : v[i] = v[i - 1] + Len(seqs[i])
      /\ \A i \in 1..w : \A j \in i..w : v[i] <= v[j]
      /\ fl \in Seq(EventUnits) /\ Len(fl) = v[w]
      /\ \A i \in 1..w : \A k \in 1..Len(seqs[i]) : fl[v[i - 1] + k] = seqs[i][k]
  BY <1>7, <1>8 DEF Flattens
<1>10. ASSUME NEW k \in 1..w PROVE Len(seqs[k]) = IF image[k] = NullValue THEN 0 ELSE 1
  BY <1>4
<1>11. \A k \in 1..w : v[k] = v[k - 1] + (IF image[k] = NullValue THEN 0 ELSE 1)
  <2> SUFFICES ASSUME NEW k \in 1..w
               PROVE  v[k] = v[k - 1] + (IF image[k] = NullValue THEN 0 ELSE 1)
    OBVIOUS
  <2>1. v[k] = v[k - 1] + Len(seqs[k])
    BY <1>9, Zenon
  <2> QED
    BY <2>1, <1>10, Zenon
<1>12. PICK u : u = bm \o fl
  OBVIOUS
<1>13. u = ImageUnits(image)
  BY <1>1, <1>2, <1>4, <1>8, <1>12 DEF ImageUnits, NullBits
<1>14. bm \in Seq(EventUnits) /\ fl \in Seq(EventUnits)
  BY <1>6, <1>9
<1>15. /\ u \in Seq(EventUnits) /\ Len(u) = Len(bm) + Len(fl)
       /\ \A i \in 1..(Len(bm) + Len(fl)) : u[i] = IF i <= Len(bm) THEN bm[i] ELSE fl[i - Len(bm)]
  BY <1>12, <1>14, ConcatProperties
<1>16. v[w] \in Nat /\ Len(bm) = n /\ Len(fl) = v[w]
  BY <1>6, <1>9
<1>17. \A k \in 1..n : u[k].nulls = NullBits(image, k)
  <2>1. \A k \in 1..n : k \in 1..(Len(bm) + Len(fl)) /\ k <= Len(bm)
    BY <1>3, <1>16
  <2>2. \A k \in 1..n : u[k] = bm[k]
    BY <2>1, <1>15
  <2> QED
    BY <2>2, <1>6
<1>18. ASSUME NEW k \in 1..w, image[k] # NullValue
       PROVE  v[k] \in 1..(v[w]) /\ u[n + v[k]].value = image[k]
  <2>1. k \in 0..w /\ k - 1 \in 0..w /\ w \in k..w
    OBVIOUS
  <2>2. v[k] \in Nat /\ v[k - 1] \in Nat /\ v[k] = v[k - 1] + 1 /\ v[k] <= v[w]
    BY <2>1, <1>9, <1>11, <1>18
  <2>3. v[k] \in 1..(v[w])
    BY <2>2, <1>16
  <2>4. Len(seqs[k]) = 1 /\ seqs[k][1] = Unit({}, image[k])
    BY <1>4, <1>18
  <2>5. fl[v[k]] = Unit({}, image[k])
    <3>1. fl[v[k - 1] + 1] = seqs[k][1]
      <4>1. 1 \in 1..Len(seqs[k])
        BY <2>4
      <4>2. \A x \in 1..Len(seqs[k]) : fl[v[k - 1] + x] = seqs[k][x]
        BY <1>9
      <4> QED
        BY <4>1, <4>2
    <3> QED
      BY <3>1, <2>2, <2>4
  <2>6. u[n + v[k]] = fl[v[k]]
    <3>1. PICK i, x : i = n + v[k] /\ x = v[k]
      OBVIOUS
    <3>2. i \in 1..(Len(bm) + Len(fl)) /\ ~(i <= Len(bm)) /\ i - Len(bm) = x
      <4>1. PICK a, b : a = Len(bm) /\ b = Len(fl)
        OBVIOUS
      <4>2. a = n /\ n \in Nat /\ b \in Nat /\ x \in 1..b /\ i = n + x
        BY <4>1, <3>1, <2>3, <1>3, <1>16
      <4>3. i \in 1..(a + b) /\ ~(i <= a) /\ i - a = x
        BY <4>2
      <4> QED
        BY <4>1, <4>3, Zenon
    <3> QED
      BY <3>1, <3>2, <1>15
  <2> QED
    BY <2>3, <2>5, <2>6 DEF Unit
<1>19. Imaged(image, w, v)
  BY <1>2, <1>3, <1>9, <1>11, <1>13, <1>15, <1>16, <1>17, <1>18 DEF Imaged
<1> QED
  BY <1>19

(* What is appended to s and t is appended to t behind s.                  *)
AppendsBehind(s, t, x) == Append(s \o t, x) = s \o Append(t, x)

(* Append and concatenation may change places.                             *)
LEMMA AppendToConcat ==
  ASSUME NEW T, NEW s \in Seq(T), NEW t \in Seq(T), NEW x \in T
  PROVE  AppendsBehind(s, t, x)
<1>1. PICK h : h = <<x>>
  OBVIOUS
<1>2. h \in Seq(T)
  BY <1>1
<1>3. \A u \in Seq(T) : Append(u, x) = u \o h
  <2> SUFFICES ASSUME NEW u \in Seq(T) PROVE Append(u, x) = u \o h
    OBVIOUS
  <2>1. PICK n : n = Len(u)
    OBVIOUS
  <2>2. n \in Nat
    BY <2>1, LenProperties
  <2>3. Append(u, x) \in Seq(T) /\ Len(Append(u, x)) = n + 1
          /\ \A i \in 1..(n + 1) : Append(u, x)[i] = IF i = n + 1 THEN x ELSE u[i]
    BY <2>1, <2>2
  <2>4. u \o h \in Seq(T) /\ Len(u \o h) = n + 1 /\ (\A i \in 1..n : (u \o h)[i] = u[i]) /\ (u \o h)[n + 1] = x
    BY <1>1, <2>1, Extended
  <2>5. PICK p, q : p = Append(u, x) /\ q = u \o h
    OBVIOUS
  <2>6. \A i \in 1..(n + 1) : p[i] = q[i]
    <3> SUFFICES ASSUME NEW i \in 1..(n + 1) PROVE p[i] = q[i]
      OBVIOUS
    <3>1. CASE i = n + 1
      BY <3>1, <2>2, <2>3, <2>4, <2>5
    <3>2. CASE i # n + 1
      <4>1. i \in 1..n
        BY <3>2, <2>2
      <4> QED
        BY <4>1, <3>2, <2>3, <2>4, <2>5
    <3> QED
      BY <3>1, <3>2
  <2>7. p \in Seq(T) /\ q \in Seq(T) /\ Len(p) = Len(q) /\ \A i \in 1..Len(p) : p[i] = q[i]
    BY <2>3, <2>4, <2>5, <2>6
  <2> QED
    BY <2>5, <2>7, SeqEqual
<1>4. s \o t \in Seq(T)
  BY ConcatProperties
<1>5. Append(s \o t, x) = (s \o t) \o h /\ Append(t, x) = t \o h
  BY <1>3, <1>4
<1>6. (s \o t) \o h = s \o (t \o h)
  BY <1>2, ConcatAssociative
<1> QED
  BY <1>5, <1>6 DEF AppendsBehind

(* The units of an image stand in the event from start.                    *)
Holds(units, start, image) == \A k \in 1..Len(ImageUnits(image)) : units[start + k - 1] = ImageUnits(image)[k]

Prints(units, start, values, cols, image) ==
  printOneRow(units, start, values, cols) =
    [pos |-> start + Len(ImageUnits(image)), bit |-> Len(image), values |-> values \o image]

(* printOneRow reads an image as it was written: the null bit and the      *)
(* value of every column of the image are its own, and the position ends   *)
(* behind it.                                                              *)
LEMMA RowPrinted ==
  ASSUME NEW m \in Nat, NEW cols \in [1..m -> BOOLEAN], NEW w \in Nat \ {0}, w = Width(cols),
         NEW image \in Seq(RowValues), Len(image) = w,
         NEW units, NEW start \in Nat, Holds(units, start, image),
         NEW values \in Seq(RowValues)
  PROVE  Prints(units, start, values, cols, image)
<1>1. PICK v : Imaged(image, w, v)
  BY ImageParts
<1>2. PICK n, iu : n = BitmapLen(w) /\ iu = ImageUnits(image)
  OBVIOUS
<1>3. /\ v \in [0..w -> Nat] /\ v[0] = 0
      /\ \A k \in 1..w : v[k] = v[k - 1] + (IF image[k] = NullValue THEN 0 ELSE 1)
      /\ Len(iu) = n + v[w]
      /\ n \in Nat \ {0}
      /\ \A k \in 1..n : iu[k].nulls = NullBits(image, k)
      /\ \A k \in 1..w : image[k] # NullValue => v[k] \in 1..(v[w]) /\ iu[n + v[k]].value = image[k]
  BY <1>1, <1>2 DEF Imaged
<1>4. v[w] \in Nat
  BY <1>3
<1>5. \A k \in 1..(n + v[w]) : units[start + k - 1] = iu[k]
  BY <1>2, <1>3 DEF Holds
<1> DEFINE c(i) == Cardinality(Taken(cols, i))
<1>6. /\ \A i \in 0..m : c(i) \in Nat /\ c(i) <= w
      /\ c(0) = 0 /\ c(m) = w
      /\ \A i \in 1..m : c(i) = c(i - 1) + (IF cols[i] THEN 1 ELSE 0)
  BY TakenColumns
<1> HIDE DEF c
<1> DEFINE isNull(bit) == bit % ByteBits \in units[start + (bit \div ByteBits)].nulls
<1>7. ASSUME NEW bit \in Nat, bit < w PROVE isNull(bit) <=> image[bit + 1] = NullValue
  <2>1. PICK q, r : q = bit \div ByteBits /\ r = bit % ByteBits
    OBVIOUS
  <2>2. r \in 0..(ByteBits - 1) /\ q \in Nat /\ q * ByteBits + r = bit /\ q + 1 \in 1..n
    BY <1>2, <1>7, <2>1, BitPlace
  <2>3. units[start + q] = iu[q + 1]
    <3>1. q + 1 \in 1..(n + v[w]) /\ start + (q + 1) - 1 = start + q
      BY <2>2, <1>3, <1>4
    <3> QED
      BY <3>1, <1>5
  <2>4. iu[q + 1].nulls = NullBits(image, q + 1)
    BY <2>2, <1>3
  <2>5. (q + 1) - 1 = q
    BY <2>2
  <2>6. r \in NullBits(image, q + 1) <=> q * ByteBits + r < Len(image) /\ image[q * ByteBits + r + 1] = NullValue
    BY <2>2, <2>5 DEF NullBits
  <2>7. r \in NullBits(image, q + 1) <=> image[bit + 1] = NullValue
    BY <2>2, <2>6, <1>7
  <2> QED
    BY <2>1, <2>3, <2>4, <2>7
<1> HIDE DEF isNull
<1> DEFINE Turn(row, i) ==
             IF i = 0 THEN [pos |-> start + BitmapLen(Width(cols)), bit |-> 0, values |-> values]
             ELSE LET last == row[i - 1]
                  IN  IF cols[i]
                      THEN [parseOneRowData(units, last, isNull(last.bit)) EXCEPT !.bit = @ + 1]
                      ELSE last
           closed == [i \in 0..m |-> [pos |-> start + n + v[c(i)], bit |-> c(i), values |-> values \o SubSeq(image, 1, c(i))]]
           row == CHOOSE f : f = [i \in 0..m |-> Turn(f, i)]
<1>8. closed[0] = [pos |-> start + n, bit |-> 0, values |-> values]
  <2>1. SubSeq(image, 1, 0) = <<>>
    BY SubSeqEmpty
  <2>2. values \o <<>> = values
    BY ConcatEmptySeq
  <2>3. start + n + v[0] = start + n
    BY <1>3
  <2>4. 0 \in 0..m
    OBVIOUS
  <2>5. closed[0] = [pos |-> start + n + v[c(0)], bit |-> c(0), values |-> values \o SubSeq(image, 1, c(0))]
    BY <2>4
  <2>6. c(0) = 0
    BY <1>6
  <2> HIDE DEF closed
  <2>7. closed[0] = [pos |-> start + n + v[0], bit |-> 0, values |-> values \o SubSeq(image, 1, 0)]
    BY <2>5, <2>6, Zenon
  <2> QED
    BY <2>1, <2>2, <2>3, <2>7, Zenon
<1>9. ASSUME NEW i \in 1..m PROVE closed[i] = Turn(closed, i)
  <2>1. i \in 0..m /\ i - 1 \in 0..m /\ i # 0
    OBVIOUS
  <2>2. PICK b, last : b = c(i - 1) /\ last = closed[i - 1]
    OBVIOUS
  <2>3. last = [pos |-> start + n + v[b], bit |-> b, values |-> values \o SubSeq(image, 1, b)]
    BY <2>1, <2>2
  <2>4. b \in Nat /\ b <= w /\ v[b] \in Nat
    BY <2>1, <2>2, <1>3, <1>6
  <2>5. closed[i] = [pos |-> start + n + v[c(i)], bit |-> c(i), values |-> values \o SubSeq(image, 1, c(i))]
    BY <2>1
  <2>6. Turn(closed, i) = IF cols[i]
                          THEN [parseOneRowData(units, last, isNull(last.bit)) EXCEPT !.bit = @ + 1]
                          ELSE last
    BY <2>1, <2>2
  <2> HIDE DEF closed, Turn
  <2>7. CASE ~cols[i]
    <3>1. c(i) = b
      BY <2>2, <2>4, <2>7, <1>6
    <3> QED
      BY <3>1, <2>3, <2>5, <2>6, <2>7
  <2>8. CASE cols[i]
    <3>1. c(i) = b + 1 /\ b < w /\ b + 1 \in 1..w
      BY <2>1, <2>2, <2>4, <2>8, <1>6
    <3>2. isNull(b) <=> image[b + 1] = NullValue
      BY <3>1, <2>4, <1>7
    <3>3. v[b + 1] = v[b] + (IF image[b + 1] = NullValue THEN 0 ELSE 1)
      <4>1. (b + 1) - 1 = b
        BY <2>4
      <4>2. v[b + 1] = v[(b + 1) - 1] + (IF image[b + 1] = NullValue THEN 0 ELSE 1)
        BY <3>1, <1>3
      <4> QED
        BY <4>1, <4>2
    <3>4. PICK pre, x : pre = SubSeq(image, 1, b) /\ x = image[b + 1]
      OBVIOUS
    <3>5. pre \in Seq(RowValues) /\ x \in RowValues /\ Append(pre, x) = SubSeq(image, 1, b + 1)
      <4>1. b + 1 \in 1..Len(image) /\ (b + 1) - 1 = b
        BY <3>1, <2>4
      <4>2. x \in RowValues
        BY <4>1, <3>4, ElementOfSeq
      <4>3. Append(SubSeq(image, 1, (b + 1) - 1), image[b + 1]) = SubSeq(image, 1, b + 1)
        BY <4>1, PrefixGrown
      <4>4. \A k \in 1..b : image[k] \in RowValues
        <5>1. \A k \in 1..b : k \in 1..Len(image)
          BY <4>1, <2>4
        <5> QED
          BY <5>1, ElementOfSeq
      <4>5. pre \in Seq(RowValues)
        BY <4>4, <3>4, <2>4, SubSeqProperties
      <4> QED
        BY <4>1, <4>2, <4>3, <4>5, <3>4
    <3>6. Append(values \o pre, x) = values \o SubSeq(image, 1, b + 1)
      <4>1. pre \in Seq(RowValues) /\ x \in RowValues
        BY <3>5, Zenon
      <4>2. Append(values \o pre, x) = values \o Append(pre, x)
        <5>1. AppendsBehind(values, pre, x)
          BY <4>1, AppendToConcat
        <5> QED
          BY <5>1 DEF AppendsBehind
      <4> QED
        BY <4>2, <3>5, Zenon
    <3>7. last.pos = start + n + v[b] /\ last.bit = b /\ last.values = values \o pre
      BY <2>3, <3>4
    <3>8. PICK p : p = parseOneRowData(units, last, isNull(b))
      OBVIOUS
    <3>9. p = [pos |-> start + n + v[b + 1], bit |-> b, values |-> Append(values \o pre, x)]
      <4>1. CASE image[b + 1] = NullValue
        <5>1. v[b + 1] = v[b]
          BY <4>1, <3>3, <2>4
        <5>2. isNull(b) /\ x = NullValue
          BY <4>1, <3>2, <3>4
        <5>3. p = [last EXCEPT !.values = Append(@, NullValue), !.pos = @]
          BY <5>2, <3>8 DEF parseOneRowData
        <5> QED
          BY <5>1, <5>2, <5>3, <2>3, <3>4
      <4>2. CASE image[b + 1] # NullValue
        <5>1. v[b + 1] = v[b] + 1
          BY <4>2, <3>3
        <5>2. ~isNull(b)
          BY <4>2, <3>2
        <5>3. units[last.pos].value = x
          <6>1. v[b + 1] \in 1..(v[w]) /\ iu[n + v[b + 1]].value = x
            BY <4>2, <3>1, <3>4, <1>3
          <6>2. PICK k : k = n + v[b + 1]
            OBVIOUS
          <6>3. k \in 1..(n + v[w]) /\ start + k - 1 = start + n + v[b]
            <7>1. PICK y, z : y = v[b] /\ z = v[w]
              OBVIOUS
            <7>2. y \in Nat /\ z \in Nat /\ n \in Nat /\ y + 1 \in 1..z /\ k = n + (y + 1)
              BY <7>1, <6>1, <6>2, <5>1, <1>3, <1>4, <2>4
            <7>3. k \in 1..(n + z) /\ start + k - 1 = start + n + y
              BY <7>2
            <7> QED
              BY <7>1, <7>3, Zenon
          <6>4. units[start + k - 1] = iu[k]
            BY <6>3, <1>5
          <6> QED
            BY <6>1, <6>2, <6>3, <6>4, <3>7
        <5>4. p = [last EXCEPT !.values = Append(@, x), !.pos = @ + 1]
          BY <5>2, <5>3, <3>8 DEF parseOneRowData
        <5>5. start + n + v[b] + 1 = start + n + v[b + 1]
          BY <5>1, <2>4, <1>3
        <5> QED
          BY <5>4, <5>5, <2>3, <3>4
      <4> QED
        BY <4>1, <4>2
    <3>10. [p EXCEPT !.bit = @ + 1] = [pos |-> start + n + v[b + 1], bit |-> b + 1, values |-> Append(values \o pre, x)]
      <4>1. PICK y, z : y = start + n + v[b + 1] /\ z = Append(values \o pre, x)
        OBVIOUS
      <4>2. p = [pos |-> y, bit |-> b, values |-> z]
        BY <4>1, <3>9, Zenon
      <4>3. [p EXCEPT !.bit = @ + 1] = [pos |-> y, bit |-> b + 1, values |-> z]
        BY <4>2
      <4> QED
        BY <4>1, <4>3, Zenon
    <3> QED
      BY <3>1, <3>6, <3>7, <3>8, <3>10, <2>5, <2>6, <2>8
  <2> QED
    BY <2>7, <2>8
<1>10. closed = [i \in 0..m |-> Turn(closed, i)]
  <2>1. ASSUME NEW i \in 0..m PROVE closed[i] = Turn(closed, i)
    <3> HIDE DEF closed
    <3>1. CASE i = 0
      BY <3>1, <1>2, <1>8
    <3>2. CASE i # 0
      <4>1. i \in 1..m
        BY <3>2
      <4> QED
        BY <4>1, <1>9
    <3> QED
      BY <3>1, <3>2
  <2>2. closed = [i \in 0..m |-> closed[i]]
    OBVIOUS
  <2> HIDE DEF closed, Turn
  <2> QED
    BY <2>1, <2>2
<1>11. row = [i \in 0..m |-> Turn(row, i)]
  <2> HIDE DEF closed, Turn
  <2> QED
    BY <1>10
<1>12. Len(cols) = m
  OBVIOUS
<1>13. printOneRow(units, start, values, cols) = row[m]
  BY <1>12 DEF printOneRow, isNull
<1> HIDE DEF closed, row
<1>14. \A i \in 0..m : row[i] = closed[i]
  <2>1. row[0] = closed[0]
    <3>1. 0 \in 0..m
      OBVIOUS
    <3>2. row[0] = Turn(row, 0) /\ closed[0] = Turn(closed, 0)
      <4> HIDE DEF Turn
      <4> QED
        BY <3>1, <1>10, <1>11
    <3> QED
      BY <3>2
  <2>2. ASSUME NEW i \in 1..m, row[i - 1] = closed[i - 1] PROVE row[i] = closed[i]
    <3>1. i \in 0..m
      OBVIOUS
    <3>2. row[i] = Turn(row, i) /\ closed[i] = Turn(closed, i)
      <4> HIDE DEF Turn
      <4> QED
        BY <3>1, <1>10, <1>11
    <3> QED
      BY <3>2, <2>2
  <2>3. GoOnAlike(row, closed, m)
    BY <2>1, <2>2 DEF GoOnAlike
  <2> QED
    BY <2>3, Unrolled
<1>15. row[m] = [pos |-> start + n + v[w], bit |-> w, values |-> values \o SubSeq(image, 1, w)]
  <2>1. m \in 0..m
    OBVIOUS
  <2>2. row[m] = closed[m]
    BY <2>1, <1>14
  <2>3. closed[m] = [pos |-> start + n + v[c(m)], bit |-> c(m), values |-> values \o SubSeq(image, 1, c(m))]
    BY <2>1 DEF closed
  <2> QED
    BY <2>2, <2>3, <1>6
<1>16. SubSeq(image, 1, w) = image
  BY SubSeqFull
<1>17. start + n + v[w] = start + Len(ImageUnits(image))
  BY <1>2, <1>3, <1>4
<1> QED
  BY <1>13, <1>15, <1>16, <1>17 DEF Prints

(* Turns of parseEvent's loop: st holds what is read after each of them,   *)
(* and after m turns all but the checksum is read.                         *)
Turns(units, update, cols, m, st) ==
  /\ st[0] = [before |-> <<>>, after |-> <<>>, pos |-> 1]
  /\ \A j \in 1..m : ~(st[j - 1].pos >= Len(units)) /\ st[j] = ParseRow(units, update, cols, st[j - 1])
  /\ st[m].pos >= Len(units)

EndsWith(units, update, cols, rows) == parseEvent(units, update, cols) = rows

(* parseEvent ends with what is read after the last turn.                  *)
LEMMA LoopEnds ==
  ASSUME NEW units, NEW update, NEW cols, NEW m \in Nat, NEW st,
         Len(units) \in Nat, m <= Len(units), Turns(units, update, cols, m, st)
  PROVE  EndsWith(units, update, cols, st[m])
<1>1. PICK n : n = Len(units)
  OBVIOUS
<1>2. n \in Nat /\ m <= n
  BY <1>1
<1> DEFINE Turn(rows, i) ==
             IF i = 0 THEN [before |-> <<>>, after |-> <<>>, pos |-> 1]
             ELSE LET last == rows[i - 1]
                  IN  IF last.pos >= Len(units) THEN last ELSE ParseRow(units, update, cols, last)
           closed == [i \in 0..n |-> IF i <= m THEN st[i] ELSE st[m]]
           rows == CHOOSE f : f = [i \in 0..n |-> Turn(f, i)]
<1>3. ASSUME NEW i \in 0..n PROVE closed[i] = Turn(closed, i)
  <2>1. CASE i = 0
    <3>1. closed[0] = st[0]
      BY <1>2
    <3> QED
      BY <3>1, <2>1 DEF Turns
  <2>2. CASE i # 0 /\ i <= m
    <3>1. i \in 1..m /\ i - 1 \in 0..n /\ i - 1 <= m
      BY <2>2, <1>2
    <3>2. closed[i] = st[i] /\ closed[i - 1] = st[i - 1]
      BY <3>1, <2>2
    <3>3. ~(st[i - 1].pos >= Len(units)) /\ st[i] = ParseRow(units, update, cols, st[i - 1])
      BY <3>1 DEF Turns
    <3> HIDE DEF closed
    <3> QED
      BY <3>2, <3>3, <2>2
  <2>3. CASE i > m
    <3>1. i # 0 /\ i - 1 \in 0..n /\ ~(i <= m)
      BY <2>3, <1>2
    <3>2. closed[i] = st[m] /\ closed[i - 1] = st[m]
      <4>1. i - 1 <= m => i - 1 = m
        BY <2>3, <1>2
      <4> QED
        BY <4>1, <3>1
    <3>3. st[m].pos >= Len(units)
      BY DEF Turns
    <3> HIDE DEF closed
    <3> QED
      BY <3>1, <3>2, <3>3
  <2> QED
    BY <2>1, <2>2, <2>3, <1>2
<1>4. closed = [i \in 0..n |-> Turn(closed, i)]
  <2>1. closed = [i \in 0..n |-> closed[i]]
    OBVIOUS
  <2> HIDE DEF closed, Turn
  <2> QED
    BY <1>3, <2>1
<1>5. rows = [i \in 0..n |-> Turn(rows, i)]
  <2> HIDE DEF closed, Turn
  <2> QED
    BY <1>4
<1>6. parseEvent(units, update, cols) = rows[n]
  BY <1>1 DEF parseEvent
<1> HIDE DEF closed, rows
<1>7. \A i \in 0..n : rows[i] = closed[i]
  <2>1. \A i \in 0..n : rows[i] = Turn(rows, i) /\ closed[i] = Turn(closed, i)
    <3> HIDE DEF Turn
    <3> QED
      BY <1>4, <1>5
  <2>2. rows[0] = closed[0]
    <3>1. 0 \in 0..n
      BY <1>2
    <3>2. rows[0] = Turn(rows, 0) /\ closed[0] = Turn(closed, 0)
      <4> HIDE DEF Turn
      <4> QED
        BY <2>1, <3>1
    <3> QED
      BY <3>2
  <2>3. ASSUME NEW i \in 1..n, rows[i - 1] = closed[i - 1] PROVE rows[i] = closed[i]
    <3>1. i \in 0..n
      BY <1>2
    <3>2. rows[i] = Turn(rows, i) /\ closed[i] = Turn(closed, i)
      <4> HIDE DEF Turn
      <4> QED
        BY <2>1, <3>1
    <3> QED
      BY <3>2, <2>3
  <2>4. GoOnAlike(rows, closed, n)
    BY <2>2, <2>3 DEF GoOnAlike
  <2> QED
    <3>1. n \in Nat
      BY <1>2
    <3>2. PICK f, g : f = rows /\ g = closed
      OBVIOUS
    <3>3. GoOnAlike(f, g, n)
      BY <2>4, <3>2, Zenon
    <3>4. \A i \in 0..n : f[i] = g[i]
      BY <3>1, <3>3, Unrolled
    <3> QED
      BY <3>2, <3>4, Zenon
<1>8. closed[n] = st[m]
  <2>1. n \in 0..n /\ (n <= m => n = m)
    BY <1>2
  <2> QED
    BY <2>1 DEF closed
<1> QED
  <2>1. n \in 0..n
    BY <1>2
  <2> QED
    BY <2>1, <1>6, <1>7, <1>8 DEF EndsWith

(* Images of w columns each.                                               *)
Images(n, w) == {images \in [1..n -> Seq(RowValues)] : \A r \in 1..n : Len(images[r]) = w}

(* Where the images of an event stand.                                     *)
Standing(images, n, off) ==
  /\ off \in [0..n -> Nat] /\ off[0] = 0
  /\ Len(RowsData(images)) = off[n] + 1
  /\ \A r \in 0..n : r <= off[r]
  /\ \A r \in 0..n : r < n => off[r] < off[n]
  /\ \A r \in 1..n : off[r] = off[r - 1] + Len(ImageUnits(images[r]))
  /\ \A r \in 1..n : Holds(RowsData(images), 1 + off[r - 1], images[r])

(* The images of an event stand one behind the other, and each has at      *)
(* least one unit.                                                         *)
LEMMA ImagesStand ==
  ASSUME NEW n \in Nat \ {0}, NEW w \in Nat \ {0}, NEW images \in Images(n, w)
  PROVE  \E off : Standing(images, n, off)
<1>1. images \in [1..n -> Seq(RowValues)] /\ \A r \in 1..n : Len(images[r]) = w
  BY DEF Images
<1>2. ASSUME NEW r \in 1..n PROVE ImageUnits(images[r]) \in Seq(EventUnits) /\ Len(ImageUnits(images[r])) \in Nat \ {0}
  <2>1. images[r] \in Seq(RowValues) /\ Len(images[r]) = w
    BY <1>1
  <2>2. PICK v : Imaged(images[r], w, v)
    BY <2>1, ImageParts
  <2>3. /\ v \in [0..w -> Nat] /\ ImageUnits(images[r]) \in Seq(EventUnits)
        /\ Len(ImageUnits(images[r])) = BitmapLen(w) + v[w] /\ BitmapLen(w) \in Nat \ {0}
    BY <2>2 DEF Imaged
  <2>4. v[w] \in Nat
    BY <2>3
  <2> QED
    BY <2>3, <2>4
<1>3. PICK seqs : seqs = [r \in 1..n |-> ImageUnits(images[r])]
  OBVIOUS
<1>4. seqs \in Seq(Seq(EventUnits)) /\ Len(seqs) = n /\ seqs # <<>> /\ \A r \in 1..n : seqs[r] = ImageUnits(images[r])
  <2>1. seqs \in [1..n -> Seq(EventUnits)]
    BY <1>2, <1>3
  <2>2. seqs \in Seq(Seq(EventUnits)) /\ Len(seqs) = n
    BY <2>1
  <2> QED
    BY <2>2, <1>3
<1>5. PICK off, fl : Flattens(seqs, EventUnits, off) /\ fl = FlattenSeq(seqs)
  BY <1>4, Flattened
<1>6. /\ off \in [0..n -> Nat] /\ off[0] = 0
      /\ \A r \in 1..n : off[r] = off[r - 1] + Len(seqs[r])
      /\ \A i \in 1..n : \A j \in i..n : off[i] <= off[j]
      /\ fl \in Seq(EventUnits) /\ Len(fl) = off[n]
      /\ \A r \in 1..n : \A k \in 1..Len(seqs[r]) : fl[off[r - 1] + k] = seqs[r][k]
  BY <1>4, <1>5 DEF Flattens
<1>7. \A r \in 1..n : off[r] = off[r - 1] + Len(ImageUnits(images[r]))
  BY <1>4, <1>6
<1>8. PICK u, crc : u = fl \o <<crc>> /\ crc = Unit({}, "crc32")
  OBVIOUS
<1>9. u = RowsData(images)
  <2>1. DOMAIN images = 1..n
    BY <1>1
  <2> QED
    BY <2>1, <1>3, <1>5, <1>8 DEF RowsData
<1>10. crc \in EventUnits
  BY <1>8 DEF Unit, EventUnits
<1>11. Len(u) = Len(fl) + 1 /\ \A i \in 1..Len(fl) : u[i] = fl[i]
  <2>1. fl \in Seq(EventUnits)
    BY <1>6
  <2> QED
    BY <2>1, <1>8, <1>10, Extended
<1>12. \A r \in 1..n : off[r - 1] < off[r]
  <2> SUFFICES ASSUME NEW r \in 1..n PROVE off[r - 1] < off[r]
    OBVIOUS
  <2>1. off[r - 1] \in Nat
    <3>1. r - 1 \in 0..n
      OBVIOUS
    <3> QED
      BY <3>1, <1>6
  <2>2. off[r] = off[r - 1] + Len(ImageUnits(images[r])) /\ Len(ImageUnits(images[r])) \in Nat \ {0}
    BY <1>2, <1>7
  <2> QED
    BY <2>1, <2>2
<1>13. \A r \in 0..n : r <= off[r]
  <2> DEFINE S == {r \in 0..n : r <= off[r]}
  <2>1. 0 \in S
    BY <1>6
  <2>2. ASSUME NEW r \in 1..n, r - 1 \in S PROVE r \in S
    <3>1. r - 1 <= off[r - 1] /\ off[r - 1] < off[r] /\ off[r - 1] \in Nat /\ off[r] \in Nat
      BY <2>2, <1>6, <1>12
    <3> QED
      BY <3>1
  <2> HIDE DEF S
  <2>3. \A r \in 0..n : r \in S
    BY <2>1, <2>2, UpTo
  <2> QED
    BY <2>3 DEF S
<1>14. \A r \in 0..n : r < n => off[r] < off[n]
  <2> SUFFICES ASSUME NEW r \in 0..n, r < n PROVE off[r] < off[n]
    OBVIOUS
  <2>1. r + 1 \in 1..n /\ n \in (r + 1)..n /\ (r + 1) - 1 = r
    OBVIOUS
  <2>2. off[r] < off[r + 1] /\ off[r + 1] <= off[n]
    BY <2>1, <1>6, <1>12
  <2>3. off[r] \in Nat /\ off[r + 1] \in Nat /\ off[n] \in Nat
    BY <2>1, <1>6
  <2> QED
    BY <2>2, <2>3
<1>15. ASSUME NEW r \in 1..n PROVE Holds(u, 1 + off[r - 1], images[r])
  <2> SUFFICES ASSUME NEW k \in 1..Len(ImageUnits(images[r]))
               PROVE  u[1 + off[r - 1] + k - 1] = ImageUnits(images[r])[k]
    BY DEF Holds
  <2>1. fl[off[r - 1] + k] = ImageUnits(images[r])[k]
    <3>1. seqs[r] = ImageUnits(images[r])
      BY <1>4, Zenon
    <3>2. \A x \in 1..Len(seqs[r]) : fl[off[r - 1] + x] = seqs[r][x]
      BY <1>6, Zenon
    <3> QED
      BY <3>1, <3>2, Zenon
  <2>2. PICK a, b, c, l : a = off[r - 1] /\ b = off[r] /\ c = off[n] /\ l = Len(ImageUnits(images[r]))
    OBVIOUS
  <2>3. a \in Nat /\ b \in Nat /\ c \in Nat /\ l \in Nat /\ b = a + l /\ b <= c /\ k \in 1..l
    <3>1. r \in 0..n /\ n \in 0..n /\ r - 1 \in 0..n /\ n \in r..n
      OBVIOUS
    <3> QED
      BY <3>1, <2>2, <1>2, <1>6, <1>7
  <2>4. a + k \in 1..c /\ 1 + a + k - 1 = a + k
    BY <2>3
  <2>5. u[a + k] = fl[a + k]
    BY <2>2, <2>4, <1>6, <1>11
  <2> QED
    BY <2>1, <2>2, <2>4, <2>5
<1>16. Len(u) = off[n] + 1
  BY <1>6, <1>11
<1>17. Standing(images, n, off)
  BY <1>6, <1>7, <1>9, <1>13, <1>14, <1>15, <1>16 DEF Standing
<1> QED
  BY <1>17

(* An event that is no update: its rows are its images.                    *)
LEMMA PlainRows ==
  ASSUME NEW m \in Nat, NEW cols \in [1..m -> BOOLEAN], NEW w \in Nat \ {0}, w = Width(cols),
         NEW n \in Nat \ {0}, NEW images \in Images(n, w)
  PROVE  LET rows == parseEvent(RowsData(images), FALSE, cols)
         IN  rows.before = images /\ rows.after = <<>>
<1>1. images \in [1..n -> Seq(RowValues)] /\ \A r \in 1..n : Len(images[r]) = w
  BY DEF Images
<1>2. images \in Seq(Seq(RowValues)) /\ Len(images) = n
  BY <1>1
<1>3. PICK off, u : Standing(images, n, off) /\ u = RowsData(images)
  BY ImagesStand
<1>4. /\ off \in [0..n -> Nat] /\ off[0] = 0 /\ Len(u) = off[n] + 1
      /\ \A r \in 0..n : r <= off[r]
      /\ \A r \in 0..n : r < n => off[r] < off[n]
      /\ \A r \in 1..n : off[r] = off[r - 1] + Len(ImageUnits(images[r]))
      /\ \A r \in 1..n : Holds(u, 1 + off[r - 1], images[r])
  BY <1>3 DEF Standing
<1> DEFINE st == [j \in 0..n |-> [before |-> SubSeq(images, 1, j), after |-> <<>>, pos |-> 1 + off[j]]]
<1>5. st[0] = [before |-> <<>>, after |-> <<>>, pos |-> 1]
  <2>1. SubSeq(images, 1, 0) = <<>> /\ 0 \in 0..n /\ 1 + off[0] = 1
    BY <1>4, SubSeqEmpty
  <2>2. st[0] = [before |-> SubSeq(images, 1, 0), after |-> <<>>, pos |-> 1 + off[0]]
    BY <2>1
  <2> HIDE DEF st
  <2> QED
    BY <2>1, <2>2, Zenon
<1>6. ASSUME NEW j \in 1..n PROVE ~(st[j - 1].pos >= Len(u)) /\ st[j] = ParseRow(u, FALSE, cols, st[j - 1])
  <2>1. j - 1 \in 0..n /\ j \in 0..n /\ j - 1 < n
    OBVIOUS
  <2>2. PICK p, q, e, last, image :
          p = off[j - 1] /\ q = off[j] /\ e = off[n] /\ last = st[j - 1] /\ image = images[j]
    OBVIOUS
  <2>3. p \in Nat /\ q \in Nat /\ e \in Nat /\ p < e /\ q = p + Len(ImageUnits(image)) /\ Holds(u, 1 + p, image)
    BY <2>1, <2>2, <1>4
  <2>4. image \in Seq(RowValues) /\ Len(image) = w
    BY <2>2, <1>1
  <2>5. last = [before |-> SubSeq(images, 1, j - 1), after |-> <<>>, pos |-> 1 + p]
    BY <2>1, <2>2
  <2>6. st[j] = [before |-> SubSeq(images, 1, j), after |-> <<>>, pos |-> 1 + q]
    BY <2>1, <2>2
  <2> HIDE DEF st
  <2>7. ~(last.pos >= Len(u))
    <3>1. last.pos = 1 + p /\ Len(u) = e + 1
      BY <2>2, <2>5, <1>4
    <3> QED
      BY <3>1, <2>3
  <2>8. PICK before : before = printOneRow(u, last.pos, <<>>, cols)
    OBVIOUS
  <2>9. before = [pos |-> 1 + q, bit |-> w, values |-> image]
    <3>1. last.pos = 1 + p /\ 1 + p \in Nat
      BY <2>3, <2>5
    <3>2. PICK none : none = <<>>
      OBVIOUS
    <3>3. none \in Seq(RowValues) /\ none \o image = image
      BY <3>2, <2>4, ConcatEmptySeq, EmptySeq
    <3>4. printOneRow(u, 1 + p, none, cols) = [pos |-> 1 + p + Len(ImageUnits(image)), bit |-> w, values |-> none \o image]
      <4>1. PICK a : a = 1 + p
        OBVIOUS
      <4>2. a \in Nat /\ none \in Seq(RowValues) /\ image \in Seq(RowValues) /\ Len(image) = w /\ Holds(u, a, image)
        BY <4>1, <3>1, <3>3, <2>3, <2>4
      <4>3. Prints(u, a, none, cols, image)
        BY <4>2, RowPrinted
      <4> QED
        BY <4>1, <4>2, <4>3, Zenon DEF Prints
    <3>5. 1 + p + Len(ImageUnits(image)) = 1 + q
      BY <2>3
    <3> QED
      BY <3>1, <3>2, <3>3, <3>4, <3>5, <2>8, Zenon
  <2>10. Append(SubSeq(images, 1, j - 1), image) = SubSeq(images, 1, j)
    <3>1. j \in 1..Len(images)
      BY <1>2
    <3> QED
      BY <3>1, <2>2, <1>2, PrefixGrown
  <2>11. ParseRow(u, FALSE, cols, last) =
           [before |-> Append(last.before, before.values), after |-> last.after, pos |-> before.pos]
    BY <2>8 DEF ParseRow
  <2>12. ParseRow(u, FALSE, cols, last) = [before |-> SubSeq(images, 1, j), after |-> <<>>, pos |-> 1 + q]
    <3>1. before.values = image /\ before.pos = 1 + q
      BY <2>9
    <3>2. last.before = SubSeq(images, 1, j - 1) /\ last.after = <<>>
      BY <2>5
    <3> QED
      BY <3>1, <3>2, <2>10, <2>11, Zenon
  <2> QED
    BY <2>2, <2>6, <2>7, <2>12
<1>7. st[n] = [before |-> images, after |-> <<>>, pos |-> Len(u)] /\ Len(u) \in Nat /\ n <= Len(u)
  <2>1. n \in 0..n /\ off[n] \in Nat /\ n <= off[n]
    BY <1>4
  <2>2. 1 + off[n] = Len(u) /\ Len(u) \in Nat /\ n <= Len(u)
    <3>1. PICK e, l : e = off[n] /\ l = Len(u)
      OBVIOUS
    <3>2. e \in Nat /\ n <= e /\ l = e + 1
      BY <3>1, <2>1, <1>4
    <3>3. 1 + e = l /\ l \in Nat /\ n <= l
      BY <3>2
    <3> QED
      BY <3>1, <3>3, Zenon
  <2>3. SubSeq(images, 1, n) = images
    BY <1>2, SubSeqFull
  <2>4. st[n] = [before |-> SubSeq(images, 1, n), after |-> <<>>, pos |-> 1 + off[n]]
    BY <2>1
  <2> HIDE DEF st
  <2> QED
    BY <2>2, <2>3, <2>4, Zenon
<1> HIDE DEF st
<1>8. st[n].pos >= Len(u)
  BY <1>7
<1>9. Turns(u, FALSE, cols, n, st)
  BY <1>5, <1>6, <1>8 DEF Turns
<1>10. EndsWith(u, FALSE, cols, st[n])
  <2>1. Len(u) \in Nat /\ n <= Len(u) /\ n \in Nat
    BY <1>7
  <2> QED
    BY <2>1, <1>9, LoopEnds, Zenon
<1>11. PICK rows : rows = parseEvent(u, FALSE, cols)
  OBVIOUS
<1>12. rows = st[n]
  BY <1>10, <1>11, Zenon DEF EndsWith
<1>13. rows.before = images /\ rows.after = <<>>
  BY <1>2, <1>7, <1>12
<1> QED
  BY <1>3, <1>11, <1>13, Zenon

(* An update: its before rows are the odd images, and an after row is the  *)
(* even image behind the odd one.                                          *)
UpdateRead(rows, images, n) ==
  /\ rows.before = [r \in 1..n |-> images[2 * r - 1]]
  /\ rows.after = [r \in 1..n |-> images[2 * r - 1] \o images[2 * r]]

(* parseEvent reads an update's rows so.                                   *)
LEMMA UpdatedRows ==
  ASSUME NEW m \in Nat, NEW cols \in [1..m -> BOOLEAN], NEW w \in Nat \ {0}, w = Width(cols),
         NEW n \in Nat \ {0}, NEW images \in Images(2 * n, w)
  PROVE  UpdateRead(parseEvent(RowsData(images), TRUE, cols), images, n)
<1>1. PICK N : N = 2 * n
  OBVIOUS
<1>2. N \in Nat \ {0} /\ images \in Images(N, w) /\ images \in [1..N -> Seq(RowValues)] /\ \A r \in 1..N : Len(images[r]) = w
  BY <1>1 DEF Images
<1>3. PICK bef, aft : /\ bef = [r \in 1..n |-> images[2 * r - 1]]
                      /\ aft = [r \in 1..n |-> images[2 * r - 1] \o images[2 * r]]
  OBVIOUS
<1>4. ASSUME NEW j \in 1..n
      PROVE  /\ 2 * j - 1 \in 1..N /\ 2 * j \in 1..N
             /\ images[2 * j - 1] \in Seq(RowValues) /\ images[2 * j] \in Seq(RowValues)
             /\ images[2 * j - 1] \o images[2 * j] \in Seq(RowValues)
  <2>1. 2 * j - 1 \in 1..N /\ 2 * j \in 1..N
    BY <1>1
  <2>2. images[2 * j - 1] \in Seq(RowValues) /\ images[2 * j] \in Seq(RowValues)
    BY <1>2, <2>1
  <2>3. images[2 * j - 1] \o images[2 * j] \in Seq(RowValues)
    BY <2>2, ConcatProperties, Zenon
  <2> QED
    BY <2>1, <2>2, <2>3
<1>5. bef \in Seq(Seq(RowValues)) /\ Len(bef) = n /\ aft \in Seq(Seq(RowValues)) /\ Len(aft) = n
  <2>1. bef \in [1..n -> Seq(RowValues)] /\ aft \in [1..n -> Seq(RowValues)]
    BY <1>3, <1>4, Zenon
  <2> QED
    BY <2>1
<1>6. PICK off, u : Standing(images, N, off) /\ u = RowsData(images)
  BY <1>2, ImagesStand
<1>7. /\ off \in [0..N -> Nat] /\ off[0] = 0 /\ Len(u) = off[N] + 1
      /\ \A r \in 0..N : r <= off[r]
      /\ \A r \in 0..N : r < N => off[r] < off[N]
      /\ \A r \in 1..N : off[r] = off[r - 1] + Len(ImageUnits(images[r]))
      /\ \A r \in 1..N : Holds(u, 1 + off[r - 1], images[r])
  BY <1>6 DEF Standing
<1> DEFINE st == [j \in 0..n |-> [before |-> SubSeq(bef, 1, j), after |-> SubSeq(aft, 1, j), pos |-> 1 + off[2 * j]]]
<1>8. st[0] = [before |-> <<>>, after |-> <<>>, pos |-> 1]
  <2>1. SubSeq(bef, 1, 0) = <<>> /\ SubSeq(aft, 1, 0) = <<>>
    BY SubSeqEmpty
  <2>2. 0 \in 0..n /\ 1 + off[2 * 0] = 1
    BY <1>7
  <2>3. st[0] = [before |-> SubSeq(bef, 1, 0), after |-> SubSeq(aft, 1, 0), pos |-> 1 + off[2 * 0]]
    BY <2>2
  <2> HIDE DEF st
  <2> QED
    BY <2>1, <2>2, <2>3, Zenon
<1>9. ASSUME NEW j \in 1..n PROVE ~(st[j - 1].pos >= Len(u)) /\ st[j] = ParseRow(u, TRUE, cols, st[j - 1])
  <2>1. /\ j - 1 \in 0..n /\ j \in 0..n
        /\ 2 * (j - 1) = (2 * j - 1) - 1 /\ 2 * j - 1 - 1 = (2 * j - 1) - 1
        /\ (2 * j - 1) - 1 \in 0..N /\ (2 * j - 1) - 1 < N /\ 2 * j - 1 \in 0..N /\ 2 * j \in 0..N
    BY <1>1
  <2>2. PICK p, q, s, e, last, first, second :
          /\ p = off[2 * (j - 1)] /\ q = off[2 * j - 1] /\ s = off[2 * j] /\ e = off[N]
          /\ last = st[j - 1] /\ first = images[2 * j - 1] /\ second = images[2 * j]
    OBVIOUS
  <2>3. p \in Nat /\ q \in Nat /\ s \in Nat /\ e \in Nat /\ p < e
    <3>1. N \in 0..N
      BY <1>2
    <3> QED
      BY <3>1, <2>1, <2>2, <1>7
  <2>4. q = p + Len(ImageUnits(first)) /\ Holds(u, 1 + p, first)
    <3>1. 2 * j - 1 \in 1..N
      BY <1>4
    <3>2. off[2 * j - 1] = off[(2 * j - 1) - 1] + Len(ImageUnits(images[2 * j - 1])) /\ Holds(u, 1 + off[(2 * j - 1) - 1], images[2 * j - 1])
      BY <3>1, <1>7
    <3> QED
      BY <3>2, <2>1, <2>2
  <2>5. s = q + Len(ImageUnits(second)) /\ Holds(u, 1 + q, second)
    <3>1. 2 * j \in 1..N
      BY <1>4
    <3>2. off[2 * j] = off[2 * j - 1] + Len(ImageUnits(images[2 * j])) /\ Holds(u, 1 + off[2 * j - 1], images[2 * j])
      BY <3>1, <1>7
    <3> QED
      BY <3>2, <2>2
  <2>6. first \in Seq(RowValues) /\ Len(first) = w /\ second \in Seq(RowValues) /\ Len(second) = w
    BY <2>2, <1>2, <1>4
  <2>7. last = [before |-> SubSeq(bef, 1, j - 1), after |-> SubSeq(aft, 1, j - 1), pos |-> 1 + p]
    BY <2>1, <2>2
  <2>8. st[j] = [before |-> SubSeq(bef, 1, j), after |-> SubSeq(aft, 1, j), pos |-> 1 + s]
    BY <2>1, <2>2
  <2> HIDE DEF st
  <2>9. ~(last.pos >= Len(u))
    <3>1. last.pos = 1 + p /\ Len(u) = e + 1
      BY <2>2, <2>7, <1>7
    <3> QED
      BY <3>1, <2>3
  <2>10. PICK before : before = printOneRow(u, last.pos, <<>>, cols)
    OBVIOUS
  <2>11. before = [pos |-> 1 + q, bit |-> w, values |-> first]
    <3>1. last.pos = 1 + p /\ 1 + p \in Nat
      BY <2>3, <2>7
    <3>2. PICK none : none = <<>>
      OBVIOUS
    <3>3. none \in Seq(RowValues) /\ none \o first = first
      BY <3>2, <2>6, ConcatEmptySeq, EmptySeq
    <3>4. printOneRow(u, 1 + p, none, cols) = [pos |-> 1 + p + Len(ImageUnits(first)), bit |-> w, values |-> none \o first]
      <4>1. PICK a : a = 1 + p
        OBVIOUS
      <4>2. a \in Nat /\ none \in Seq(RowValues) /\ first \in Seq(RowValues) /\ Len(first) = w /\ Holds(u, a, first)
        BY <4>1, <3>1, <3>3, <2>4, <2>6
      <4>3. Prints(u, a, none, cols, first)
        BY <4>2, RowPrinted
      <4> QED
        BY <4>1, <4>2, <4>3, Zenon DEF Prints
    <3>5. 1 + p + Len(ImageUnits(first)) = 1 + q
      BY <2>3, <2>4
    <3> QED
      BY <3>1, <3>2, <3>3, <3>4, <3>5, <2>10, Zenon
  <2>12. PICK after : after = printOneRow(u, before.pos, before.values, cols)
    OBVIOUS
  <2>13. after = [pos |-> 1 + s, bit |-> w, values |-> first \o second]
    <3>1. before.pos = 1 + q /\ before.values = first /\ 1 + q \in Nat
      BY <2>3, <2>11
    <3>2. printOneRow(u, 1 + q, first, cols) = [pos |-> 1 + q + Len(ImageUnits(second)), bit |-> w, values |-> first \o second]
      <4>1. PICK a : a = 1 + q
        OBVIOUS
      <4>2. a \in Nat /\ first \in Seq(RowValues) /\ second \in Seq(RowValues) /\ Len(second) = w /\ Holds(u, a, second)
        BY <4>1, <3>1, <2>5, <2>6
      <4>3. Prints(u, a, first, cols, second)
        BY <4>2, RowPrinted
      <4> QED
        BY <4>1, <4>2, <4>3, Zenon DEF Prints
    <3>3. 1 + q + Len(ImageUnits(second)) = 1 + s
      BY <2>3, <2>5
    <3> QED
      BY <3>1, <3>2, <3>3, <2>12, Zenon
  <2>14. Append(SubSeq(bef, 1, j - 1), first) = SubSeq(bef, 1, j)
    <3>1. j \in 1..Len(bef) /\ bef[j] = first
      BY <2>2, <1>3, <1>5
    <3> QED
      BY <3>1, <1>5, PrefixGrown
  <2>15. Append(SubSeq(aft, 1, j - 1), first \o second) = SubSeq(aft, 1, j)
    <3>1. j \in 1..Len(aft) /\ aft[j] = first \o second
      BY <2>2, <1>3, <1>5
    <3>2. Append(SubSeq(aft, 1, j - 1), aft[j]) = SubSeq(aft, 1, j)
      BY <3>1, <1>5, PrefixGrown
    <3> QED
      BY <3>1, <3>2, Zenon
  <2>16. ParseRow(u, TRUE, cols, last) =
           [before |-> Append(last.before, before.values), after |-> Append(last.after, after.values), pos |-> after.pos]
    BY <2>10, <2>12 DEF ParseRow
  <2>17. ParseRow(u, TRUE, cols, last) = [before |-> SubSeq(bef, 1, j), after |-> SubSeq(aft, 1, j), pos |-> 1 + s]
    <3>1. before.values = first
      BY <2>11
    <3>2. after.values = first \o second /\ after.pos = 1 + s
      BY <2>13
    <3>3. last.before = SubSeq(bef, 1, j - 1) /\ last.after = SubSeq(aft, 1, j - 1)
      BY <2>7
    <3> QED
      BY <3>1, <3>2, <3>3, <2>14, <2>15, <2>16, Zenon
  <2> QED
    BY <2>2, <2>8, <2>9, <2>17
<1>10. st[n] = [before |-> bef, after |-> aft, pos |-> Len(u)] /\ Len(u) \in Nat /\ n <= Len(u)
  <2>1. n \in 0..n /\ N \in 0..N /\ 2 * n = N
    BY <1>1, <1>2
  <2>2. off[N] \in Nat /\ N <= off[N]
    BY <2>1, <1>7
  <2>3. 1 + off[N] = Len(u) /\ Len(u) \in Nat /\ n <= Len(u)
    BY <2>1, <2>2, <1>7
  <2>4. SubSeq(bef, 1, n) = bef /\ SubSeq(aft, 1, n) = aft
    BY <1>5, SubSeqFull
  <2>5. st[n] = [before |-> SubSeq(bef, 1, n), after |-> SubSeq(aft, 1, n), pos |-> 1 + off[2 * n]]
    BY <2>1
  <2> HIDE DEF st
  <2> QED
    BY <2>1, <2>3, <2>4, <2>5, Zenon
<1> HIDE DEF st
<1>11. st[n].pos >= Len(u)
  BY <1>10
<1>12. Turns(u, TRUE, cols, n, st)
  BY <1>8, <1>9, <1>11 DEF Turns
<1>13. EndsWith(u, TRUE, cols, st[n])
  <2>1. Len(u) \in Nat /\ n <= Len(u) /\ n \in Nat
    BY <1>10
  <2> QED
    BY <2>1, <1>12, LoopEnds, Zenon
<1>14. PICK rows : rows = parseEvent(u, TRUE, cols)
  OBVIOUS
<1>15. rows = st[n]
  BY <1>13, <1>14, Zenon DEF EndsWith
<1>16. UpdateRead(rows, images, n)
  BY <1>3, <1>10, <1>15 DEF UpdateRead
<1> QED
  BY <1>6, <1>14, <1>16, Zenon

(* The second half of what holds two images is the second image.           *)
LEMMA SecondHalf ==
  ASSUME NEW T, NEW s \in Seq(T), NEW t \in Seq(T), Len(s) = Len(t)
  PROVE  SubSeq(s \o t, Len(t) + 1, 2 * Len(t)) = t
<1>1. PICK u, w : u = s \o t /\ w = Len(t)
  OBVIOUS
<1>2. /\ u \in Seq(T) /\ Len(u) = Len(s) + Len(t)
      /\ \A i \in 1..(Len(s) + Len(t)) : u[i] = IF i <= Len(s) THEN s[i] ELSE t[i - Len(s)]
  BY <1>1, ConcatProperties
<1>3. w \in Nat /\ Len(s) = w /\ Len(t) = w /\ Len(u) = w + w
  BY <1>1, <1>2, LenProperties
<1>4. ASSUME NEW k \in 1..w PROVE u[w + k] = t[k]
  <2>1. w + k \in 1..(w + w) /\ ~(w + k <= w) /\ w + k - w = k
    BY <1>3
  <2> QED
    BY <2>1, <1>2, <1>3
<1>5. w + Len(t) <= Len(u) /\ \A k \in 1..Len(t) : u[w + k] = t[k]
  BY <1>3, <1>4
<1>6. SubSeq(u, w + 1, w + Len(t)) = t
  BY <1>2, <1>3, <1>5, CutOut
<1>7. w + Len(t) = 2 * w
  BY <1>3
<1> QED
  BY <1>1, <1>6, <1>7

(* The images that are written.                                            *)
LEMMA WrittenImages ==
  ASSUME NEW n \in Nat, NEW w \in Nat, NEW nulls \in [1..n -> [1..w -> BOOLEAN]]
  PROVE  Written(nulls) \in Images(n, w)
<1>1. PICK images : images = Written(nulls)
  OBVIOUS
<1>2. images = [r \in 1..n |-> [k \in 1..w |-> IF nulls[r][k] THEN NullValue ELSE <<r, k>>]]
  BY <1>1 DEF Written
<1>3. ASSUME NEW r \in 1..n PROVE images[r] \in [1..w -> RowValues]
  <2>1. ASSUME NEW k \in 1..w PROVE (IF nulls[r][k] THEN NullValue ELSE <<r, k>>) \in RowValues
    <3>1. <<r, k>> \in Nat \X Nat
      OBVIOUS
    <3> QED
      BY <3>1 DEF RowValues
  <2> QED
    BY <2>1, <1>2
<1>4. ASSUME NEW r \in 1..n PROVE images[r] \in Seq(RowValues) /\ Len(images[r]) = w
  BY <1>3
<1>5. images \in [1..n -> Seq(RowValues)]
  BY <1>2, <1>4
<1> QED
  BY <1>1, <1>4, <1>5 DEF Images

(* The rows of an event that is an input are decoded as they were written. *)
LEMMA RowsBack ==
  ASSUME Init
  PROVE  RowsDecoded
<1>1. SUFFICES ASSUME input.alg = "rows" PROVE RowsDecoded
  BY DEF RowsDecoded
<1>2. PICK cols \in Bitmaps, n \in 1..MaxRows, update \in BOOLEAN :
        \E nulls \in Nulls(cols, IF update THEN 2 * n ELSE n) :
          input = [alg |-> "rows", update |-> update, cols |-> cols, nulls |-> nulls]
  BY <1>1 DEF Init
<1>3. PICK nulls \in Nulls(cols, IF update THEN 2 * n ELSE n) :
        input = [alg |-> "rows", update |-> update, cols |-> cols, nulls |-> nulls]
  BY <1>2
<1>4. PICK m \in 1..MaxColumns : cols \in [1..m -> BOOLEAN]
  BY DEF Bitmaps
<1>5. m \in Nat /\ n \in Nat \ {0}
  OBVIOUS
<1>6. PICK w : w = Width(cols)
  OBVIOUS
<1>7. w \in Nat \ {0}
  <2>1. w > 0
    BY <1>6 DEF Bitmaps
  <2>2. w \in Nat
    <3>1. m \in 0..m
      BY <1>5
    <3> QED
      BY <3>1, <1>4, <1>5, <1>6, TakenColumns
  <2> QED
    BY <2>1, <2>2
<1>8. input.update = update /\ input.cols = cols /\ input.nulls = nulls
  BY <1>3
<1>9. PICK images : images = Written(nulls)
  OBVIOUS
<1>10. CASE ~update
  <2>1. images \in Images(n, w)
    <3>1. nulls \in [1..n -> [1..w -> BOOLEAN]]
      BY <1>6, <1>10 DEF Nulls
    <3> QED
      BY <3>1, <1>5, <1>7, <1>9, WrittenImages
  <2>2. PICK rows : rows = parseEvent(RowsData(images), update, cols)
    OBVIOUS
  <2>3. update = FALSE
    BY <1>10
  <2>4. rows.before = images /\ rows.after = <<>>
    BY <2>1, <2>2, <2>3, <1>4, <1>5, <1>6, <1>7, PlainRows, Zenon
  <2> QED
    BY <2>2, <2>4, <1>8, <1>9, <1>10, Zenon DEF RowsDecoded
<1>11. CASE update
  <2>1. 2 * n \in Nat /\ (2 * n) \div 2 = n
    BY <1>5
  <2>2. images \in Images(2 * n, w)
    <3>1. nulls \in [1..(2 * n) -> [1..w -> BOOLEAN]]
      BY <1>6, <1>11 DEF Nulls
    <3>2. w \in Nat
      BY <1>7
    <3> QED
      BY <3>1, <3>2, <2>1, <1>9, WrittenImages, Zenon
  <2>3. images \in [1..(2 * n) -> Seq(RowValues)] /\ \A r \in 1..(2 * n) : Len(images[r]) = w
    BY <2>2 DEF Images
  <2>4. Len(images) = 2 * n
    BY <2>1, <2>3
  <2>5. PICK rows : rows = parseEvent(RowsData(images), update, cols)
    OBVIOUS
  <2>6. update = TRUE
    BY <1>11
  <2>7. /\ rows.before = [r \in 1..n |-> images[2 * r - 1]]
        /\ rows.after = [r \in 1..n |-> images[2 * r - 1] \o images[2 * r]]
    <3>1. UpdateRead(rows, images, n)
      BY <2>2, <2>5, <2>6, <1>4, <1>5, <1>6, <1>7, UpdatedRows, Zenon
    <3> QED
      BY <3>1 DEF UpdateRead
  <2>8. ASSUME NEW r \in 1..n PROVE SubSeq(rows.after[r], w + 1, 2 * w) = images[2 * r]
    <3>1. PICK s, t : s = images[2 * r - 1] /\ t = images[2 * r]
      OBVIOUS
    <3>2. 2 * r - 1 \in 1..(2 * n) /\ 2 * r \in 1..(2 * n)
      BY <1>5
    <3>3. s \in Seq(RowValues) /\ t \in Seq(RowValues) /\ Len(s) = w /\ Len(t) = w
      BY <3>1, <3>2, <2>3
    <3>4. SubSeq(s \o t, Len(t) + 1, 2 * Len(t)) = t
      <4>1. s \in Seq(RowValues) /\ t \in Seq(RowValues) /\ Len(s) = Len(t)
        BY <3>3
      <4> QED
        BY <4>1, SecondHalf
    <3>5. rows.after[r] = s \o t
      BY <3>1, <2>7
    <3> QED
      BY <3>1, <3>3, <3>4, <3>5, Zenon
  <2>9. DOMAIN rows.after = 1..n
    BY <2>7
  <2>10. [r \in DOMAIN rows.after |-> SubSeq(rows.after[r], w + 1, 2 * w)] = [r \in 1..n |-> images[2 * r]]
    BY <2>8, <2>9, Zenon
  <2>11. PICK half : half = Len(images) \div 2
    OBVIOUS
  <2>12. half = n
    BY <2>1, <2>4, <2>11
  <2>13. PICK from, to : from = w + 1 /\ to = 2 * w
    OBVIOUS
  <2>14. /\ rows.before = [r \in 1..half |-> images[2 * r - 1]]
         /\ [r \in DOMAIN rows.after |-> SubSeq(rows.after[r], from, to)] = [r \in 1..half |-> images[2 * r]]
    BY <2>7, <2>10, <2>12, <2>13
  <2> QED
    BY <2>5, <2>11, <2>13, <2>14, <1>6, <1>8, <1>9, <1>11, Zenon DEF RowsDecoded
<1> QED
  BY <1>10, <1>11

(* GetTimeStampByStr reads the time that GetStrFromTime wrote and          *)
(* GetWriteXmlTime padded, for every time of the years 1000 to 9999.       *)
THEOREM TimeReadBackHolds == Spec => []TimeReadBack
<1>1. Init => TimeReadBack
  BY TimeBack
<1>2. TimeReadBack /\ [Next]_input => TimeReadBack'
  BY DEF Next, TimeReadBack
<1> QED
  BY <1>1, <1>2, PTL DEF Spec

(* The table map event is read as it was written: get_field_length reads   *)
(* the two packed lengths in a row, for every length below 2^31, and the   *)
(* constructor of CTableDef gives each column its own metadata, for any    *)
(* number of columns of any types.                                         *)
THEOREM TableMapReadBackHolds == Spec => []TableMapReadBack
<1>1. Init => TableMapReadBack
  BY LengthsBack, MetadataBack DEF TableMapReadBack
<1>2. TableMapReadBack /\ [Next]_input => TableMapReadBack'
  BY DEF Next, TableMapReadBack, LengthsReadBack, MetadataOwn
<1> QED
  BY <1>1, <1>2, PTL DEF Spec

(* parseEvent and printOneRow decode the rows of an event as they were     *)
(* written, for any number of rows, any bitmap of columns and any nulls.   *)
THEOREM RowsDecodedHolds == Spec => []RowsDecoded
<1>1. Init => RowsDecoded
  BY RowsBack
<1>2. RowsDecoded /\ [Next]_input => RowsDecoded'
  BY DEF Next, RowsDecoded
<1> QED
  BY <1>1, <1>2, PTL DEF Spec
=============================================================================
