--------------------------- MODULE UpdateDbProofs ---------------------------
(***************************************************************************)
(* Proofs about the client's update queue and its transaction, for any     *)
(* number of messages and update threads, any capacity and any bodies.     *)
(***************************************************************************)
EXTENDS UpdateDb, FiniteSetTheorems, WellFoundedInduction, TLAPS

(* A set of naturals that is not empty has a least element.                *)
LEMMA LeastNatural ==
  ASSUME NEW S \in SUBSET Nat, S # {}
  PROVE  \E n \in S : \A k \in S : n <= k
<1> DEFINE R == OpToRel(<, Nat)
<1>1. IsWellFoundedOn(R, Nat)
  BY NatLessThanWellFounded
<1>2. \A x, y \in Nat : x < y => <<x, y>> \in R
  BY DEF OpToRel
<1> HIDE DEF R
<1>3. PICK n \in S : \A k \in S : ~(<<k, n>> \in R)
  BY <1>1, WFMin
<1>4. \A k \in S : ~(k < n)
  BY <1>2, <1>3, Zenon
<1> QED
  BY <1>4, SMT

(* The items before the first null item: Cut is well defined.              *)
LEMMA CutProperties ==
  ASSUME NEW b \in Seq(Keys \cup {NullItem, BadItem})
  PROVE  /\ Cut(b) \in 0..Len(b)
         /\ \A i \in 1..Cut(b) : b[i] # NullItem
<1> DEFINE Good(n) == /\ \A i \in 1..n : b[i] # NullItem
                      /\ n < Len(b) => b[n + 1] = NullItem
           Nulls == {n \in 0..Len(b) : n = Len(b) \/ b[n + 1] = NullItem}
<1>1. PICK n \in Nulls : \A k \in Nulls : n <= k
  <2>1. Nulls \in SUBSET Nat /\ Len(b) \in Nulls
    OBVIOUS
  <2> QED
    BY <2>1, LeastNatural
<1>2. n \in 0..Len(b) /\ Good(n)
  <2>1. \A i \in 1..n : b[i] # NullItem
    <3> SUFFICES ASSUME NEW i \in 1..n, b[i] = NullItem PROVE FALSE
      OBVIOUS
    <3>1. i - 1 \in Nulls
      OBVIOUS
    <3> QED
      BY <3>1, <1>1
  <2> QED
    BY <1>1, <2>1
<1>3. Cut(b) = CHOOSE k \in 0..Len(b) : Good(k)
  BY DEF Cut
<1> HIDE DEF Good
<1>4. Cut(b) \in 0..Len(b) /\ Good(Cut(b))
  BY <1>2, <1>3
<1> QED
  BY <1>4 DEF Good

(* What LoadJson builds of a body that does not throw are rows.            *)
LEMMA BuiltProperties ==
  ASSUME NEW b \in Bodies
  PROVE  /\ Built(b) \in Seq(Keys \cup {BadItem})
         /\ ~Throws(b) => Built(b) \in Seq(Keys)
         /\ Len(Built(b)) = Cut(b)
<1>1. b \in Seq(Keys \cup {NullItem, BadItem})
  BY ConstantsAssumption
<1>2. /\ Cut(b) \in 0..Len(b)
      /\ \A i \in 1..Cut(b) : b[i] # NullItem
  BY <1>1, CutProperties
<1>3. \A i \in 1..Cut(b) : b[i] \in Keys \cup {BadItem}
  BY <1>1, <1>2
<1>4. ~Throws(b) => \A i \in 1..Cut(b) : b[i] \in Keys
  BY <1>3 DEF Throws
<1> QED
  BY <1>1, <1>2, <1>3, <1>4 DEF Built

-----------------------------------------------------------------------------
(* An update thread holds a message exactly while it works on one.         *)
Working == {"build", "lock", "exec"}
UPcs == {"take", "empty", "resume", "build", "lock", "exec"}
HPcs == {"none", "enter", "full", "resume", "done"}

PcData == \A u \in Updaters : upc[u] \in Working <=> tmpData[u] # 0

TypeInv == TypeOK /\ PcData

(* A signal moves at most one thread, and only from its wait.              *)
LEMMA WakeEmptyMoves ==
  ASSUME NEW f \in [Updaters -> UPcs], NEW g \in WakeEmpty(f)
  PROVE  /\ g \in [Updaters -> UPcs]
         /\ \A u \in Updaters : g[u] = f[u] \/ (f[u] = "empty" /\ g[u] = "resume")
         /\ (\E u \in Updaters : f[u] = "empty") => \E u \in Updaters : g[u] = "resume"
  BY DEF WakeEmpty, UPcs

(* A signal of "full" only wakes a thread that sleeps there.               *)
LEMMA WakeFullMoves ==
  ASSUME NEW f \in [Ids -> HPcs], NEW g \in WakeFull(f)
  PROVE  /\ g \in [Ids -> HPcs]
         /\ \A m \in Ids : g[m] = f[m] \/ (f[m] = "full" /\ g[m] = "resume")
  BY DEF WakeFull, HPcs

(* The type invariant holds at the start.                                  *)
LEMMA InitTypeInv == Init => TypeInv
  BY ConstantsAssumption DEF Init, TypeInv, TypeOK, PcData, Working, Ids

(* Every step keeps it.                                                    *)
LEMMA NextTypeInv == TypeInv /\ [Next]_vars => TypeInv'
<1> SUFFICES ASSUME TypeInv, [Next]_vars PROVE TypeInv'
  OBVIOUS
<1> USE ConstantsAssumption DEF TypeInv
<1>i. Ids \subseteq Nat /\ 0 \notin Ids
  BY DEF Ids
<1>t. upc \in [Updaters -> UPcs] /\ hpc \in [Ids -> HPcs]
  BY DEF TypeOK, UPcs, HPcs
<1>p. ASSUME upc' \in [Updaters -> UPcs], UNCHANGED MysqlOp,
             \A u \in Updaters : upc'[u] = upc[u] \/ (upc[u] = "empty" /\ upc'[u] = "resume"),
             UNCHANGED tmpData
      PROVE  /\ upc' \in [Updaters -> {"take", "empty", "resume", "build", "lock", "exec"}]
             /\ \A u \in Updaters : upc'[u] = "exec" <=> MysqlOp' = u
             /\ PcData'
  BY <1>p DEF TypeOK, PcData, Working, UPcs
<1>1. ASSUME NEW m \in Ids, Receive(m) PROVE TypeInv'
  BY <1>1 DEF Receive, TypeOK, PcData, db, logs
<1>2. ASSUME NEW m \in Ids, ProductData(m) PROVE TypeInv'
  <2>1. CASE Len(m_queue_data) >= ROWS_DATA_MAX_SIZE
    BY <1>2, <2>1 DEF ProductData, TypeOK, PcData, db, logs
  <2>2. CASE ~(Len(m_queue_data) >= ROWS_DATA_MAX_SIZE)
    <3>1. m_queue_data' \in Seq(Ids) /\ Len(m_queue_data') <= ROWS_DATA_MAX_SIZE
      <4>1. /\ m_queue_data \in Seq(Ids)
            /\ m_queue_data' = Append(m_queue_data, m)
            /\ Len(m_queue_data) < ROWS_DATA_MAX_SIZE
        BY <1>2, <2>2 DEF ProductData, TypeOK
      <4> QED
        BY <4>1
    <3>3. hpc' \in [Ids -> {"none", "enter", "full", "resume", "done"}]
      BY <1>2, <2>2, ZenonT(60) DEF ProductData, TypeOK
    <3>2. /\ upc' \in [Updaters -> UPcs]
          /\ \A u \in Updaters : upc'[u] = upc[u] \/ (upc[u] = "empty" /\ upc'[u] = "resume")
      BY <1>2, <2>2, <1>t, WakeEmptyMoves DEF ProductData
    <3> QED
      BY <1>2, <1>p, <3>1, <3>2, <3>3 DEF ProductData, TypeOK, db, logs
  <2> QED
    BY <2>1, <2>2
<1>3. ASSUME NEW m \in Ids, ProductResume(m) PROVE TypeInv'
  <2>1. /\ upc' \in [Updaters -> UPcs]
        /\ \A u \in Updaters : upc'[u] = upc[u] \/ (upc[u] = "empty" /\ upc'[u] = "resume")
    BY <1>3, <1>t, WakeEmptyMoves DEF ProductResume
  <2> QED
    BY <1>3, <1>p, <2>1 DEF ProductResume, TypeOK, db
<1>4. ASSUME NEW u \in Updaters, upc[u] \in {"take", "resume"}, TakeFront(u),
             UNCHANGED <<body, sqls, db, logs>>
      PROVE  TypeInv'
  <2>1. hpc' \in [Ids -> {"none", "enter", "full", "resume", "done"}]
    BY <1>4, <1>t, WakeFullMoves DEF TakeFront, HPcs
  <2>2. CASE m_queue_data = <<>>
    BY <1>4, <2>1, <2>2, ZenonT(60) DEF TakeFront, TypeOK, PcData, Working, db, logs
  <2>3. CASE m_queue_data # <<>>
    <3>1. /\ Head(m_queue_data) \in Ids
          /\ Tail(m_queue_data) \in Seq(Ids) /\ Len(Tail(m_queue_data)) <= ROWS_DATA_MAX_SIZE
      BY <2>3 DEF TypeOK
    <3>2. /\ upc' = [upc EXCEPT ![u] = "build"]
          /\ tmpData' = [tmpData EXCEPT ![u] = Head(m_queue_data)]
          /\ m_queue_data' = Tail(m_queue_data)
      BY <1>4, <2>3 DEF TakeFront
    <3> HIDE DEF TypeInv
    <3>3. PcData' /\ \A v \in Updaters : upc'[v] = "exec" <=> MysqlOp' = v
      BY <1>4, <1>i, <3>1, <3>2 DEF TypeInv, TypeOK, PcData, Working, db
    <3> QED
      BY <1>4, <2>1, <3>1, <3>2, <3>3 DEF TypeInv, TypeOK, db, logs
  <2> QED
    BY <2>2, <2>3
<1>5. ASSUME NEW u \in Updaters, ConsumerData(u) PROVE TypeInv'
  <2>1. CASE m_queue_data = <<>>
    BY <1>5, <2>1, ZenonT(60) DEF ConsumerData, TypeOK, PcData, Working, db, logs
  <2> QED
    BY <1>4, <1>5, <2>1 DEF ConsumerData
<1>6. ASSUME NEW u \in Updaters, ConsumerResume(u) PROVE TypeInv'
  BY <1>4, <1>6 DEF ConsumerResume
<1>7. ASSUME NEW u \in Updaters, LoadJson(u) PROVE TypeInv'
  <2> DEFINE b == body[tmpData[u]]
  <2>1. tmpData[u] \in Ids /\ b \in Bodies \cup {Unparsable}
    BY <1>7 DEF LoadJson, TypeOK, PcData, Working
  <2>2. CASE b = Unparsable \/ Throws(b)
    <3>1. /\ upc[u] = "build" /\ upc' = [upc EXCEPT ![u] = "take"]
          /\ failed' = failed \cup {tmpData[u]}
          /\ tmpData' = [tmpData EXCEPT ![u] = 0]
          /\ UNCHANGED <<body, hpc, m_queue_data, sqls, db, success, dropped>>
      BY <1>7, <2>2 DEF LoadJson
    <3> HIDE DEF b
    <3> QED
      BY <2>1, <3>1 DEF TypeOK, PcData, Working, db
  <2>3. CASE ~(b = Unparsable \/ Throws(b))
    <3>1. Built(b) \in Seq(Keys)
      BY <2>1, <2>3, BuiltProperties
    <3> QED
      BY <1>7, <2>3, <3>1, ZenonT(60) DEF LoadJson, TypeOK, PcData, Working, db
  <2> QED
    BY <2>2, <2>3
<1>8. ASSUME NEW u \in Updaters, Lock(u) PROVE TypeInv'
  BY <1>8 DEF Lock, TypeOK, PcData, Working, logs
<1>9. ASSUME NEW u \in Updaters, ExecOneSql(u) PROVE TypeInv'
  <2>1. Head(sqls[u]) \in Keys /\ Tail(sqls[u]) \in Seq(Keys)
    BY <1>9 DEF ExecOneSql, TypeOK
  <2> QED
    BY <1>9, <2>1 DEF ExecOneSql, TypeOK, PcData, logs
<1>10. ASSUME NEW u \in Updaters, upc[u] = "exec", Finish(u)
       PROVE  /\ upc' \in [Updaters -> {"take", "empty", "resume", "build", "lock", "exec"}]
              /\ tmpData' \in [Updaters -> Ids \cup {0}]
              /\ sqls' \in [Updaters -> Seq(Keys)]
              /\ MysqlOp' \in Updaters \cup {NoOne}
              /\ \A v \in Updaters : upc'[v] = "exec" <=> MysqlOp' = v
              /\ PcData'
              /\ tmpData[u] \in Ids
  BY <1>10 DEF Finish, TypeOK, PcData, Working
<1>11. ASSUME NEW u \in Updaters, ExecFails(u) PROVE TypeInv'
  <2>1. errors' \in 0..MaxErrors
    BY <1>11 DEF ExecFails, TypeOK
  <2> QED
    BY <1>10, <1>11, <2>1 DEF ExecFails, TypeOK
<1>12. ASSUME NEW u \in Updaters, Commit(u) PROVE TypeInv'
  BY <1>10, <1>12 DEF Commit, TypeOK
<1>13. CASE SpuriousWake
  BY <1>13, ZenonT(60) DEF SpuriousWake, TypeOK, PcData, Working, db, logs
<1>14. CASE ConnectionLost
  BY <1>14 DEF ConnectionLost, TypeOK, PcData, logs
<1>15. CASE PingFails
  BY <1>15 DEF PingFails, TypeOK, PcData, logs
<1>16. CASE UNCHANGED vars
  BY <1>16 DEF vars, TypeOK, PcData
<1> QED
  BY <1>1, <1>2, <1>3, <1>5, <1>6, <1>7, <1>8, <1>9, <1>11, <1>12, <1>13, <1>14, <1>15, <1>16
     DEF Next, HandlerStep, UpdaterStep

(* The variables keep their ranges, the queue its bound, and MysqlOp is    *)
(* held exactly by the one update thread that executes statements: at most *)
(* one transaction is open (ProductData, ConsumerData, execMutilSql).      *)
THEOREM TypeCorrect == Spec => []TypeOK
<1>1. Spec => []TypeInv
  BY InitTypeInv, NextTypeInv, PTL DEF Spec
<1> QED
  BY <1>1, PTL DEF TypeInv

-----------------------------------------------------------------------------
(* Every step keeps messages from waiting beside sleeping update threads.  *)
LEMMA NextQueueServed ==
  ASSUME Updaters # {}, TypeInv, QueueServed, [Next]_vars
  PROVE  QueueServed'
<1>t. upc \in [Updaters -> UPcs] /\ m_queue_data \in Seq(Ids)
  BY DEF TypeInv, TypeOK, UPcs
<1> DEFINE Quiet == /\ UNCHANGED m_queue_data
                    /\ \A u \in Updaters : upc[u] # "empty" => upc'[u] # "empty"
<1>q. Quiet => QueueServed'
  BY DEF QueueServed
<1>1. ASSUME NEW m \in Ids, Receive(m) PROVE Quiet
  BY <1>1 DEF Receive
<1>2. ASSUME NEW m \in Ids, ProductData(m) PROVE QueueServed'
  <2>1. CASE UNCHANGED <<m_queue_data, upc>>
    BY <2>1, <1>q
  <2>2. CASE upc' \in WakeEmpty(upc)
    <3>1. CASE \E u \in Updaters : upc[u] = "empty"
      BY <1>t, <2>2, <3>1, WakeEmptyMoves DEF QueueServed
    <3>2. CASE \A u \in Updaters : upc[u] # "empty"
      BY <1>t, <2>2, <3>2, WakeEmptyMoves DEF QueueServed
    <3> QED
      BY <3>1, <3>2
  <2> QED
    BY <1>2, <2>1, <2>2 DEF ProductData
<1>3. ASSUME NEW m \in Ids, ProductResume(m) PROVE Quiet
  BY <1>3, <1>t, WakeEmptyMoves DEF ProductResume
<1>4. ASSUME NEW u \in Updaters, TakeFront(u) PROVE QueueServed'
  <2>1. upc'[u] \in {"take", "build"}
    BY <1>4, <1>t DEF TakeFront
  <2> QED
    BY <2>1 DEF QueueServed
<1>5. ASSUME NEW u \in Updaters, ConsumerData(u) PROVE QueueServed'
  BY <1>4, <1>5 DEF ConsumerData, QueueServed
<1>6. ASSUME NEW u \in Updaters, ConsumerResume(u) PROVE QueueServed'
  BY <1>4, <1>6 DEF ConsumerResume
<1>7. ASSUME NEW u \in Updaters, LoadJson(u) PROVE Quiet
  BY <1>7, <1>t DEF LoadJson
<1>8. ASSUME NEW u \in Updaters, Lock(u) \/ ExecOneSql(u) \/ ExecFails(u) \/ Commit(u) PROVE Quiet
  BY <1>8, <1>t DEF Lock, ExecOneSql, ExecFails, Commit, Finish
<1>9. CASE SpuriousWake
  BY <1>9, <1>t, <1>q DEF SpuriousWake
<1>10. CASE ConnectionLost \/ PingFails \/ UNCHANGED vars
  BY <1>10, <1>q DEF ConnectionLost, PingFails, vars
<1> QED
  BY <1>1, <1>2, <1>3, <1>5, <1>6, <1>7, <1>8, <1>9, <1>10, <1>q
     DEF Next, HandlerStep, UpdaterStep

(* As long as there is an update thread, messages never wait beside update *)
(* threads that all sleep: no signal of "empty" is lost, although the      *)
(* waits are not repeated (UpdateDbThread.cpp).                            *)
THEOREM QueueServedHolds ==
  ASSUME Updaters # {}
  PROVE  Spec => []QueueServed
<1>1. Init => TypeInv /\ QueueServed
  BY InitTypeInv DEF Init, QueueServed
<1>2. TypeInv /\ QueueServed /\ [Next]_vars => TypeInv' /\ QueueServed'
  BY NextTypeInv, NextQueueServed
<1> QED
  BY <1>1, <1>2, PTL DEF Spec

-----------------------------------------------------------------------------
(* A message that LoadJson rejects by an exception.                        *)
Rejected(m) == body[m] = Unparsable \/ Throws(body[m])

(* Only messages that were not rejected reach the transaction.             *)
InertInv ==
  /\ \A m \in Ids : Rejected(m) => \A k \in Keys : rows[k] # m /\ work[k] # m
  /\ \A u \in Updaters : upc[u] \in {"lock", "exec"} => ~Rejected(tmpData[u])

(* Every step keeps rejected messages out of the transaction.              *)
LEMMA NextInertInv ==
  ASSUME TypeInv, InertInv, [Next]_vars
  PROVE  InertInv'
<1>t. /\ upc \in [Updaters -> UPcs] /\ tmpData \in [Updaters -> Ids \cup {0}]
      /\ work \in [Keys -> Ids \cup {0}] /\ rows \in [Keys -> Ids \cup {0}]
      /\ sqls \in [Updaters -> Seq(Keys)]
  BY DEF TypeInv, TypeOK, UPcs
<1>r. ASSUME UNCHANGED body, NEW m PROVE Rejected(m)' = Rejected(m)
  BY <1>r DEF Rejected
<1> DEFINE Quiet == /\ UNCHANGED <<body, work, rows>>
                    /\ \A u \in Updaters : upc'[u] \in {"lock", "exec"} =>
                         upc[u] \in {"lock", "exec"} /\ tmpData'[u] = tmpData[u]
<1>q. Quiet => InertInv'
  BY DEF InertInv, Rejected
<1>1. ASSUME NEW m \in Ids, Receive(m) PROVE Quiet
  BY <1>1 DEF Receive, db
<1>2. ASSUME NEW m \in Ids, ProductData(m) PROVE Quiet
  BY <1>2, <1>t, WakeEmptyMoves DEF ProductData, db
<1>3. ASSUME NEW m \in Ids, ProductResume(m) PROVE Quiet
  BY <1>3, <1>t, WakeEmptyMoves DEF ProductResume, db
<1>4. ASSUME NEW u \in Updaters, ConsumerData(u) \/ ConsumerResume(u) PROVE Quiet
  BY <1>4, <1>t DEF ConsumerData, ConsumerResume, TakeFront, db
<1>5. ASSUME NEW u \in Updaters, LoadJson(u) PROVE InertInv'
  <2>1. CASE Rejected(tmpData[u])
    <3>1. Quiet
      BY <1>5, <1>t, <2>1 DEF LoadJson, db, Rejected
    <3> QED
      BY <3>1, <1>q
  <2>2. CASE ~Rejected(tmpData[u])
    BY <1>5, <1>t, <2>2 DEF LoadJson, db, Rejected, InertInv
  <2> QED
    BY <2>1, <2>2
<1>6. ASSUME NEW u \in Updaters, Lock(u) PROVE Quiet
  BY <1>6, <1>t DEF Lock
<1>7. ASSUME NEW u \in Updaters, ExecOneSql(u) PROVE InertInv'
  <2>1. ~Rejected(tmpData[u])
    BY <1>7 DEF ExecOneSql, InertInv
  <2>2. /\ UNCHANGED <<body, rows, upc, tmpData>>
        /\ \A k \in Keys : work'[k] = work[k] \/ work'[k] = tmpData[u]
    BY <1>7, <1>t DEF ExecOneSql
  <2> QED
    BY <2>1, <2>2 DEF InertInv, Rejected
<1>8. ASSUME NEW u \in Updaters, ExecFails(u) PROVE Quiet
  BY <1>8, <1>t DEF ExecFails, Finish
<1>9. ASSUME NEW u \in Updaters, Commit(u) PROVE InertInv'
  <2>1. /\ UNCHANGED <<body, work>> /\ rows' \in {rows, work}
        /\ \A v \in Updaters : upc'[v] \in {"lock", "exec"} =>
             upc[v] \in {"lock", "exec"} /\ tmpData'[v] = tmpData[v]
    BY <1>9, <1>t DEF Commit, Finish
  <2> QED
    BY <2>1 DEF InertInv, Rejected
<1>10. CASE SpuriousWake
  BY <1>10, <1>t, <1>q DEF SpuriousWake, db
<1>11. CASE ConnectionLost
  BY <1>11 DEF ConnectionLost, InertInv, Rejected
<1>12. CASE PingFails \/ UNCHANGED vars
  BY <1>12, <1>q DEF PingFails, vars
<1> QED
  BY <1>1, <1>2, <1>3, <1>4, <1>5, <1>6, <1>7, <1>8, <1>9, <1>10, <1>11, <1>12, <1>q
     DEF Next, HandlerStep, UpdaterStep

(* A message that LoadJson rejects leaves no trace, in the committed rows  *)
(* or in the open transaction (BuildFinally.cpp, UpdateDbThread.cpp).      *)
THEOREM RejectedInertHolds == Spec => []RejectedInert
<1>1. Init => TypeInv /\ InertInv
  BY InitTypeInv DEF Init, InertInv, Ids
<1>2. TypeInv /\ InertInv /\ [Next]_vars => TypeInv' /\ InertInv'
  BY NextTypeInv, NextInertInv
<1>3. InertInv => RejectedInert
  BY DEF InertInv, RejectedInert, Rejected
<1> QED
  BY <1>1, <1>2, <1>3, PTL DEF Spec

-----------------------------------------------------------------------------
(* What update thread u still has to execute is its message without the    *)
(* first d rows; those are in the open transaction, unless the connection  *)
(* broke and the transaction is gone.                                      *)
Done(u, d) ==
  LET B == Built(body[tmpData[u]]) IN
  /\ Len(B) = d + Len(sqls[u])
  /\ \A i \in 1..Len(sqls[u]) : sqls[u][i] = B[d + i]
  /\ upc[u] = "lock" => d = 0
  /\ upc[u] = "exec" /\ alive => \A i \in 1..d : work[B[i]] = tmpData[u]

CommitInv ==
  \A u \in Updaters :
    upc[u] \in {"lock", "exec"} => body[tmpData[u]] \in Bodies /\ \E d \in Nat : Done(u, d)

(* Every step keeps what the open transaction has done of its message.     *)
LEMMA NextCommitInv ==
  ASSUME TypeInv, InertInv, CommitInv, [Next]_vars
  PROVE  CommitInv'
<1>t. /\ upc \in [Updaters -> UPcs] /\ tmpData \in [Updaters -> Ids \cup {0}]
      /\ work \in [Keys -> Ids \cup {0}] /\ rows \in [Keys -> Ids \cup {0}]
      /\ sqls \in [Updaters -> Seq(Keys)] /\ body \in [Ids -> Bodies \cup {Unparsable}]
  BY DEF TypeInv, TypeOK, UPcs
<1>x. \A u, v \in Updaters : upc[u] = "exec" /\ upc[v] = "exec" => u = v
  BY DEF TypeInv, TypeOK
<1> DEFINE Same(u) == /\ upc'[u] = upc[u] /\ tmpData'[u] = tmpData[u] /\ sqls'[u] = sqls[u]
                      /\ UNCHANGED body
           Kept(u) == upc'[u] \in {"lock", "exec"} => 
                        body'[tmpData'[u]] \in Bodies /\ \E d \in Nat : Done(u, d)'
<1>s. ASSUME NEW u \in Updaters, upc'[u] \in {"lock", "exec"} => Same(u),
             UNCHANGED <<work, alive>> \/ upc'[u] = "lock" \/ alive' = FALSE
      PROVE  Kept(u)
  <2> SUFFICES ASSUME upc'[u] \in {"lock", "exec"}
               PROVE  body'[tmpData'[u]] \in Bodies /\ \E d \in Nat : Done(u, d)'
    OBVIOUS
  <2>1. Same(u)
    BY <1>s
  <2>2. PICK d \in Nat : Done(u, d)
    BY <2>1 DEF CommitInv
  <2>3. Done(u, d)'
    BY <1>s, <2>1, <2>2 DEF Done
  <2> QED
    BY <2>1, <2>3 DEF CommitInv
<1> DEFINE Quiet == /\ \A u \in Updaters : upc'[u] \in {"lock", "exec"} => Same(u)
                    /\ UNCHANGED <<work, alive>>
<1>q. Quiet => CommitInv'
  BY <1>s DEF CommitInv
<1>k. (\A u \in Updaters : Kept(u)) => CommitInv'
  BY DEF CommitInv
<1>1. ASSUME NEW m \in Ids, Receive(m) PROVE Quiet
  BY <1>1 DEF Receive, db
<1>2. ASSUME NEW m \in Ids, ProductData(m) PROVE Quiet
  BY <1>2, <1>t, WakeEmptyMoves DEF ProductData, db
<1>3. ASSUME NEW m \in Ids, ProductResume(m) PROVE Quiet
  BY <1>3, <1>t, WakeEmptyMoves DEF ProductResume, db
<1>4. ASSUME NEW u \in Updaters, ConsumerData(u) \/ ConsumerResume(u) PROVE Quiet
  BY <1>4, <1>t DEF ConsumerData, ConsumerResume, TakeFront, db
<1>5. ASSUME NEW u \in Updaters, LoadJson(u) PROVE CommitInv'
  <2> DEFINE b == body[tmpData[u]]
  <2>1. tmpData[u] \in Ids /\ b \in Bodies \cup {Unparsable}
    BY <1>5 DEF LoadJson, TypeInv, TypeOK, PcData, Working
  <2>2. CASE Rejected(tmpData[u])
    <3>1. Quiet
      BY <1>5, <1>t, <2>2 DEF LoadJson, db, Rejected
    <3> QED
      BY <3>1, <1>q
  <2>3. CASE ~Rejected(tmpData[u])
    <3>1. /\ upc' = [upc EXCEPT ![u] = "lock"] /\ sqls' = [sqls EXCEPT ![u] = Built(b)]
          /\ UNCHANGED <<body, tmpData, work, alive>>
      BY <1>5, <2>3 DEF LoadJson, db, Rejected
    <3>2. b \in Bodies /\ Built(b) \in Seq(Keys)
      BY <2>1, <2>3, BuiltProperties DEF Rejected
    <3>3. ASSUME NEW v \in Updaters, v # u PROVE Kept(v)
      BY <1>s, <1>t, <3>1, <3>3
    <3>4. Done(u, 0)'
      BY <1>t, <3>1, <3>2 DEF Done
    <3>5. Kept(u)
      BY <1>t, <3>1, <3>2, <3>4
    <3> QED
      BY <1>k, <3>3, <3>5
  <2> QED
    BY <2>2, <2>3
<1>6. ASSUME NEW u \in Updaters, Lock(u) PROVE CommitInv'
  <2>1. ASSUME NEW v \in Updaters, v # u PROVE Kept(v)
    BY <1>6, <1>s, <1>t, <2>1 DEF Lock
  <2>2. PICK d \in Nat : Done(u, d) /\ d = 0
    BY <1>6 DEF Lock, CommitInv, Done
  <2>3. Done(u, 0)'
    BY <1>6, <1>t, <2>2 DEF Lock, Done
  <2>4. Kept(u)
    BY <1>6, <1>t, <2>3 DEF Lock, CommitInv
  <2> QED
    BY <1>k, <2>1, <2>4
<1>7. ASSUME NEW u \in Updaters, ExecOneSql(u) PROVE CommitInv'
  <2>1. ASSUME NEW v \in Updaters, v # u PROVE Kept(v)
    BY <1>7, <1>s, <1>t, <1>x, <2>1 DEF ExecOneSql, UPcs
  <2> DEFINE B == Built(body[tmpData[u]])
  <2>2. PICK d \in Nat : Done(u, d)
    BY <1>7 DEF ExecOneSql, CommitInv
  <2>3. /\ alive /\ upc[u] = "exec" /\ sqls[u] # <<>>
        /\ work' = [work EXCEPT ![Head(sqls[u])] = tmpData[u]]
        /\ sqls' = [sqls EXCEPT ![u] = Tail(@)]
        /\ UNCHANGED <<body, upc, tmpData, alive>>
    BY <1>7 DEF ExecOneSql
  <2>4. body[tmpData[u]] \in Bodies /\ B \in Seq(Keys)
    BY <1>7, BuiltProperties DEF ExecOneSql, CommitInv, InertInv, Rejected
  <2>5. /\ sqls[u] \in Seq(Keys) /\ Len(sqls[u]) > 0 /\ Len(B) = d + Len(sqls[u])
        /\ \A i \in 1..Len(sqls[u]) : sqls[u][i] = B[d + i]
        /\ \A i \in 1..d : work[B[i]] = tmpData[u]
    BY <1>t, <2>2, <2>3 DEF Done
  <2> HIDE DEF B
  <2>6. /\ Len(Tail(sqls[u])) = Len(sqls[u]) - 1
        /\ \A i \in 1..Len(Tail(sqls[u])) : Tail(sqls[u])[i] = B[d + 1 + i]
        /\ Head(sqls[u]) = B[d + 1]
    BY <2>5
  <2>7. \A i \in 1..(d + 1) : B[i] \in Keys /\ work'[B[i]] = tmpData[u]
    BY <1>t, <2>3, <2>4, <2>5, <2>6
  <2>8. B' = B /\ sqls'[u] = Tail(sqls[u])
    BY <1>t, <2>3 DEF B
  <2>9. Done(u, d + 1)'
    <3>1. /\ Len(B) = (d + 1) + Len(sqls'[u])
          /\ \A i \in 1..Len(sqls'[u]) : sqls'[u][i] = B[(d + 1) + i]
      <4>1. PICK T : T = Tail(sqls[u]) OBVIOUS
      <4>2. PICK n : n = Len(sqls[u]) OBVIOUS
      <4>3. n \in Nat /\ Len(T) = n - 1 /\ Len(B) = d + n
        BY <2>5, <2>6, <4>1, <4>2
      <4>4. d + n = (d + 1) + (n - 1)
        BY <4>3
      <4>5. Len(B) = (d + 1) + Len(T)
        BY <4>3, <4>4, Zenon
      <4>6. \A i \in 1..Len(T) : T[i] = B[(d + 1) + i]
        BY <2>6, <4>1
      <4> QED
        BY <2>8, <4>1, <4>5, <4>6, Zenon
    <3> QED
      BY <2>3, <2>7, <2>8, <3>1 DEF Done, B
  <2>10. Kept(u)
    <3>1. d + 1 \in Nat
      OBVIOUS
    <3> QED
      BY <2>3, <2>4, <2>9, <3>1, Zenon
  <2> QED
    BY <1>k, <2>1, <2>10
<1>8. ASSUME NEW u \in Updaters, ExecFails(u) \/ Commit(u) PROVE Quiet
  BY <1>8, <1>t DEF ExecFails, Commit, Finish
<1>9. CASE SpuriousWake
  BY <1>9, <1>t, <1>q DEF SpuriousWake, db
<1>10. CASE ConnectionLost
  BY <1>10, <1>s, <1>k DEF ConnectionLost
<1>11. CASE PingFails \/ UNCHANGED vars
  BY <1>11, <1>q DEF PingFails, vars
<1> HIDE DEF Quiet
<1> QED
  BY <1>1, <1>2, <1>3, <1>4, <1>5, <1>6, <1>7, <1>8, <1>9, <1>10, <1>11, <1>q
     DEF Next, HandlerStep, UpdaterStep

(* What a step that logs a message as success does to the rows.            *)
Committed ==
  \A m \in success' \ success :
    alive => \A i \in DOMAIN Built(body[m]) : rows'[Built(body[m])[i]] = m

(* A step that logs a success has committed the whole message.             *)
LEMMA NextCommitted ==
  ASSUME TypeInv, CommitInv, [Next]_vars
  PROVE  Committed
<1>1. ASSUME NEW u \in Updaters, Commit(u) PROVE Committed
  <2>1. PICK d \in Nat : Done(u, d)
    BY <1>1 DEF Commit, CommitInv
  <2>2. sqls[u] \in Seq(Keys) /\ sqls[u] = <<>> /\ upc[u] = "exec"
    BY <1>1 DEF Commit, TypeInv, TypeOK
  <2>3. body[tmpData[u]] \in Bodies
    BY <1>1 DEF Commit, CommitInv
  <2>4. DOMAIN Built(body[tmpData[u]]) = 1..d
    BY <2>1, <2>2, <2>3, BuiltProperties DEF Done
  <2>5. alive => \A i \in 1..d : work[Built(body[tmpData[u]])[i]] = tmpData[u]
    BY <2>1, <2>2 DEF Done
  <2> QED
    BY <1>1, <2>4, <2>5 DEF Commit, Committed
<1>2. CASE UNCHANGED success
  BY <1>2 DEF Committed
<1>3. (\A u \in Updaters : ~Commit(u)) => UNCHANGED success
  BY DEF Next, HandlerStep, UpdaterStep, Receive, ProductData, ProductResume, ConsumerData,
         ConsumerResume, LoadJson, Lock, ExecOneSql, ExecFails, SpuriousWake, ConnectionLost,
         PingFails, vars, logs
<1> QED
  BY <1>1, <1>2, <1>3

(* A message is logged as success, over a connection that is up, only in a *)
(* step after which every row built from it is committed with its value,   *)
(* whatever the other update threads do (execMutilSql under MysqlOp).      *)
THEOREM CommitWholeHolds == Spec => CommitWhole
<1> DEFINE I == TypeInv /\ InertInv /\ CommitInv
<1>1. Init => I
  BY InitTypeInv DEF Init, InertInv, CommitInv, Ids
<1>2. I /\ [Next]_vars => I' /\ [Committed]_vars
  BY NextTypeInv, NextInertInv, NextCommitInv, NextCommitted
<1>3. Spec => [][Committed]_vars
  BY <1>1, <1>2, PTL DEF Spec
<1> QED
  BY <1>3, PTL DEF CommitWhole, Committed

-----------------------------------------------------------------------------
(* Message m is at place p, and nowhere else.                              *)
PlaceNames == {"nowhere", "thread", "queue", "updater", "success", "failed", "dropped"}
InQueue(m) == \E i \in DOMAIN m_queue_data : m_queue_data[i] = m
WithUpdater(m) == \E u \in Updaters : tmpData[u] = m

IsAt(m, p) ==
  /\ hpc[m] = "none" <=> p = "nowhere"
  /\ hpc[m] \in {"enter", "full", "resume"} <=> p = "thread"
  /\ InQueue(m) <=> p = "queue"
  /\ WithUpdater(m) <=> p = "updater"
  /\ m \in success <=> p = "success"
  /\ m \in failed <=> p = "failed"
  /\ m \in dropped <=> p = "dropped"

OneEach ==
  /\ \A i, j \in DOMAIN m_queue_data : m_queue_data[i] = m_queue_data[j] => i = j
  /\ \A u, v \in Updaters : tmpData[u] = tmpData[v] /\ tmpData[u] # 0 => u = v

AccountedInv == OneEach /\ \A m \in Ids : \E p \in PlaceNames : IsAt(m, p)

(* Every step moves a message from one place to one other.                 *)
LEMMA NextAccountedInv ==
  ASSUME TypeInv, AccountedInv, [Next]_vars
  PROVE  AccountedInv'
<1>t. /\ upc \in [Updaters -> UPcs] /\ tmpData \in [Updaters -> Ids \cup {0}]
      /\ hpc \in [Ids -> HPcs] /\ m_queue_data \in Seq(Ids)
      /\ \A u \in Updaters : upc[u] \in Working <=> tmpData[u] # 0
  BY DEF TypeInv, TypeOK, PcData, UPcs, HPcs
<1>i. 0 \notin Ids
  BY DEF Ids
<1> DEFINE PcKept(m) == /\ hpc'[m] = "none" <=> hpc[m] = "none"
                        /\ hpc'[m] \in {"enter", "full", "resume"} <=>
                             hpc[m] \in {"enter", "full", "resume"}
           Kept(m) == /\ PcKept(m)
                      /\ InQueue(m)' <=> InQueue(m)
                      /\ WithUpdater(m)' <=> WithUpdater(m)
                      /\ m \in success' <=> m \in success
                      /\ m \in failed' <=> m \in failed
                      /\ m \in dropped' <=> m \in dropped
<1>k. ASSUME NEW m \in Ids, Kept(m) PROVE \E p \in PlaceNames : IsAt(m, p)'
  <2>1. PICK p \in PlaceNames : IsAt(m, p)
    BY DEF AccountedInv
  <2>2. IsAt(m, p)'
    BY <1>k, <2>1 DEF IsAt
  <2> QED
    BY <2>2
<1>q. ASSUME UNCHANGED <<m_queue_data, tmpData>>
      PROVE  OneEach' /\ \A m \in Ids : (InQueue(m)' <=> InQueue(m)) /\ (WithUpdater(m)' <=> WithUpdater(m))
  BY <1>q DEF AccountedInv, OneEach, InQueue, WithUpdater
<1>w. ASSUME hpc' \in WakeFull(hpc) PROVE \A m \in Ids : PcKept(m)
  BY <1>t, <1>w, WakeFullMoves
<1>n. ASSUME OneEach', \A m \in Ids : Kept(m) PROVE AccountedInv'
  BY <1>k, <1>n DEF AccountedInv
<1>m. ASSUME NEW m \in Ids, NEW p, NEW q \in PlaceNames, IsAt(m, p), IsAt(m, q)',
             OneEach', \A n \in Ids \ {m} : Kept(n)
      PROVE  AccountedInv'
  BY <1>k, <1>m DEF AccountedInv
<1> HIDE DEF Kept
<1>1. ASSUME NEW m \in Ids, Receive(m) PROVE AccountedInv'
  <2>1. PICK p \in PlaceNames : IsAt(m, p) BY DEF AccountedInv
  <2>2. p = "nowhere" BY <1>1, <2>1 DEF IsAt, Receive
  <2>3. UNCHANGED <<m_queue_data, tmpData, success, failed, dropped>> /\ hpc'[m] = "enter"
    BY <1>1, <1>t DEF Receive, logs
  <2>4. \A n \in Ids \ {m} : Kept(n)
    BY <1>1, <1>q, <1>t, <2>3 DEF Receive, Kept
  <2>5. IsAt(m, "thread")'
    BY <1>q, <2>1, <2>2, <2>3 DEF IsAt
  <2> QED
    BY <1>m, <1>q, <2>1, <2>3, <2>4, <2>5 DEF PlaceNames
<1>2. ASSUME NEW m \in Ids, ProductData(m) PROVE AccountedInv'
  <2>0. UNCHANGED <<tmpData, success, failed, dropped>> /\ hpc[m] = "enter"
    BY <1>2 DEF ProductData, logs
  <2>1. CASE Len(m_queue_data) >= ROWS_DATA_MAX_SIZE
    <3>1. UNCHANGED m_queue_data /\ hpc' = [hpc EXCEPT ![m] = "full"]
      BY <1>2, <2>1 DEF ProductData
    <3>2. \A n \in Ids : Kept(n)
      BY <1>q, <1>t, <2>0, <3>1 DEF Kept
    <3> QED
      BY <1>n, <1>q, <2>0, <3>1, <3>2
  <2>2. CASE ~(Len(m_queue_data) >= ROWS_DATA_MAX_SIZE)
    <3>1. m_queue_data' = Append(m_queue_data, m) /\ hpc' = [hpc EXCEPT ![m] = "done"]
      BY <1>2, <2>2 DEF ProductData
    <3>2. PICK p \in PlaceNames : IsAt(m, p) BY DEF AccountedInv
    <3>3. p = "thread" BY <2>0, <3>2 DEF IsAt
    <3>4. \A i \in DOMAIN m_queue_data : m_queue_data[i] # m
      BY <3>2, <3>3 DEF IsAt, InQueue
    <3>5. /\ DOMAIN m_queue_data' = 1..(Len(m_queue_data) + 1)
          /\ DOMAIN m_queue_data = 1..Len(m_queue_data) /\ Len(m_queue_data) \in Nat
          /\ \A i \in DOMAIN m_queue_data : m_queue_data'[i] = m_queue_data[i]
          /\ m_queue_data'[Len(m_queue_data) + 1] = m
      BY <1>t, <3>1
    <3>6. OneEach'
      <4>1. \A i, j \in DOMAIN m_queue_data' : m_queue_data'[i] = m_queue_data'[j] => i = j
        BY <3>4, <3>5 DEF AccountedInv, OneEach
      <4> QED
        BY <2>0, <4>1 DEF AccountedInv, OneEach
    <3>7. InQueue(m)' /\ \A n \in Ids \ {m} : InQueue(n)' <=> InQueue(n)
      BY <3>5 DEF InQueue
    <3>8. \A n \in Ids : WithUpdater(n)' <=> WithUpdater(n)
      BY <2>0 DEF WithUpdater
    <3>9. \A n \in Ids \ {m} : Kept(n)
      BY <1>t, <2>0, <3>1, <3>7, <3>8 DEF Kept
    <3>10. IsAt(m, "queue")'
      <4>1. hpc'[m] = "done"
        BY <1>t, <3>1
      <4> QED
        BY <2>0, <3>2, <3>3, <3>7, <3>8, <4>1 DEF IsAt
    <3> QED
      BY <1>m, <3>2, <3>6, <3>9, <3>10 DEF PlaceNames
  <2> QED
    BY <2>1, <2>2
<1>3. ASSUME NEW m \in Ids, ProductResume(m) PROVE AccountedInv'
  <2>1. PICK p \in PlaceNames : IsAt(m, p) BY DEF AccountedInv
  <2>2. p = "thread" BY <1>3, <2>1 DEF IsAt, ProductResume
  <2>3. /\ UNCHANGED <<m_queue_data, tmpData, success, failed>>
        /\ hpc'[m] = "done" /\ dropped' = dropped \cup {m}
        /\ hpc' = [hpc EXCEPT ![m] = "done"]
    BY <1>3, <1>t DEF ProductResume
  <2>4. \A n \in Ids \ {m} : Kept(n)
    BY <1>q, <1>t, <2>3 DEF Kept
  <2>5. IsAt(m, "dropped")'
    BY <1>q, <2>1, <2>2, <2>3 DEF IsAt
  <2> QED
    BY <1>m, <1>q, <2>1, <2>3, <2>4, <2>5 DEF PlaceNames
<1>4. ASSUME NEW u \in Updaters, upc[u] \in {"take", "resume"}, TakeFront(u),
             UNCHANGED <<body, sqls, db, logs>>
      PROVE  AccountedInv'
  <2>0. UNCHANGED <<success, failed, dropped>> /\ \A n \in Ids : PcKept(n)
    BY <1>4, <1>w DEF TakeFront, logs
  <2>1. CASE m_queue_data = <<>>
    <3>1. UNCHANGED <<m_queue_data, tmpData>>
      BY <1>4, <2>1 DEF TakeFront
    <3>2. \A n \in Ids : Kept(n)
      BY <1>q, <2>0, <3>1 DEF Kept
    <3> QED
      BY <1>n, <1>q, <3>1, <3>2
  <2>2. CASE m_queue_data # <<>>
    <3>0. PICK m : m = Head(m_queue_data) OBVIOUS
    <3>1. m_queue_data' = Tail(m_queue_data) /\ tmpData' = [tmpData EXCEPT ![u] = m]
      BY <1>4, <2>2, <3>0 DEF TakeFront
    <3>2. m \in Ids /\ tmpData[u] = 0
      BY <1>4, <1>t, <2>2, <3>0 DEF Working
    <3>3. /\ DOMAIN m_queue_data = 1..Len(m_queue_data)
          /\ DOMAIN m_queue_data' = 1..(Len(m_queue_data) - 1)
          /\ Len(m_queue_data) \in Nat \ {0}
          /\ \A i \in DOMAIN m_queue_data' : m_queue_data'[i] = m_queue_data[i + 1]
          /\ m_queue_data[1] = m
      BY <1>t, <2>2, <3>0, <3>1
    <3>4. PICK p \in PlaceNames : IsAt(m, p) BY <3>2 DEF AccountedInv
    <3>5. InQueue(m) BY <3>3 DEF InQueue
    <3>6. p = "queue" BY <3>4, <3>5 DEF IsAt
    <3>7. ~InQueue(m)' /\ \A n \in Ids \ {m} : InQueue(n)' <=> InQueue(n)
      <4>1. ~InQueue(m)'
        BY <3>3 DEF InQueue, AccountedInv, OneEach
      <4>2. ASSUME NEW n \in Ids \ {m}, InQueue(n) PROVE InQueue(n)'
        <5>1. PICK i \in DOMAIN m_queue_data : m_queue_data[i] = n
          BY <4>2 DEF InQueue
        <5>2. i - 1 \in DOMAIN m_queue_data' /\ (i - 1) + 1 = i
          BY <3>3, <5>1
        <5> QED
          BY <3>3, <5>1, <5>2 DEF InQueue
      <4>3. ASSUME NEW n \in Ids \ {m}, InQueue(n)' PROVE InQueue(n)
        BY <3>3, <4>3 DEF InQueue
      <4> QED
        BY <4>1, <4>2, <4>3
    <3>8. WithUpdater(m)' /\ \A n \in Ids \ {m} : WithUpdater(n)' <=> WithUpdater(n)
      <4>1. tmpData'[u] = m /\ \A v \in Updaters \ {u} : tmpData'[v] = tmpData[v]
        BY <1>t, <3>1
      <4> QED
        BY <1>i, <3>2, <4>1 DEF WithUpdater
    <3>9. \A n \in Ids \ {m} : Kept(n)
      BY <2>0, <3>7, <3>8 DEF Kept
    <3>10. IsAt(m, "updater")'
      BY <2>0, <3>2, <3>4, <3>6, <3>7, <3>8 DEF IsAt
    <3>11. OneEach'
      <4>1. \A i, j \in DOMAIN m_queue_data' : m_queue_data'[i] = m_queue_data'[j] => i = j
        BY <3>3 DEF AccountedInv, OneEach
      <4>2. ~WithUpdater(m)
        BY <3>4, <3>6 DEF IsAt
      <4>3. tmpData'[u] = m /\ \A v \in Updaters \ {u} : tmpData'[v] = tmpData[v]
        BY <1>t, <3>1
      <4>4. \A v, w \in Updaters : tmpData'[v] = tmpData'[w] /\ tmpData'[v] # 0 => v = w
        BY <4>2, <4>3 DEF AccountedInv, OneEach, WithUpdater
      <4> QED
        BY <4>1, <4>4 DEF OneEach
    <3> QED
      BY <1>m, <3>2, <3>4, <3>9, <3>10, <3>11 DEF PlaceNames
  <2> QED
    BY <2>1, <2>2
<1>5. ASSUME NEW u \in Updaters, ConsumerData(u) \/ ConsumerResume(u) PROVE AccountedInv'
  <2>1. CASE ConsumerData(u) /\ m_queue_data = <<>>
    <3>1. UNCHANGED <<m_queue_data, tmpData, hpc, success, failed, dropped>>
      BY <2>1 DEF ConsumerData, logs
    <3>2. \A n \in Ids : Kept(n)
      BY <1>q, <3>1 DEF Kept
    <3> QED
      BY <1>n, <1>q, <3>1, <3>2
  <2> QED
    BY <1>4, <1>5, <2>1 DEF ConsumerData, ConsumerResume
(* An update thread ends its message: p becomes success or failed.         *)
<1>6. ASSUME NEW u \in Updaters, upc[u] \in Working, NEW q \in {"success", "failed"},
             tmpData' = [tmpData EXCEPT ![u] = 0], UNCHANGED <<m_queue_data, hpc, dropped>>,
             success' = IF q = "success" THEN success \cup {tmpData[u]} ELSE success,
             failed' = IF q = "failed" THEN failed \cup {tmpData[u]} ELSE failed
      PROVE  AccountedInv'
  <2>0. PICK m : m = tmpData[u] OBVIOUS
  <2>1. m \in Ids /\ WithUpdater(m)
    BY <1>6, <1>t, <2>0 DEF WithUpdater
  <2>2. PICK p \in PlaceNames : IsAt(m, p) BY <2>1 DEF AccountedInv
  <2>3. p = "updater" BY <2>1, <2>2 DEF IsAt
  <2>4. tmpData'[u] = 0 /\ \A v \in Updaters \ {u} : tmpData'[v] = tmpData[v]
    BY <1>6, <1>t
  <2>5. OneEach'
    BY <1>6, <2>4 DEF AccountedInv, OneEach
  <2>6. ~WithUpdater(m)' /\ \A n \in Ids \ {m} : WithUpdater(n)' <=> WithUpdater(n)
    <3>1. \A v \in Updaters \ {u} : tmpData[v] # m
      BY <1>i, <2>0, <2>1 DEF AccountedInv, OneEach
    <3> QED
      BY <1>i, <2>0, <2>1, <2>4, <3>1 DEF WithUpdater
  <2>7. \A n \in Ids : InQueue(n)' <=> InQueue(n)
    BY <1>6 DEF InQueue
  <2>8. (m \in success' <=> q = "success") /\ (m \in failed' <=> q = "failed")
    BY <1>6, <2>0, <2>2, <2>3 DEF IsAt
  <2>9. \A n \in Ids \ {m} : (n \in success' <=> n \in success) /\ (n \in failed' <=> n \in failed)
    BY <1>6, <2>0
  <2>10. \A n \in Ids \ {m} : Kept(n)
    BY <1>6, <2>6, <2>7, <2>9 DEF Kept
  <2>11. IsAt(m, q)'
    BY <1>6, <2>1, <2>2, <2>3, <2>6, <2>7, <2>8 DEF IsAt
  <2> QED
    BY <1>6, <1>m, <2>1, <2>2, <2>5, <2>10, <2>11 DEF PlaceNames
<1> DEFINE Quiet == UNCHANGED <<m_queue_data, tmpData, success, failed, dropped>>
                    /\ \A m \in Ids : PcKept(m)
<1>z. Quiet => AccountedInv'
  <2> SUFFICES ASSUME Quiet PROVE AccountedInv'
    OBVIOUS
  <2>1. \A n \in Ids : Kept(n)
    BY <1>q DEF Kept
  <2> QED
    BY <1>n, <1>q, <2>1
<1>7. ASSUME NEW u \in Updaters, LoadJson(u) PROVE AccountedInv'
  <2>1. CASE Rejected(tmpData[u])
    BY <1>6, <1>7, <2>1 DEF LoadJson, Rejected, Working
  <2>2. CASE ~Rejected(tmpData[u])
    BY <1>7, <1>z, <2>2 DEF LoadJson, Rejected
  <2> QED
    BY <2>1, <2>2
<1>8. ASSUME NEW u \in Updaters, Lock(u) \/ ExecOneSql(u) PROVE Quiet
  BY <1>8 DEF Lock, ExecOneSql, logs
<1>9. ASSUME NEW u \in Updaters, ExecFails(u) PROVE AccountedInv'
  BY <1>6, <1>9 DEF ExecFails, Finish, Working
<1>10. ASSUME NEW u \in Updaters, Commit(u) PROVE AccountedInv'
  BY <1>6, <1>10 DEF Commit, Finish, Working
<1>11. CASE SpuriousWake
  <2>1. Quiet
    BY <1>11, <1>t DEF SpuriousWake, logs
  <2> QED
    BY <1>z, <2>1
<1>12. CASE ConnectionLost \/ PingFails \/ UNCHANGED vars
  BY <1>12, <1>z DEF ConnectionLost, PingFails, vars, logs
<1> HIDE DEF Quiet
<1> QED
  BY <1>1, <1>2, <1>3, <1>5, <1>7, <1>8, <1>9, <1>10, <1>11, <1>12, <1>z
     DEF Next, HandlerStep, UpdaterStep

(* Every received message is in exactly one place, from its thread to the  *)
(* log, and is never queued or worked on twice (HandlerMessage.cpp,        *)
(* UpdateDbThread.cpp).                                                    *)
THEOREM AccountedHolds == Spec => []Accounted
<1>1. Init => TypeInv /\ AccountedInv
  <2> SUFFICES ASSUME Init PROVE AccountedInv
    BY InitTypeInv
  <2>1. \A m \in Ids : IsAt(m, "nowhere")
    BY DEF Init, IsAt, InQueue, WithUpdater, Ids
  <2> QED
    BY <2>1 DEF Init, AccountedInv, OneEach, PlaceNames
<1>2. TypeInv /\ AccountedInv /\ [Next]_vars => TypeInv' /\ AccountedInv'
  BY NextTypeInv, NextAccountedInv
<1>3. AccountedInv => Accounted
  <2> SUFFICES ASSUME AccountedInv, NEW m \in Ids, hpc[m] # "none"
               PROVE  Cardinality(Places(m)) = 1
    BY DEF Accounted, AccountedInv, OneEach
  <2>1. PICK p \in PlaceNames : IsAt(m, p)
    BY DEF AccountedInv
  <2>2. Places(m) = {p}
    BY <2>1 DEF IsAt, Places, PlaceNames, InQueue, WithUpdater
  <2> QED
    BY <2>2, FS_Singleton
<1> QED
  BY <1>1, <1>2, <1>3, PTL DEF Spec
=============================================================================
