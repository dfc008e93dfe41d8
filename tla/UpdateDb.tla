----------------------------- MODULE UpdateDb -----------------------------
(***************************************************************************)
(* How a store's client applies downlink messages to its database          *)
(* (wmsclient: HandlerMessage, UpdateDbThread, BuildFinally,               *)
(* MysqlOperation).                                                        *)
(*                                                                         *)
(* The receive thread starts one thread per message, which puts the        *)
(* message into a bounded queue; an update thread takes it, turns it into  *)
(* statements (LoadJson) and executes them in one transaction              *)
(* (execMutilSql, under the mutex MysqlOp).  A ping thread watches the     *)
(* connection.                                                             *)
(*                                                                         *)
(* A message is its number in the order of reception; its items are the    *)
(* rows it writes.  A row holds the number of the message that wrote it.   *)
(***************************************************************************)
EXTENDS Naturals, Sequences, FiniteSets

CONSTANTS
  Keys,               \* rows of the store's database
  NullItem,           \* an item of "tables" that is null
  BadItem,            \* an item of "tables" without name, column, ...
  Bodies,             \* the bodies messages may have: sequences of items
  Unparsable,         \* a body that is not JSON or has no "tables"
  Updaters,           \* update threads: one per Run()
  NoOne,              \* MysqlOp is free
  ROWS_DATA_MAX_SIZE, \* capacity of m_queue_data
  MaxMsgs,            \* bound: messages received
  MaxErrors           \* bound: statements the database refuses

ASSUME ConstantsAssumption ==
  /\ NullItem \notin Keys /\ BadItem \notin Keys /\ NullItem # BadItem
  /\ \A b \in Bodies : b \in Seq(Keys \cup {NullItem, BadItem})
  /\ Unparsable \notin Bodies
  /\ NoOne \notin Updaters
  /\ IsFiniteSet(Updaters)
  /\ ROWS_DATA_MAX_SIZE \in Nat \ {0}
  /\ MaxMsgs \in Nat
  /\ MaxErrors \in Nat

Ids == 1..MaxMsgs

VARIABLES
  body,         \* what each message says
  hpc,          \* where the thread of each message is
  m_queue_data, \* messages waiting for an update thread
  upc,          \* where each update thread is
  tmpData,      \* its message
  sqls,         \* the rows its remaining statements write
  MysqlOp,      \* the update thread that holds the mutex
  work,         \* the rows as the connection's open transaction sees them
  rows,         \* the committed rows
  alive,        \* the connection to the database is up
  m_bConnect,   \* what the client believes of it
  errors,       \* statements refused so far
  success,      \* messages logged as successData
  failed,       \* messages logged as failedData
  dropped       \* messages given up at the full queue

db   == <<MysqlOp, work, rows, alive, m_bConnect, errors>>
logs == <<success, failed, dropped>>
vars == <<body, hpc, m_queue_data, upc, tmpData, sqls, MysqlOp, work, rows, alive,
          m_bConnect, errors, success, failed, dropped>>

(* StartClientAll: getInstance has connected (or nothing starts at all).   *)
Init ==
  /\ body \in [Ids -> Bodies \cup {Unparsable}]
  /\ hpc = [m \in Ids |-> "none"]
  /\ m_queue_data = <<>>
  /\ upc = [u \in Updaters |-> "take"]
  /\ tmpData = [u \in Updaters |-> 0]
  /\ sqls = [u \in Updaters |-> <<>>]
  /\ MysqlOp = NoOne
  /\ work = [k \in Keys |-> 0]
  /\ rows = [k \in Keys |-> 0]
  /\ alive = TRUE
  /\ m_bConnect = TRUE
  /\ errors = 0
  /\ success = {}
  /\ failed = {}
  /\ dropped = {}

-----------------------------------------------------------------------------
(* WakeConditionVariable(empty) and (full): one sleeper, if there is one.  *)
WakeEmpty(pc) ==
  IF \E u \in Updaters : pc[u] = "empty"
  THEN {[pc EXCEPT ![u] = "resume"] : u \in {v \in Updaters : pc[v] = "empty"}}
  ELSE {pc}

WakeFull(pc) ==
  IF \E m \in Ids : pc[m] = "full"
  THEN {[pc EXCEPT ![m] = "resume"] : m \in {n \in Ids : pc[n] = "full"}}
  ELSE {pc}

(* CHandlerMessage::Run: the next message in order gets its thread.        *)
Receive(m) ==
  /\ hpc[m] = "none"
  /\ \A n \in 1..(m - 1) : hpc[n] # "none"
  /\ hpc' = [hpc EXCEPT ![m] = "enter"]
  /\ UNCHANGED <<body, m_queue_data, upc, tmpData, sqls, db, logs>>

(* Mutant of ProductData: the signal is missing.                           *)
ProductDataSilent(m) ==
  /\ hpc[m] = "enter"
  /\ Len(m_queue_data) < ROWS_DATA_MAX_SIZE
  /\ m_queue_data' = Append(m_queue_data, m)
  /\ hpc' = [hpc EXCEPT ![m] = "done"]
  /\ UNCHANGED <<body, upc, tmpData, sqls, db, logs>>

(* ProductData: at a full queue the thread sleeps and pushes nothing.      *)
ProductData(m) ==
  /\ hpc[m] = "enter"
  /\ IF Len(m_queue_data) >= ROWS_DATA_MAX_SIZE
     THEN /\ hpc' = [hpc EXCEPT ![m] = "full"]
          /\ UNCHANGED <<m_queue_data, upc>>
     ELSE /\ m_queue_data' = Append(m_queue_data, m)
          /\ hpc' = [hpc EXCEPT ![m] = "done"]
          /\ upc' \in WakeEmpty(upc)
  /\ UNCHANGED <<body, tmpData, sqls, db, logs>>

(* ProductData after the wait.                                             *)
ProductResume(m) ==
  /\ hpc[m] = "resume"
  /\ hpc' = [hpc EXCEPT ![m] = "done"]
  /\ dropped' = dropped \cup {m}
  /\ upc' \in WakeEmpty(upc)
  /\ UNCHANGED <<body, m_queue_data, tmpData, sqls, db, success, failed>>

-----------------------------------------------------------------------------
(* Mutant of TakeFront: nobody on full is woken.                           *)
TakeFrontSilent(u) ==
  /\ IF m_queue_data = <<>>
     THEN /\ upc' = [upc EXCEPT ![u] = "take"]
          /\ UNCHANGED <<m_queue_data, tmpData>>
     ELSE /\ upc' = [upc EXCEPT ![u] = "build"]
          /\ tmpData' = [tmpData EXCEPT ![u] = Head(m_queue_data)]
          /\ m_queue_data' = Tail(m_queue_data)
  /\ UNCHANGED hpc

(* Mutant of TakeFront: the front stays in the queue.                      *)
TakeFrontKeeps(u) ==
  /\ m_queue_data # <<>>
  /\ upc' = [upc EXCEPT ![u] = "build"]
  /\ tmpData' = [tmpData EXCEPT ![u] = Head(m_queue_data)]
  /\ hpc' \in WakeFull(hpc)
  /\ UNCHANGED m_queue_data

(* ConsumerData, from its second test on.  FALSE sends ThreadProcess back  *)
(* to ConsumerData; either way a sleeper on full is woken.                 *)
TakeFront(u) ==
  /\ IF m_queue_data = <<>>
     THEN /\ upc' = [upc EXCEPT ![u] = "take"]
          /\ UNCHANGED <<m_queue_data, tmpData>>
     ELSE /\ upc' = [upc EXCEPT ![u] = "build"]
          /\ tmpData' = [tmpData EXCEPT ![u] = Head(m_queue_data)]
          /\ m_queue_data' = Tail(m_queue_data)
  /\ hpc' \in WakeFull(hpc)

ConsumerData(u) ==
  /\ upc[u] = "take"
  /\ IF m_queue_data = <<>>
     THEN /\ upc' = [upc EXCEPT ![u] = "empty"]
          /\ UNCHANGED <<m_queue_data, tmpData, hpc>>
     ELSE TakeFront(u)
  /\ UNCHANGED <<body, sqls, db, logs>>

ConsumerResume(u) ==
  /\ upc[u] = "resume"
  /\ TakeFront(u)
  /\ UNCHANGED <<body, sqls, db, logs>>

(* A condition variable may wake a sleeper without a signal.               *)
SpuriousWake ==
  /\ \/ \E u \in Updaters :
          upc[u] = "empty" /\ upc' = [upc EXCEPT ![u] = "resume"] /\ UNCHANGED hpc
     \/ \E m \in Ids :
          hpc[m] = "full" /\ hpc' = [hpc EXCEPT ![m] = "resume"] /\ UNCHANGED upc
  /\ UNCHANGED <<body, m_queue_data, tmpData, sqls, db, logs>>

-----------------------------------------------------------------------------
(* LoadJson's result is not looked at: a null item ends it, and what was   *)
(* built before it is executed; any other bad item throws.                 *)
Cut(b) ==
  CHOOSE n \in 0..Len(b) :
    /\ \A i \in 1..n : b[i] # NullItem
    /\ n < Len(b) => b[n + 1] = NullItem

Built(b) == SubSeq(b, 1, Cut(b))

Throws(b) == \E i \in 1..Cut(b) : b[i] = BadItem

(* Mutant of LoadJson: the exception is swallowed, and what was built      *)
(* before the bad item is executed.                                        *)
LoadJsonKeeps(u) ==
  /\ upc[u] = "build"
  /\ LET b == body[tmpData[u]] IN
     /\ b # Unparsable
     /\ upc' = [upc EXCEPT ![u] = "lock"]
     /\ sqls' = [sqls EXCEPT ![u] = SelectSeq(Built(b), LAMBDA i : i \in Keys)]
  /\ UNCHANGED <<body, hpc, m_queue_data, tmpData, db, logs>>

LoadJson(u) ==
  /\ upc[u] = "build"
  /\ LET b == body[tmpData[u]] IN
     IF b = Unparsable \/ (b # Unparsable /\ Throws(b))
     THEN /\ upc' = [upc EXCEPT ![u] = "take"]
          /\ failed' = failed \cup {tmpData[u]}
          /\ tmpData' = [tmpData EXCEPT ![u] = 0]
          /\ UNCHANGED sqls
     ELSE /\ upc' = [upc EXCEPT ![u] = "lock"]
          /\ sqls' = [sqls EXCEPT ![u] = Built(b)]
          /\ UNCHANGED <<failed, tmpData>>
  /\ UNCHANGED <<body, hpc, m_queue_data, db, success, dropped>>

(* Mutant of Lock: the mutex is not taken.                                 *)
LockFree(u) ==
  /\ upc[u] = "lock"
  /\ upc' = [upc EXCEPT ![u] = "exec"]
  /\ UNCHANGED <<body, hpc, m_queue_data, tmpData, sqls, db, logs>>

(* execMutilSql: the mutex, then statement after statement, then commit.   *)
Lock(u) ==
  /\ upc[u] = "lock"
  /\ MysqlOp = NoOne
  /\ MysqlOp' = u
  /\ upc' = [upc EXCEPT ![u] = "exec"]
  /\ UNCHANGED <<body, hpc, m_queue_data, tmpData, sqls, work, rows, alive, m_bConnect, errors, logs>>

(* One row: select, then update or insert.                                 *)
ExecOneSql(u) ==
  /\ upc[u] = "exec"
  /\ sqls[u] # <<>>
  /\ m_bConnect /\ alive
  /\ work' = [work EXCEPT ![Head(sqls[u])] = tmpData[u]]
  /\ sqls' = [sqls EXCEPT ![u] = Tail(@)]
  /\ UNCHANGED <<body, hpc, m_queue_data, upc, tmpData, MysqlOp, rows, alive, m_bConnect, errors, logs>>

(* The end of a message: the log entry, the mutex, the next message.       *)
Finish(u) ==
  /\ upc' = [upc EXCEPT ![u] = "take"]
  /\ tmpData' = [tmpData EXCEPT ![u] = 0]
  /\ sqls' = [sqls EXCEPT ![u] = <<>>]
  /\ MysqlOp' = NoOne

(* The database refuses a statement, or the connection is gone: the        *)
(* exception is thrown before mysql_rollback, so the statements executed   *)
(* so far stay in the transaction.                                         *)
ExecFails(u) ==
  /\ upc[u] = "exec"
  /\ sqls[u] # <<>>
  /\ IF m_bConnect /\ alive
     THEN errors < MaxErrors /\ errors' = errors + 1
     ELSE UNCHANGED errors
  /\ failed' = failed \cup {tmpData[u]}
  /\ Finish(u)
  /\ UNCHANGED <<body, hpc, m_queue_data, work, rows, alive, m_bConnect, success, dropped>>

(* mysql_commit, whose result is not looked at.                            *)
Commit(u) ==
  /\ upc[u] = "exec"
  /\ sqls[u] = <<>>
  /\ rows' = IF alive THEN work ELSE rows
  /\ success' = success \cup {tmpData[u]}
  /\ Finish(u)
  /\ UNCHANGED <<body, hpc, m_queue_data, work, alive, m_bConnect, errors, failed, dropped>>

-----------------------------------------------------------------------------
(* The connection breaks: the database rolls the open transaction back.    *)
(* Nothing connects it again (MYSQL_OPT_RECONNECT is not set).             *)
ConnectionLost ==
  /\ alive
  /\ alive' = FALSE
  /\ work' = rows
  /\ UNCHANGED <<body, hpc, m_queue_data, upc, tmpData, sqls, MysqlOp, rows, m_bConnect, errors, logs>>

(* doPingThread, every 20 s, with the mutex.                               *)
PingFails ==
  /\ MysqlOp = NoOne
  /\ ~alive
  /\ m_bConnect
  /\ m_bConnect' = FALSE
  /\ UNCHANGED <<body, hpc, m_queue_data, upc, tmpData, sqls, MysqlOp, work, rows, alive, errors, logs>>

-----------------------------------------------------------------------------
HandlerStep(m) == ProductData(m) \/ ProductResume(m)

UpdaterStep(u) ==
  \/ ConsumerData(u) \/ ConsumerResume(u) \/ LoadJson(u)
  \/ Lock(u) \/ ExecOneSql(u) \/ ExecFails(u) \/ Commit(u)

Next ==
  \/ \E m \in Ids : Receive(m) \/ HandlerStep(m)
  \/ \E u \in Updaters : UpdaterStep(u)
  \/ SpuriousWake
  \/ ConnectionLost
  \/ PingFails

Spec == Init /\ [][Next]_vars

(* Threads that can go on do: handler threads, update threads (MysqlOp is  *)
(* released after finitely many statements).                               *)
Fairness ==
  /\ \A m \in Ids : WF_vars(HandlerStep(m))
  /\ \A u \in Updaters : WF_vars(UpdaterStep(u)) /\ SF_vars(Lock(u))

FairSpec == Spec /\ Fairness
-----------------------------------------------------------------------------
(* Every variable stays in its range, and MysqlOp is held exactly by the   *)
(* update thread that is executing statements.                             *)
TypeOK ==
  /\ body \in [Ids -> Bodies \cup {Unparsable}]
  /\ hpc \in [Ids -> {"none", "enter", "full", "resume", "done"}]
  /\ m_queue_data \in Seq(Ids) /\ Len(m_queue_data) <= ROWS_DATA_MAX_SIZE
  /\ upc \in [Updaters -> {"take", "empty", "resume", "build", "lock", "exec"}]
  /\ tmpData \in [Updaters -> Ids \cup {0}]
  /\ sqls \in [Updaters -> Seq(Keys)]
  /\ MysqlOp \in Updaters \cup {NoOne}
  /\ \A u \in Updaters : upc[u] = "exec" <=> MysqlOp = u
  /\ work \in [Keys -> Ids \cup {0}]
  /\ rows \in [Keys -> Ids \cup {0}]
  /\ alive \in BOOLEAN
  /\ m_bConnect \in BOOLEAN
  /\ errors \in 0..MaxErrors
  /\ success \in SUBSET Ids
  /\ failed \in SUBSET Ids
  /\ dropped \in SUBSET Ids

(* Where a message that has been received can be.                          *)
Places(m) ==
  {p \in {"thread", "queue", "updater", "success", "failed", "dropped"} :
     \/ p = "thread" /\ hpc[m] \in {"enter", "full", "resume"}
     \/ p = "queue" /\ \E i \in DOMAIN m_queue_data : m_queue_data[i] = m
     \/ p = "updater" /\ \E u \in Updaters : tmpData[u] = m
     \/ p = "success" /\ m \in success
     \/ p = "failed" /\ m \in failed
     \/ p = "dropped" /\ m \in dropped}

(* A received message is in exactly one place: with its thread, queued     *)
(* once, with one update thread, or logged once as success or failure, or  *)
(* given up at the full queue (ProductData, ConsumerData, ThreadProcess).  *)
Accounted ==
  /\ \A m \in Ids : hpc[m] # "none" => Cardinality(Places(m)) = 1
  /\ \A i, j \in DOMAIN m_queue_data : m_queue_data[i] = m_queue_data[j] => i = j
  /\ \A u, v \in Updaters : tmpData[u] = tmpData[v] /\ tmpData[u] # 0 => u = v

(* While messages wait, some update thread is awake: a signal sent beside  *)
(* no sleeper is never needed (ProductData's WakeConditionVariable(empty), *)
(* ConsumerData's wait in an if).                                          *)
QueueServed ==
  m_queue_data # <<>> => \E u \in Updaters : upc[u] # "empty"

(* A message that LoadJson rejects by an exception leaves no trace, in the *)
(* committed rows or in the open transaction.                              *)
RejectedInert ==
  \A m \in Ids, k \in Keys :
    (body[m] = Unparsable \/ Throws(body[m])) => rows[k] # m /\ work[k] # m

(* When a message is logged as success over a connection that is up, every *)
(* row built from it is committed with its value: no other update thread   *)
(* came in between (execMutilSql under MysqlOp).                           *)
CommitWhole ==
  [][\A m \in success' \ success :
       alive => \A i \in DOMAIN Built(body[m]) : rows'[Built(body[m])[i]] = m]_vars

(* Every received message is settled: logged, or given up at the full      *)
(* queue.  No handler thread and no message is left behind.                *)
MessageSettles ==
  \A m \in Ids : (hpc[m] # "none") ~> (m \in success \cup failed \cup dropped)

-----------------------------------------------------------------------------
(* What the code does not keep although its error path (MysqlOperation.cpp *)
(* mysql_rollback) intends it: a message logged as failed has no effect on *)
(* the committed rows.                                                     *)
FailureRolledBack == \A m \in failed, k \in Keys : rows[k] # m
=============================================================================
