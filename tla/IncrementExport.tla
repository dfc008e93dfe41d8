-------------------------- MODULE IncrementExport --------------------------
(***************************************************************************)
(* The client's export of changed rows (wmsclient: increment_export.cpp,   *)
(* MyslqQueue.cpp's execMutilSql, the dialog's two buttons).               *)
(*                                                                         *)
(* An export thread repeats: read the time of each table from              *)
(* tableinfo.xml (InitConfig), select the rows of the window that ends     *)
(* there (GetSelectSql, execMutilSql), queue them for the upload, move     *)
(* all times one period on in the file, one save per table, and sleep one  *)
(* period.  The time in the file is a position in the past, and nothing    *)
(* compares it with the clock.                                             *)
(*                                                                         *)
(* Times are numbers: what the thread writes has the form GetWriteXmlTime  *)
(* gives it, which GetTimeStampByStr reads back.  The second set of        *)
(* windows (B') is queried but never sent: PreQeueFindTableName is always  *)
(* empty, so the merge at MyslqQueue.cpp:761 is not reached.               *)
(***************************************************************************)
EXTENDS Integers, FiniteSets

CONSTANTS
  NTables,         \* tables of tableinfo.xml, numbered in its order
  glb_period_time, \* the period
  Threads,         \* export threads that can exist at a time
  FirstTime,       \* the time in the file at the start
  StartTime,       \* the clock at the start
  CrashAt,         \* steps of a thread at which the client may end
  MaxTime,         \* bound: clock
  MaxRows,         \* bound: rows changed
  MaxCrashes       \* bound: ends of the client

Tables == 1..NTables

Steps == {"loop", "read", "query", "advance", "save", "sleep"}

ASSUME ConstantsAssumption ==
  /\ NTables \in Nat \ {0}
  /\ glb_period_time \in Nat \ {0}
  /\ FirstTime \in Int
  /\ StartTime \in Int
  /\ FirstTime < StartTime
  /\ CrashAt \subseteq Steps
  /\ MaxTime \in Int /\ MaxRows \in Nat /\ MaxCrashes \in Nat

VARIABLES
  clock,          \* time(0), and the clock of the database
  changed,        \* rows: table and hm_update_timestamp
  exported,       \* rows given to PutOneMessageQueue
  xml,            \* hm_update_timestamp of each table in tableinfo.xml
  glb_timestamp,  \* the same in memory
  epc,            \* where each export thread is; "none": no thread
  window,         \* the bounds it selects by, per table
  newTime,        \* strQueryTime
  table,          \* the table it saves next
  wake,           \* when its sleep ends
  isRunning,
  m_query_db_run, \* the dialog's idea of it
  crashes

env    == <<clock, changed>>
local  == <<window, newTime, table, wake>>
dialog == <<isRunning, m_query_db_run>>
vars   == <<clock, changed, exported, xml, glb_timestamp, epc, window, newTime, table, wake,
            isRunning, m_query_db_run, crashes>>

Init ==
  /\ clock = StartTime
  /\ changed = {}
  /\ exported = {}
  /\ xml = [n \in Tables |-> FirstTime]
  /\ glb_timestamp = [n \in Tables |-> FirstTime]
  /\ epc = [e \in Threads |-> "none"]
  /\ window = [e \in Threads |-> [n \in Tables |-> [after |-> FirstTime, upto |-> FirstTime]]]
  /\ newTime = [e \in Threads |-> FirstTime]
  /\ table = [e \in Threads |-> 1]
  /\ wake = [e \in Threads |-> StartTime]
  /\ isRunning = TRUE
  /\ m_query_db_run = FALSE
  /\ crashes = 0

-----------------------------------------------------------------------------
(* Time passes, up to the bound.                                           *)
Tick ==
  /\ clock' = IF clock < MaxTime THEN clock + 1 ELSE clock
  /\ UNCHANGED <<changed, exported, xml, glb_timestamp, epc, local, dialog, crashes>>

(* The store's own programs change a row; the database stamps it.          *)
Change(n) ==
  /\ Cardinality(changed) < MaxRows
  /\ changed' = changed \cup {[table |-> n, time |-> clock]}
  /\ UNCHANGED <<clock, exported, xml, glb_timestamp, epc, local, dialog, crashes>>

-----------------------------------------------------------------------------
(* Mutant of Start: isRunning is not set again.                            *)
StartOnly(e) ==
  /\ ~m_query_db_run
  /\ epc[e] = "none"
  /\ m_query_db_run' = TRUE
  /\ epc' = [epc EXCEPT ![e] = "loop"]
  /\ UNCHANGED <<env, exported, xml, glb_timestamp, local, isRunning, crashes>>

(* OnBnClickedBtnThreaStar, StartGenerateData.                             *)
Start(e) ==
  /\ ~m_query_db_run
  /\ epc[e] = "none"
  /\ m_query_db_run' = TRUE
  /\ isRunning' = TRUE
  /\ epc' = [epc EXCEPT ![e] = "loop"]
  /\ UNCHANGED <<env, exported, xml, glb_timestamp, local, crashes>>

(* OnBnClickedBtnThreadEnd, StopGenerateData: the handle was closed when   *)
(* the thread was started, so the wait for the thread returns at once.     *)
Stop ==
  /\ m_query_db_run
  /\ m_query_db_run' = FALSE
  /\ isRunning' = FALSE
  /\ UNCHANGED <<env, exported, xml, glb_timestamp, epc, local, crashes>>

(* ThreadProcServer: the loop condition and InitConfig.                    *)
Loop(e) ==
  /\ epc[e] = "loop"
  /\ IF isRunning
     THEN /\ glb_timestamp' = xml
          /\ epc' = [epc EXCEPT ![e] = "read"]
     ELSE /\ epc' = [epc EXCEPT ![e] = "none"]
          /\ UNCHANGED glb_timestamp
  /\ UNCHANGED <<env, exported, xml, local, dialog, crashes>>

(* Mutant of Bounds: the window of a table does not begin one period back. *)
BoundsShort ==
  [n \in Tables |-> [after |-> glb_timestamp[1], upto |-> glb_timestamp[n]]]

(* GetSelectSql, set B: from the first table's time less a period, up to   *)
(* the table's own time.                                                   *)
Bounds ==
  [n \in Tables |-> [after |-> glb_timestamp[1] - glb_period_time, upto |-> glb_timestamp[n]]]

(* readData, with the mutex ReadDBIncrement.                               *)
GetSelectSql(e) ==
  /\ epc[e] = "read"
  /\ \A f \in Threads : epc[f] \notin {"query", "advance", "save"}
  /\ window' = [window EXCEPT ![e] = Bounds]
  /\ epc' = [epc EXCEPT ![e] = "query"]
  /\ UNCHANGED <<env, exported, xml, glb_timestamp, newTime, table, wake, dialog, crashes>>

(* execMutilSql.  A failed query ends the client: the exception is not     *)
(* caught (Crash at "query").                                              *)
execMutilSql(e) ==
  /\ epc[e] = "query"
  /\ exported' = exported \cup
       {r \in changed : window[e][r.table].after < r.time /\ r.time <= window[e][r.table].upto}
  /\ epc' = [epc EXCEPT ![e] = "advance"]
  /\ UNCHANGED <<env, xml, glb_timestamp, local, dialog, crashes>>

Advance(e) ==
  /\ epc[e] = "advance"
  /\ newTime' = [newTime EXCEPT ![e] = glb_timestamp[1] + glb_period_time]
  /\ table' = [table EXCEPT ![e] = 1]
  /\ epc' = [epc EXCEPT ![e] = "save"]
  /\ UNCHANGED <<env, exported, xml, glb_timestamp, window, wake, dialog, crashes>>

(* WriteTimeUpdateXML, a whole save for each table; after the last one the *)
(* sleep begins.                                                           *)
WriteTimeUpdateXML(e) ==
  /\ epc[e] = "save"
  /\ xml' = [xml EXCEPT ![table[e]] = newTime[e]]
  /\ IF table[e] < NTables
     THEN /\ table' = [table EXCEPT ![e] = @ + 1]
          /\ UNCHANGED <<epc, wake>>
     ELSE /\ epc' = [epc EXCEPT ![e] = "sleep"]
          /\ wake' = [wake EXCEPT ![e] = clock + glb_period_time]
          /\ UNCHANGED table
  /\ UNCHANGED <<env, exported, glb_timestamp, window, newTime, dialog, crashes>>

(* Mutant of WakeUp: the thread does not wait for its time.                *)
WakeUpEarly(e) ==
  /\ epc[e] = "sleep"
  /\ epc' = [epc EXCEPT ![e] = "loop"]
  /\ UNCHANGED <<env, exported, xml, glb_timestamp, local, dialog, crashes>>

WakeUp(e) ==
  /\ epc[e] = "sleep"
  /\ clock >= wake[e]
  /\ epc' = [epc EXCEPT ![e] = "loop"]
  /\ UNCHANGED <<env, exported, xml, glb_timestamp, local, dialog, crashes>>

(* The client ends with a thread at one of the steps in CrashAt and is     *)
(* started again; the file keeps what was saved.                           *)
Crash(e) ==
  /\ epc[e] \in CrashAt
  /\ crashes < MaxCrashes
  /\ crashes' = crashes + 1
  /\ epc' = [f \in Threads |-> "none"]
  /\ isRunning' = TRUE
  /\ m_query_db_run' = FALSE
  /\ UNCHANGED <<env, exported, xml, glb_timestamp, local>>

ThreadStep(e) ==
  \/ Loop(e) \/ GetSelectSql(e) \/ execMutilSql(e) \/ Advance(e)
  \/ WriteTimeUpdateXML(e) \/ WakeUp(e)

Next ==
  \/ Tick
  \/ \E n \in Tables : Change(n)
  \/ \E e \in Threads : Start(e) \/ ThreadStep(e) \/ Crash(e)
  \/ Stop

Spec == Init /\ [][Next]_vars

-----------------------------------------------------------------------------
(* Every variable stays in its range; the buttons and isRunning agree once *)
(* one of them has been pressed.                                           *)
TypeOK ==
  /\ clock \in Int
  /\ changed \subseteq [table : Tables, time : Int]
  /\ exported \subseteq changed
  /\ xml \in [Tables -> Int]
  /\ glb_timestamp \in [Tables -> Int]
  /\ epc \in [Threads -> Steps \cup {"none"}]
  /\ window \in [Threads -> [Tables -> [after : Int, upto : Int]]]
  /\ newTime \in [Threads -> Int]
  /\ table \in [Threads -> Tables]
  /\ wake \in [Threads -> Int]
  /\ isRunning \in BOOLEAN
  /\ m_query_db_run \in BOOLEAN
  /\ m_query_db_run => isRunning
  /\ crashes \in Nat

(* A window is selected only when its end lies in the past, although       *)
(* nothing compares it with the clock: the file's time moves one period    *)
(* per round and a round takes at least one (ThreadProcServer's Sleep).    *)
WindowPast ==
  \A e \in Threads, n \in Tables : epc[e] = "query" => window[e][n].upto < clock

(* No changed row is passed over: what lies a period or more before the    *)
(* file's time has been exported (GetSelectSql's bounds join without a     *)
(* gap, and the times are saved after the export).                         *)
RowsKept ==
  \A r \in changed : FirstTime - glb_period_time < r.time
                     /\ r.time <= xml[1] - glb_period_time => r \in exported

=============================================================================
