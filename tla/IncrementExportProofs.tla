----------------------- MODULE IncrementExportProofs -----------------------
(***************************************************************************)
(* Proofs about IncrementExport: the types for any number of threads, and  *)
(* the two properties of the windows for one export thread whose client    *)
(* does not end between the first save of a round and the end of its       *)
(* sleep.  Each of these assumptions is needed: README.md says which       *)
(* constants of ExSafe.cfg break RowsKept without it.                      *)
(***************************************************************************)
EXTENDS IncrementExport, TLAPS

(* The time up to which changed rows have been exported, as the thread     *)
(* stands.                                                                 *)
Frontier(e) ==
  CASE epc[e] = "advance" -> glb_timestamp[1]
    [] epc[e] = "save"    -> newTime[e] - glb_period_time
    [] OTHER              -> xml[1] - glb_period_time

(* All tables have the same time in the file, except between two saves.    *)
FileEven(e) ==
  \A n \in Tables :
    xml[n] = IF epc[e] # "save" THEN xml[1]
             ELSE IF n < table[e] THEN newTime[e] ELSE newTime[e] - glb_period_time

(* The file's time is behind the clock when a round begins.                *)
FilePast(e) ==
  /\ epc[e] \in {"none", "loop", "read", "query", "advance"} => xml[1] < clock
  /\ epc[e] = "sleep" => xml[1] < wake[e]

(* What the thread has read is what the file holds, until it saves.        *)
MemoryFresh(e) ==
  /\ epc[e] \in {"read", "query", "advance"} => glb_timestamp = xml
  /\ epc[e] = "query" => window[e] = Bounds

(* What lies before the frontier has been exported, and the frontier is in *)
(* the past: no row can still appear before it.                            *)
FrontierKept(e) ==
  /\ Frontier(e) < clock
  /\ \A r \in changed : FirstTime - glb_period_time < r.time /\ r.time <= Frontier(e)
                        => r \in exported

ExportInv(e) ==
  /\ TypeOK
  /\ FileEven(e)
  /\ FilePast(e)
  /\ MemoryFresh(e)
  /\ FrontierKept(e)

-----------------------------------------------------------------------------
(* Types, for any number of threads.                                       *)

(* There is a first table, and tables are numbers up to NTables.           *)
LEMMA OneIsTable == 1 \in Tables /\ \A n \in Tables : n \in Nat /\ n <= NTables
  BY ConstantsAssumption DEF Tables

(* Behind every table but the last there is a next one.                    *)
LEMMA NextTable ==
  ASSUME NEW n \in Tables, n < NTables
  PROVE  n + 1 \in Tables
  BY ConstantsAssumption DEF Tables

(* The types hold at the start.                                            *)
LEMMA InitTypeOK == Init => TypeOK
<1> SUFFICES ASSUME Init PROVE TypeOK
  OBVIOUS
<1>1. [after |-> FirstTime, upto |-> FirstTime] \in [after : Int, upto : Int]
  BY ConstantsAssumption
<1>2. window \in [Threads -> [Tables -> [after : Int, upto : Int]]]
  BY <1>1 DEF Init
<1> QED
  BY <1>2, ConstantsAssumption, OneIsTable DEF Init, TypeOK, Steps

(* Every step keeps them.                                                  *)
LEMMA NextTypeOK == TypeOK /\ [Next]_vars => TypeOK'
<1> SUFFICES ASSUME TypeOK, [Next]_vars PROVE TypeOK'
  OBVIOUS
<1> USE ConstantsAssumption, OneIsTable DEF TypeOK, Steps
<1>1. CASE Tick
  BY <1>1 DEF Tick, local, dialog
<1>2. ASSUME NEW n \in Tables, Change(n) PROVE TypeOK'
  BY <1>2 DEF Change, local, dialog
<1>3. ASSUME NEW e \in Threads, Start(e) PROVE TypeOK'
  BY <1>3 DEF Start, env, local
<1>4. CASE Stop
  BY <1>4 DEF Stop, env, local
<1>5. ASSUME NEW e \in Threads, Loop(e) PROVE TypeOK'
  BY <1>5 DEF Loop, env, local, dialog
<1>6. ASSUME NEW e \in Threads, GetSelectSql(e) PROVE TypeOK'
  <2>1. Bounds \in [Tables -> [after : Int, upto : Int]]
    BY SMTT(60) DEF Bounds, Tables
  <2>2. window' \in [Threads -> [Tables -> [after : Int, upto : Int]]]
    BY <1>6, <2>1 DEF GetSelectSql
  <2> QED
    BY <1>6, <2>2 DEF GetSelectSql, env, dialog
<1>7. ASSUME NEW e \in Threads, execMutilSql(e) PROVE TypeOK'
  BY <1>7 DEF execMutilSql, env, local, dialog
<1>8. ASSUME NEW e \in Threads, Advance(e) PROVE TypeOK'
  <2>1. newTime' \in [Threads -> Int] /\ table' \in [Threads -> Tables]
    <3>1. glb_timestamp[1] + glb_period_time \in Int
      OBVIOUS
    <3> QED
      BY <1>8, <3>1 DEF Advance
  <2> QED
    BY <1>8, <2>1 DEF Advance, env, dialog
<1>9. ASSUME NEW e \in Threads, WriteTimeUpdateXML(e) PROVE TypeOK'
  <2>1. table[e] < NTables => table[e] + 1 \in Tables
    BY NextTable
  <2>2. xml' \in [Tables -> Int]
    BY <1>9 DEF WriteTimeUpdateXML
  <2>3. table' \in [Threads -> Tables]
    BY <1>9, <2>1 DEF WriteTimeUpdateXML
  <2>4. wake' \in [Threads -> Int]
    <3>1. clock + glb_period_time \in Int
      OBVIOUS
    <3>2. wake' = wake \/ wake' = [wake EXCEPT ![e] = clock + glb_period_time]
      BY <1>9 DEF WriteTimeUpdateXML
    <3> QED
      BY <3>1, <3>2
  <2>5. epc' \in [Threads -> Steps \cup {"none"}]
    BY <1>9 DEF WriteTimeUpdateXML
  <2> QED
    BY <1>9, <2>2, <2>3, <2>4, <2>5 DEF WriteTimeUpdateXML, env, dialog
<1>10. ASSUME NEW e \in Threads, WakeUp(e) PROVE TypeOK'
  BY <1>10 DEF WakeUp, env, local, dialog
<1>11. ASSUME NEW e \in Threads, Crash(e) PROVE TypeOK'
  <2>1. epc' \in [Threads -> Steps \cup {"none"}] /\ crashes' \in Nat
    BY <1>11 DEF Crash
  <2>2. isRunning' = TRUE /\ m_query_db_run' = FALSE
    BY <1>11 DEF Crash
  <2> QED
    BY <1>11, <2>1, <2>2 DEF Crash, env, local
<1>12. CASE UNCHANGED vars
  BY <1>12 DEF vars
<1> QED
  BY <1>1, <1>2, <1>3, <1>4, <1>5, <1>6, <1>7, <1>8, <1>9, <1>10, <1>11, <1>12
     DEF Next, ThreadStep

(* Every variable stays in its range, and the button and isRunning agree,  *)
(* for any number of export threads, tables and ends of the client.        *)
THEOREM TypeCorrect == Spec => []TypeOK
  BY InitTypeOK, NextTypeOK, PTL DEF Spec

-----------------------------------------------------------------------------
(* The windows, for one export thread.                                     *)

(* The invariant of one export thread holds at the start.                  *)
LEMMA InitExportInv ==
  ASSUME NEW e, Threads = {e}, Init
  PROVE  ExportInv(e)
<1>1. TypeOK
  BY InitTypeOK
<1>2. epc[e] = "none" /\ 1 \in Tables
  BY ConstantsAssumption DEF Init, Tables
<1>3. \A n \in Tables : xml[n] = FirstTime
  BY DEF Init
<1>4. Frontier(e) = FirstTime - glb_period_time
  BY <1>2, <1>3 DEF Frontier
<1> QED
  BY <1>1, <1>2, <1>3, <1>4, ConstantsAssumption
     DEF ExportInv, FileEven, FilePast, MemoryFresh, FrontierKept, Init

(* Every step keeps it, unless the client ends between the saves and the   *)
(* sleep.                                                                  *)
LEMMA NextExportInv ==
  ASSUME NEW e, Threads = {e}, CrashAt \cap {"save", "sleep"} = {},
         ExportInv(e), [Next]_vars
  PROVE  ExportInv(e)'
<1>t. TypeOK /\ TypeOK'
  BY NextTypeOK DEF ExportInv
<1>c. /\ 1 \in Tables /\ NTables \in Nat \ {0} /\ glb_period_time \in Nat \ {0}
      /\ e \in Threads /\ DOMAIN epc = Threads
  BY <1>t, ConstantsAssumption DEF Tables, TypeOK
<1>i. /\ clock \in Int /\ clock' \in Int
      /\ xml \in [Tables -> Int] /\ xml[1] \in Int /\ xml'[1] \in Int
      /\ glb_timestamp \in [Tables -> Int] /\ glb_timestamp[1] \in Int
      /\ newTime[e] \in Int /\ wake[e] \in Int /\ table[e] \in Tables /\ table[e] \in Nat
      /\ newTime'[e] \in Int /\ wake'[e] \in Int
  BY <1>t, <1>c, OneIsTable DEF TypeOK
<1>r. \A r \in changed' : r.time \in Int /\ r.table \in Tables
  BY <1>t DEF TypeOK
<1>f. Frontier(e) \in Int
  BY <1>c, <1>i DEF Frontier
<1>0. FileEven(e) /\ FilePast(e) /\ MemoryFresh(e) /\ FrontierKept(e)
  BY DEF ExportInv
<1>1. CASE Tick
  BY <1>1, <1>0, <1>t, <1>c, <1>i
     DEF Tick, local, ExportInv, FileEven, FilePast, MemoryFresh, Bounds, FrontierKept, Frontier
<1>2. ASSUME NEW n \in Tables, Change(n) PROVE ExportInv(e)'
  <2>1. Frontier(e)' = Frontier(e)
    BY <1>2 DEF Change, local, Frontier
  <2>2. FrontierKept(e)'
    <3>1. ASSUME NEW r \in changed', r.time <= Frontier(e) PROVE r \in changed
      BY <1>2, <3>1, <1>0, <1>f, <1>i DEF Change, FrontierKept
    <3> QED
      BY <1>2, <2>1, <3>1, <1>0 DEF Change, FrontierKept
  <2> QED
    BY <1>2, <2>2, <1>0, <1>t
       DEF Change, local, ExportInv, FileEven, FilePast, MemoryFresh, Bounds
<1>3. CASE Start(e)
  BY <1>3, <1>0, <1>t, <1>c, <1>i
     DEF Start, env, local, ExportInv, FileEven, FilePast, MemoryFresh, FrontierKept, Frontier
<1>4. CASE Stop
  BY <1>4, <1>0, <1>t
     DEF Stop, env, local, ExportInv, FileEven, FilePast, MemoryFresh, Bounds, FrontierKept, Frontier
<1>5. CASE Loop(e)
  BY <1>5, <1>0, <1>t, <1>c, <1>i
     DEF Loop, env, local, ExportInv, FileEven, FilePast, MemoryFresh, FrontierKept, Frontier
<1>6. CASE GetSelectSql(e)
  <2>1. Bounds' = Bounds
    BY <1>6 DEF GetSelectSql, Bounds
  <2>2. window'[e] = Bounds /\ epc'[e] = "query"
    BY <1>6, <1>t, <1>c DEF GetSelectSql, TypeOK
  <2>3. MemoryFresh(e)'
    BY <1>6, <2>1, <2>2, <1>0 DEF GetSelectSql, MemoryFresh
  <2> QED
    BY <1>6, <2>2, <2>3, <1>0, <1>t, <1>c, <1>i
       DEF GetSelectSql, env, ExportInv, FileEven, FilePast, FrontierKept, Frontier
<1>7. CASE execMutilSql(e)
  <2>1. epc[e] = "query" /\ epc'[e] = "advance"
    BY <1>7, <1>c DEF execMutilSql
  <2>2. \A n \in Tables : /\ window[e][n].after = xml[1] - glb_period_time
                          /\ window[e][n].upto = xml[1]
    BY <2>1, <1>0, <1>c, <1>i DEF MemoryFresh, FileEven, Bounds
  <2>3. Frontier(e) = xml[1] - glb_period_time /\ Frontier(e)' = xml[1]
    BY <1>7, <2>1, <1>0 DEF Frontier, execMutilSql, MemoryFresh
  <2>4. FrontierKept(e)'
    <3>1. Frontier(e)' < clock'
      BY <1>7, <2>1, <2>3, <1>0 DEF FilePast, execMutilSql, env
    <3>2. ASSUME NEW r \in changed', FirstTime - glb_period_time < r.time,
                 r.time <= Frontier(e)'
          PROVE  r \in exported'
      <4>1. r \in changed /\ r.time \in Int /\ r.table \in Tables
        BY <1>7, <1>r DEF execMutilSql, env
      <4>2. CASE r.time <= xml[1] - glb_period_time
        BY <1>7, <3>2, <4>1, <4>2, <2>3, <1>0 DEF FrontierKept, execMutilSql
      <4>3. CASE xml[1] - glb_period_time < r.time
        BY <1>7, <3>2, <4>1, <4>3, <2>2, <2>3 DEF execMutilSql
      <4> QED
        BY <4>1, <4>2, <4>3, <1>c, <1>i
    <3> QED
      BY <3>1, <3>2 DEF FrontierKept
  <2> QED
    BY <1>7, <2>1, <2>4, <1>0, <1>t
       DEF execMutilSql, env, local, ExportInv, FileEven, FilePast, MemoryFresh
<1>8. CASE Advance(e)
  <2>1. /\ epc[e] = "advance" /\ epc'[e] = "save" /\ table'[e] = 1
        /\ newTime'[e] = glb_timestamp[1] + glb_period_time
    BY <1>8, <1>t, <1>c DEF Advance, TypeOK
  <2>2. glb_timestamp[1] = xml[1] /\ \A n \in Tables : xml[n] = xml[1] /\ ~(n < 1)
    BY <2>1, <1>0 DEF MemoryFresh, FileEven, Tables
  <2>3. newTime'[e] - glb_period_time = xml[1]
    BY <2>1, <2>2, <1>c, <1>i
  <2>4. FileEven(e)'
    BY <1>8, <2>1, <2>2, <2>3 DEF Advance, FileEven
  <2>5. Frontier(e)' = Frontier(e)
    BY <2>1, <2>2, <2>3 DEF Frontier
  <2>6. FrontierKept(e)'
    BY <1>8, <2>5, <1>0 DEF Advance, env, FrontierKept
  <2> QED
    BY <2>1, <2>4, <2>6, <1>t DEF ExportInv, FilePast, MemoryFresh
<1>9. CASE WriteTimeUpdateXML(e)
  <2>1. epc[e] = "save"
    BY <1>9 DEF WriteTimeUpdateXML
  <2>2. /\ xml'[table[e]] = newTime[e]
        /\ \A n \in Tables : n # table[e] => xml'[n] = xml[n]
        /\ newTime' = newTime /\ clock' = clock /\ changed' = changed /\ exported' = exported
    BY <1>9, <1>i DEF WriteTimeUpdateXML, env
  <2>3. \A n \in Tables : xml[n] = IF n < table[e] THEN newTime[e] ELSE newTime[e] - glb_period_time
    BY <2>1, <1>0 DEF FileEven
  <2>4. Frontier(e) = newTime[e] - glb_period_time
    BY <2>1 DEF Frontier
  <2>5. CASE table[e] < NTables
    <3>1. epc'[e] = "save" /\ table'[e] = table[e] + 1
      BY <1>9, <2>1, <2>5, <1>t, <1>c DEF WriteTimeUpdateXML, TypeOK
    <3>2. ASSUME NEW n \in Tables
          PROVE  xml'[n] = IF n < table'[e] THEN newTime'[e] ELSE newTime'[e] - glb_period_time
      <4>1. n \in Nat
        BY DEF Tables
      <4>2. CASE n = table[e]
        BY <4>1, <4>2, <2>2, <3>1
      <4>3. CASE n # table[e]
        BY <4>1, <4>3, <2>2, <2>3, <3>1, <1>i
      <4> QED
        BY <4>2, <4>3
    <3>3. FileEven(e)'
      BY <3>1, <3>2 DEF FileEven
    <3>4. FrontierKept(e)'
      BY <2>2, <2>4, <3>1, <1>0 DEF FrontierKept, Frontier
    <3> QED
      BY <3>1, <3>3, <3>4, <1>t DEF ExportInv, FilePast, MemoryFresh
  <2>6. CASE ~(table[e] < NTables)
    <3>1. epc'[e] = "sleep" /\ wake'[e] = clock + glb_period_time
      BY <1>9, <2>6, <1>t, <1>c DEF WriteTimeUpdateXML, TypeOK
    <3>2. ASSUME NEW n \in Tables PROVE xml'[n] = newTime[e]
      <4>1. n \in Nat /\ n <= table[e]
        BY <2>6, <1>i, <1>c DEF Tables
      <4> QED
        BY <4>1, <2>2, <2>3, <1>i
    <3>3. xml'[1] = newTime[e] /\ Frontier(e)' = Frontier(e)
      BY <3>1, <3>2, <2>4, <1>c DEF Frontier
    <3>4. FileEven(e)' /\ FilePast(e)'
      BY <3>1, <3>2, <3>3, <2>4, <1>0, <1>c, <1>i DEF FileEven, FilePast, FrontierKept
    <3>5. FrontierKept(e)'
      BY <2>2, <3>3, <1>0 DEF FrontierKept
    <3> QED
      BY <3>1, <3>4, <3>5, <1>t DEF ExportInv, MemoryFresh
  <2> QED
    BY <2>5, <2>6
<1>10. CASE WakeUp(e)
  BY <1>10, <1>0, <1>t, <1>c, <1>i
     DEF WakeUp, env, local, ExportInv, FileEven, FilePast, MemoryFresh, FrontierKept, Frontier
<1>11. CASE Crash(e)
  <2>1. /\ epc'[e] = "none" /\ epc[e] \in {"loop", "read", "query", "advance"}
        /\ UNCHANGED <<clock, changed, exported, xml>>
    BY <1>11, <1>c, ConstantsAssumption DEF Crash, env, Steps
  <2>2. xml[1] < clock /\ \A n \in Tables : xml[n] = xml[1]
    BY <2>1, <1>0 DEF FilePast, FileEven
  <2>3. xml[1] - glb_period_time <= Frontier(e)
    BY <2>1, <1>0, <1>c, <1>i DEF Frontier, MemoryFresh
  <2>4. Frontier(e) \in Int /\ Frontier(e)' = xml[1] - glb_period_time
    BY <2>1, <1>c, <1>i DEF Frontier
  <2>5. FrontierKept(e)'
    BY <2>1, <2>2, <2>3, <2>4, <1>0, <1>c, <1>i, <1>r DEF FrontierKept
  <2> QED
    BY <2>1, <2>2, <2>5, <1>t DEF ExportInv, FileEven, FilePast, MemoryFresh
<1>12. CASE UNCHANGED vars
  BY <1>12, <1>0, <1>t
     DEF vars, ExportInv, FileEven, FilePast, MemoryFresh, Bounds, FrontierKept, Frontier
<1> QED
  BY <1>1, <1>2, <1>3, <1>4, <1>5, <1>6, <1>7, <1>8, <1>9, <1>10, <1>11, <1>12
     DEF Next, ThreadStep

(* What the invariant says about the file's first time and a window.       *)
LEMMA ExportInvImplies ==
  ASSUME NEW e, Threads = {e}, ExportInv(e)
  PROVE  WindowPast /\ RowsKept
<1>c. /\ 1 \in Tables /\ NTables \in Nat \ {0} /\ glb_period_time \in Nat \ {0}
      /\ clock \in Int /\ xml[1] \in Int /\ glb_timestamp[1] \in Int /\ newTime[e] \in Int
      /\ table[e] \in Nat
      /\ \A r \in changed : r.time \in Int
  BY ConstantsAssumption DEF ExportInv, TypeOK, Tables
<1>1. WindowPast
  BY <1>c DEF WindowPast, ExportInv, FileEven, FilePast, MemoryFresh, Bounds
<1>2. xml[1] - glb_period_time <= Frontier(e) /\ Frontier(e) \in Int
  BY <1>c DEF ExportInv, FileEven, MemoryFresh, Frontier
<1>3. RowsKept
  BY <1>c, <1>2 DEF RowsKept, ExportInv, FrontierKept
<1> QED
  BY <1>1, <1>3

(* One export thread, whose client does not end between the first save of  *)
(* a round and the end of its sleep, selects only windows that are over.   *)
THEOREM WindowPastHolds ==
  ASSUME NEW CONSTANT e, Threads = {e}, CrashAt \cap {"save", "sleep"} = {}
  PROVE  Spec => []WindowPast
<1>1. Init => ExportInv(e)
  BY InitExportInv
<1>2. ExportInv(e) /\ [Next]_vars => ExportInv(e)'
  BY NextExportInv
<1>3. ExportInv(e) => WindowPast
  BY ExportInvImplies
<1> QED
  BY <1>1, <1>2, <1>3, PTL DEF Spec

(* Under the same assumptions no changed row is passed over, for any       *)
(* number of tables and any period.                                        *)
THEOREM RowsKeptHolds ==
  ASSUME NEW CONSTANT e, Threads = {e}, CrashAt \cap {"save", "sleep"} = {}
  PROVE  Spec => []RowsKept
<1>1. Init => ExportInv(e)
  BY InitExportInv
<1>2. ExportInv(e) /\ [Next]_vars => ExportInv(e)'
  BY NextExportInv
<1>3. ExportInv(e) => RowsKept
  BY ExportInvImplies
<1> QED
  BY <1>1, <1>2, <1>3, PTL DEF Spec
=============================================================================
