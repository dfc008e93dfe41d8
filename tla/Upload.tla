------------------------------- MODULE Upload -------------------------------
(***************************************************************************)
(* The client's queue of changed rows (wmsclient: increment_export.cpp,    *)
(* glb_head_queue_data), the export thread that fills it                   *)
(* (MyslqQueue.cpp, PutOneMessageQueue) and the upload threads that empty  *)
(* it (PreBinlog.cpp).  Which rows a round selects is the subject of       *)
(* module IncrementExport; here a round takes any of the rows that no      *)
(* saved window has covered.                                               *)
(*                                                                         *)
(* A message is one row, with the number of its round (headID) and its     *)
(* number in the round (headOrder).  The other two queues of               *)
(* increment_export.cpp are never used.  Module Uplink says what becomes   *)
(* of a message that is sent.                                              *)
(***************************************************************************)
EXTENDS Naturals, SequencesExt

CONSTANTS
  Rows,               \* rows the store's programs have changed
  Uploaders,          \* upload threads (StartProcessBinlog): one from
                      \* StartClientAll, one from each click on ButtonBinlog
  ROWS_DATA_MAX_SIZE, \* capacity of the queue (1000 in the code)
  MaxEnds,            \* bound: ends of the client's process
  Nothing,            \* no message, the NULL pointer
  Wild                \* what an uninitialised pointer points to

ASSUME UploadAssumption ==
  /\ ROWS_DATA_MAX_SIZE \in Nat \ {0}
  /\ MaxEnds \in Nat

VARIABLES
  unsaved,   \* rows that the next window still covers
  selected,  \* rows of the round's window
  round,     \* number of the round
  batch,     \* messages of the round not yet given to ProductDataGenerate
  epc,       \* the export thread: "sleep", "put", "full", "fullWoken", "save"
  glb_head_queue_data,
  upc,       \* upload threads: "run", "empty", "emptyWoken", "got"
  pData,     \* what each of them holds
  ends,      \* ends of the client so far
  gone       \* ghost: messages given up on the client

upload == <<unsaved, selected, round, batch, epc, glb_head_queue_data, upc, pData, ends, gone>>

Message == [row : Rows, round : Nat, order : Nat \ {0}]

UploadInit ==
  /\ unsaved = Rows
  /\ selected = {}
  /\ round = 0
  /\ batch = <<>>
  /\ epc = "sleep"
  /\ glb_head_queue_data = <<>>
  /\ upc = [u \in Uploaders |-> "run"]
  /\ pData = [u \in Uploaders |-> Nothing]
  /\ ends = 0
  /\ gone = {}

(* SleepConditionVariableCS and WakeConditionVariable: the uploaders wait  *)
(* on "empty", the export thread, holding its other mutexes, on "full".    *)
WakeEmpty(f) ==
  LET sleepers == {u \in Uploaders : f[u] = "empty"}
  IN  IF sleepers = {} THEN {f} ELSE {[f EXCEPT ![u] = "emptyWoken"] : u \in sleepers}

WakeFull == IF epc = "full" THEN "fullWoken" ELSE epc

-----------------------------------------------------------------------------
(* The export thread.                                                      *)

(* Mutant of ExecMutilSql: the numbering starts again at every row.        *)
ExecMutilSqlRestarts ==
  /\ epc = "sleep"
  /\ selected' \in SUBSET unsaved \ {{}}
  /\ LET rows == SetToSeq(selected')
     IN  batch' = [k \in DOMAIN rows |-> [row |-> rows[k], round |-> round + 1, order |-> 1]]
  /\ round' = round + 1
  /\ epc' = "put"
  /\ UNCHANGED <<unsaved, glb_head_queue_data, upc, pData, ends, gone>>

(* A round: execMutilSql selects rows, PutOneMessageQueue numbers them.    *)
ExecMutilSql ==
  /\ epc = "sleep"
  /\ selected' \in SUBSET unsaved \ {{}}
  /\ LET rows == SetToSeq(selected')
     IN  batch' = [k \in DOMAIN rows |-> [row |-> rows[k], round |-> round + 1, order |-> k]]
  /\ round' = round + 1
  /\ epc' = "put"
  /\ UNCHANGED <<unsaved, glb_head_queue_data, upc, pData, ends, gone>>

(* Mutant of ProductDataGenerate: "empty" is not signalled.                *)
ProductSilent ==
  /\ epc = "put"
  /\ batch # <<>>
  /\ batch' = Tail(batch)
  /\ IF Len(glb_head_queue_data) >= ROWS_DATA_MAX_SIZE
     THEN /\ epc' = "full"
          /\ gone' = gone \cup {Head(batch)}
          /\ UNCHANGED glb_head_queue_data
     ELSE /\ glb_head_queue_data' = Append(glb_head_queue_data, Head(batch))
          /\ UNCHANGED <<epc, gone>>
  /\ UNCHANGED <<unsaved, selected, round, upc, pData, ends>>

(* ProductDataGenerate up to its end or its sleep: the branch that sleeps  *)
(* never pushes, so the message is given up.                               *)
ProductDataGenerate ==
  /\ epc = "put"
  /\ batch # <<>>
  /\ batch' = Tail(batch)
  /\ IF Len(glb_head_queue_data) >= ROWS_DATA_MAX_SIZE
     THEN /\ epc' = "full"
          /\ gone' = gone \cup {Head(batch)}
          /\ UNCHANGED <<glb_head_queue_data, upc>>
     ELSE /\ glb_head_queue_data' = Append(glb_head_queue_data, Head(batch))
          /\ upc' \in WakeEmpty(upc)
          /\ UNCHANGED <<epc, gone>>
  /\ UNCHANGED <<unsaved, selected, round, pData, ends>>

(* The rest after the sleep signals "empty" although nothing was pushed.   *)
ProductResume ==
  /\ epc = "fullWoken"
  /\ epc' = "put"
  /\ upc' \in WakeEmpty(upc)
  /\ UNCHANGED <<unsaved, selected, round, batch, glb_head_queue_data, pData, ends, gone>>

(* Mutant of WriteTimeUpdateXML: the times of all tables are moved on,     *)
(* whatever the round has selected.                                        *)
WriteTimeAll ==
  /\ epc = "put"
  /\ batch = <<>>
  /\ unsaved' = {}
  /\ selected' = {}
  /\ epc' = "sleep"
  /\ UNCHANGED <<round, batch, glb_head_queue_data, upc, pData, ends, gone>>

(* readData: once every row has been put, the times are saved.             *)
WriteTimeUpdateXML ==
  /\ epc = "put"
  /\ batch = <<>>
  /\ unsaved' = unsaved \ selected
  /\ selected' = {}
  /\ epc' = "sleep"
  /\ UNCHANGED <<round, batch, glb_head_queue_data, upc, pData, ends, gone>>

ExportStep == ExecMutilSql \/ ProductDataGenerate \/ ProductResume \/ WriteTimeUpdateXML

-----------------------------------------------------------------------------
(* The upload threads.                                                     *)

(* Mutant of Take: front() without pop_front().                            *)
TakeKeeps(u) ==
  /\ glb_head_queue_data # <<>>
  /\ pData' = [pData EXCEPT ![u] = Head(glb_head_queue_data)]
  /\ upc' = [upc EXCEPT ![u] = "got"]
  /\ epc' = WakeFull
  /\ UNCHANGED glb_head_queue_data

(* front() and pop_front(), then the signal of "full".                     *)
Take(u) ==
  /\ glb_head_queue_data # <<>>
  /\ pData' = [pData EXCEPT ![u] = Head(glb_head_queue_data)]
  /\ glb_head_queue_data' = Tail(glb_head_queue_data)
  /\ upc' = [upc EXCEPT ![u] = "got"]
  /\ epc' = WakeFull

(* VectorHeadConsumerDataGenerate up to its end or its sleep.              *)
VectorHeadConsumerDataGenerate(u) ==
  /\ upc[u] = "run"
  /\ \/ Take(u)
     \/ /\ glb_head_queue_data = <<>>
        /\ upc' = [upc EXCEPT ![u] = "empty"]
        /\ UNCHANGED <<glb_head_queue_data, pData, epc>>
  /\ UNCHANGED <<unsaved, selected, round, batch, ends, gone>>

(* The rest after the sleep.  If the queue is still empty, mapData has     *)
(* never been set: NULL, which sends the caller's loop back to its start,  *)
(* or anything.                                                            *)
ConsumerResume(u) ==
  /\ upc[u] = "emptyWoken"
  /\ \/ Take(u)
     \/ /\ glb_head_queue_data = <<>>
        /\ \/ /\ upc' = [upc EXCEPT ![u] = "run"]
              /\ UNCHANGED pData
           \/ /\ upc' = [upc EXCEPT ![u] = "got"]
              /\ pData' = [pData EXCEPT ![u] = Wild]
        /\ epc' = WakeFull
        /\ UNCHANGED glb_head_queue_data
  /\ UNCHANGED <<unsaved, selected, round, batch, ends, gone>>

(* ProcessBinlogThread deletes the message whether SendMessage has sent it *)
(* ...                                                                     *)
Sent(u) ==
  /\ upc[u] = "got"
  /\ upc' = [upc EXCEPT ![u] = "run"]
  /\ pData' = [pData EXCEPT ![u] = Nothing]
  /\ UNCHANGED <<unsaved, selected, round, batch, epc, glb_head_queue_data, ends, gone>>

(* ... or not ("FailRawData").                                             *)
SendFails(u) ==
  /\ upc[u] = "got"
  /\ upc' = [upc EXCEPT ![u] = "run"]
  /\ pData' = [pData EXCEPT ![u] = Nothing]
  /\ gone' = gone \cup ({pData[u]} \ {Wild})
  /\ UNCHANGED <<unsaved, selected, round, batch, epc, glb_head_queue_data, ends>>

-----------------------------------------------------------------------------
(* Messages in the client's memory.                                        *)
InMemory ==
  ToSet(batch) \cup ToSet(glb_head_queue_data)
    \cup {pData[u] : u \in {v \in Uploaders : upc[v] = "got"}}

(* The client's process ends, by the user, by a pointer to nowhere or by   *)
(* the exception of a failed query, and is started again.  The rows of an  *)
(* unsaved window will be selected again.                                  *)
ClientEnds ==
  /\ ends < MaxEnds
  /\ ends' = ends + 1
  /\ gone' = gone \cup (InMemory \ {Wild})
  /\ selected' = {}
  /\ batch' = <<>>
  /\ epc' = "sleep"
  /\ glb_head_queue_data' = <<>>
  /\ upc' = [u \in Uploaders |-> "run"]
  /\ pData' = [u \in Uploaders |-> Nothing]
  /\ UNCHANGED <<unsaved, round>>
=============================================================================
