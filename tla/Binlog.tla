------------------------------- MODULE Binlog -------------------------------
(***************************************************************************)
(* The binlog library (src/binlog): a thread that is told of changes in    *)
(* the server's log directory (BinlogMonitor.cpp), reopens the log file    *)
(* (FileCache.cpp), parses what is new in it (ParseLogEntry.cpp) and hands *)
(* each rows event on through a bounded queue (CRowData.cpp).              *)
(*                                                                         *)
(* A file is a header group of Base units, then events of two units each   *)
(* (header and body), so that a file may end inside an event.  The writer  *)
(* is the MySQL server: a statement is a query event, table maps and rows  *)
(* events of the tables mapped; files end with a stop event.  Decoding of  *)
(* column values is left out.                                              *)
(***************************************************************************)
EXTENDS Naturals, SequencesExt

CONSTANTS
  Tables,
  Consumers,           \* threads of the program that uses the library
  ROWS_DATA_MAX_SIZE,  \* capacity of the queue (256 in the code)
  MaxStmts,            \* bound: statements the server writes
  MaxEvents,           \* bound: events the server writes
  MaxFiles,            \* bound: log files
  MaxHalves,           \* bound: events written in two parts
  None                 \* no table map yet, the NULL pointer

ASSUME BinlogAssumption ==
  /\ {ROWS_DATA_MAX_SIZE, MaxFiles} \subseteq Nat \ {0}
  /\ {MaxStmts, MaxEvents, MaxHalves} \subseteq Nat
  /\ None \notin Tables

VARIABLES
  (* the server *)
  log,       \* its files, each a sequence of events
  stmt,      \* statements written
  halves,    \* events written in two parts
  half,      \* the last event of the last file has only its header yet
  changed,   \* the change notification of the directory is signalled
  (* the monitor and the parser: one thread *)
  rereads,   \* whether the build notices that the index has grown
  rpc,       \* "wait", "begin", "parse", "full" (asleep), "fullWoken"
  name,      \* m_binlogIndexFileName
  ptr,       \* m_binlog_current_file_ptr
  size,      \* m_file_size, the length when the file was opened
  off,       \* position in the open file
  query,     \* statement of m_p_query_tmp, 0 for NULL
  map,       \* table of m_p_map_tmp
  tablemaps, \* keys of m_p_tablemaps
  (* the queue *)
  g_rowDatas,
  cpc,       \* consumers: "run", "empty" (asleep), "emptyWoken"
  fault,     \* "none", "null" pointer read, front() of an "empty" queue
  (* ghosts *)
  taken,     \* rows the consumers have received, in order
  dropped,   \* places of the rows events that met a full queue
  astray     \* a position was kept that is no event boundary, or was
             \* carried into another file

server == <<log, stmt, halves, half, changed>>
parser == <<rereads, rpc, name, ptr, size, off, query, map, tablemaps>>
rows == <<g_rowDatas, cpc, taken, dropped>>
vars == <<server, parser, rows, fault, astray>>

Base == 1
Event == [type : {"query", "map", "rows", "stop"}, stmt : 0..MaxStmts, table : Tables \cup {None}]
Place == (1..MaxFiles) \X Nat
Row == [at : Place, label : Tables, query : 1..MaxStmts, values : BOOLEAN]

(* Length of a file, and the event that starts at an offset.               *)
Length(f) == Base + 2 * Len(log[f]) - (IF half /\ f = Len(log) THEN 1 ELSE 0)
Inside(o) == (o - Base) % 2 = 1
Index(o) == (o - Base) \div 2 + 1

Init ==
  /\ log = <<<<>>>>
  /\ stmt = 0
  /\ halves = 0
  /\ half = FALSE
  /\ changed = FALSE
  /\ rereads \in BOOLEAN
  /\ rpc = "wait"
  /\ name = 1
  /\ ptr = 0
  /\ size = 0
  /\ off = 0
  /\ query = 0
  /\ map = None
  /\ tablemaps = {}
  /\ g_rowDatas = <<>>
  /\ cpc = [c \in Consumers |-> "run"]
  /\ fault = "none"
  /\ taken = <<>>
  /\ dropped = {}
  /\ astray = FALSE

-----------------------------------------------------------------------------
(* The server.                                                             *)

Current == log[Len(log)]
LastType == IF Current = <<>> THEN "none" ELSE Current[Len(Current)].type
Written(type) == {Current[i].table : i \in {j \in DOMAIN Current : Current[j].type = type /\ Current[j].stmt = stmt}}

(* What may follow the last event of the current file.                     *)
NextEvents ==
  {e \in Event :
     \/ /\ e.type = "query" /\ e.table = None /\ e.stmt = stmt + 1
        /\ LastType \in {"none", "rows"}
     \/ /\ e.type = "map" /\ e.stmt = stmt
        /\ LastType \in {"query", "map"}
        /\ e.table \in Tables \ Written("map")
     \/ /\ e.type = "rows" /\ e.stmt = stmt
        /\ LastType \in {"map", "rows"}
        /\ e.table \in Written("map") \ Written("rows")
     \/ /\ e.type = "stop" /\ e.table = None /\ e.stmt = stmt
        /\ LastType = "rows"
        /\ Len(log) < MaxFiles}

(* An event is written whole, or its header first; every write signals     *)
(* FILE_NOTIFY_CHANGE_SIZE.                                                *)
Write(whole) ==
  /\ ~half
  /\ Len(FlattenSeq(log)) < MaxEvents
  /\ \E e \in NextEvents :
       /\ log' = [log EXCEPT ![Len(log)] = Append(@, e)]
       /\ stmt' = e.stmt
  /\ half' = ~whole
  /\ halves' = IF whole THEN halves ELSE halves + 1
  /\ halves' <= MaxHalves
  /\ changed' = TRUE
  /\ UNCHANGED <<parser, rows, fault, astray>>

WriteRest ==
  /\ half
  /\ half' = FALSE
  /\ changed' = TRUE
  /\ UNCHANGED <<log, stmt, halves, parser, rows, fault, astray>>

(* The next file, with its header group, and its line in the index.        *)
NewFile ==
  /\ ~half
  /\ LastType = "stop"
  /\ log' = Append(log, <<>>)
  /\ changed' = TRUE
  /\ UNCHANGED <<stmt, halves, half, parser, rows, fault, astray>>

-----------------------------------------------------------------------------
(* The monitor thread.                                                     *)

(* monitorThread is woken, arms the notification again and reopens the     *)
(* file.  getBinlogIndex compares the result of getBinlogIndexSize with    *)
(* the member that this call assigns: a build that calls first finds them  *)
(* equal and keeps the name, one that reads the member first reads the     *)
(* index again.                                                            *)
Refresh ==
  /\ rpc = "wait"
  /\ changed
  /\ changed' = FALSE
  /\ name' = IF rereads THEN Len(log) ELSE name
  /\ size' = Length(name')
  /\ off' = 0
  /\ astray' = (astray \/ name' # name)
  /\ rpc' = "begin"
  /\ UNCHANGED <<log, stmt, halves, half, rereads, ptr, query, map, tablemaps, rows, fault>>

(* Mutant of ParseBegin: the file must have grown by more than one event.  *)
ParseBeginLate ==
  /\ rpc = "begin"
  /\ LET start == IF ptr = 0 THEN Base ELSE ptr
         go == IF ptr = 0 THEN Length(name) > Base ELSE size > ptr + 2
     IN  /\ off' = IF go THEN start ELSE off
         /\ rpc' = IF go THEN "parse" ELSE "wait"
  /\ UNCHANGED <<server, rereads, name, ptr, size, query, map, tablemaps, rows, fault, astray>>

(* parseBegin: checkHeader reads the header group and the header of the    *)
(* event behind it, or the old position is taken up again.                 *)
ParseBegin ==
  /\ rpc = "begin"
  /\ LET start == IF ptr = 0 THEN Base ELSE ptr
         go == IF ptr = 0 THEN Length(name) > Base ELSE size > ptr
     IN  /\ off' = IF go THEN start ELSE off
         /\ rpc' = IF go THEN "parse" ELSE "wait"
  /\ UNCHANGED <<server, rereads, name, ptr, size, query, map, tablemaps, rows, fault, astray>>

(* Mutant of fileEof: one event too early.                                 *)
fileEofEarly(o) == o + 2 >= size

fileEof(o) == o >= size

(* Mutant of ParsedTo: the position goes back to the event that was not    *)
(* whole when the file was opened.                                         *)
ParsedToRewinds ==
  /\ rpc' = "wait"
  /\ ptr' = IF Inside(size) THEN size - 1 ELSE size
  /\ astray' = (astray \/ Inside(size))

(* The end of parseBegin: the position kept is the length the file had     *)
(* when it was opened, wherever parsing ended.                             *)
ParsedTo ==
  /\ rpc' = "wait"
  /\ ptr' = size
  /\ astray' = (astray \/ Inside(size))

(* The loop of parseEvents goes on at offset o; p is the position kept so  *)
(* far.                                                                    *)
GoOn(o, p) ==
  /\ off' = o
  /\ IF fileEof(o) THEN ParsedTo ELSE rpc' = "parse" /\ ptr' = p /\ UNCHANGED astray

(* A read fails: parseOneEvent and with it the loop end.                   *)
BreakOff ==
  /\ rpc = "parse"
  /\ off + 2 > Length(name)
  /\ ~Inside(off)
  /\ ParsedTo
  /\ UNCHANGED <<server, rereads, name, size, off, query, map, tablemaps, rows, fault>>

At(type) ==
  /\ rpc = "parse"
  /\ ~Inside(off)
  /\ off + 2 <= Length(name)
  /\ log[name][Index(off)].type = type

ParseQuery ==
  /\ At("query")
  /\ query' = log[name][Index(off)].stmt
  /\ GoOn(off + 2, ptr)
  /\ UNCHANGED <<server, rereads, name, size, map, tablemaps, rows, fault>>

(* Mutant of ParseTableMap: m_p_map_tmp is only set once.                  *)
ParseTableMapFirst ==
  /\ At("map")
  /\ map' = IF map = None THEN log[name][Index(off)].table ELSE map
  /\ tablemaps' = tablemaps \cup {log[name][Index(off)].table}
  /\ GoOn(off + 2, ptr)
  /\ UNCHANGED <<server, rereads, name, size, query, rows, fault>>

ParseTableMap ==
  /\ At("map")
  /\ map' = log[name][Index(off)].table
  /\ tablemaps' = tablemaps \cup {log[name][Index(off)].table}
  /\ GoOn(off + 2, ptr)
  /\ UNCHANGED <<server, rereads, name, size, query, rows, fault>>

(* A stop event sets the position to 0; ParsedTo overwrites it.            *)
ParseStop ==
  /\ At("stop")
  /\ GoOn(off + 2, 0)
  /\ UNCHANGED <<server, rereads, name, size, query, map, tablemaps, rows, fault>>

WakeEmpty(f) ==
  LET sleepers == {c \in Consumers : f[c] = "empty"}
  IN  IF sleepers = {} THEN {f} ELSE {[f EXCEPT ![c] = "emptyWoken"] : c \in sleepers}

(* Mutant of HandOn: the capacity of the queue is not tested.              *)
HandOnUnbounded(at, values, o) ==
  IF query = 0 \/ map = None
  THEN /\ fault' = "null"
       /\ UNCHANGED <<rpc, ptr, off, astray, g_rowDatas, cpc>>
  ELSE /\ UNCHANGED fault
       /\ g_rowDatas' = Append(g_rowDatas, [at |-> at, label |-> map, query |-> query, values |-> values])
       /\ cpc' \in WakeEmpty(cpc)
       /\ GoOn(o, ptr)

(* createRowData reads the last query and the last table map;              *)
(* productRowData pushes the row, or sleeps when the queue is full.        *)
HandOn(at, values, o) ==
  IF query = 0 \/ map = None
  THEN /\ fault' = "null"
       /\ UNCHANGED <<rpc, ptr, off, astray, g_rowDatas, cpc>>
  ELSE /\ UNCHANGED fault
       /\ IF Len(g_rowDatas) >= ROWS_DATA_MAX_SIZE
          THEN /\ rpc' = "full"
               /\ UNCHANGED <<ptr, off, astray, g_rowDatas, cpc>>
          ELSE /\ g_rowDatas' = Append(g_rowDatas, [at |-> at, label |-> map, query |-> query, values |-> values])
               /\ cpc' \in WakeEmpty(cpc)
               /\ GoOn(o, ptr)

ParseRows ==
  /\ At("rows")
  /\ HandOn(<<name, Index(off)>>, log[name][Index(off)].table \in tablemaps, off + 2)
  /\ UNCHANGED <<server, rereads, name, size, query, map, tablemaps, taken, dropped>>

(* productRowData after its sleep: the row is not pushed, yet "empty" is   *)
(* signalled.                                                              *)
ProductResume ==
  /\ rpc = "fullWoken"
  /\ dropped' = dropped \cup {<<name, Index(off)>>}
  /\ cpc' \in WakeEmpty(cpc)
  /\ GoOn(off + 2, ptr)
  /\ UNCHANGED <<server, rereads, name, size, query, map, tablemaps, g_rowDatas, taken, fault>>

(* From a position inside an event its bytes are taken for a header: the   *)
(* loop ends at once, or something of any length is skipped.  Bytes that   *)
(* pass for a rows event would hand on a row that no statement wrote; this *)
(* is left out, the properties speak of the rows of the log only.          *)
ParseInside ==
  /\ rpc = "parse"
  /\ Inside(off)
  /\ \/ ParsedTo /\ UNCHANGED off
     \/ \E o \in (off + 1)..Length(name) : GoOn(o, ptr)
  /\ UNCHANGED <<server, rereads, name, size, query, map, tablemaps, rows, fault>>

MonitorStep ==
  \/ Refresh
  \/ ParseBegin
  \/ BreakOff
  \/ ParseQuery
  \/ ParseTableMap
  \/ ParseStop
  \/ ParseRows
  \/ ProductResume
  \/ ParseInside

-----------------------------------------------------------------------------
(* The consumers of the queue.                                             *)

WakeFull == IF rpc = "full" THEN "fullWoken" ELSE rpc

(* The end of consumerRowData: front() and pop_front(), whatever the queue *)
(* holds, then "full" is signalled.                                        *)
TakeFront(c) ==
  IF g_rowDatas = <<>>
  THEN /\ fault' = "empty"
       /\ UNCHANGED <<g_rowDatas, taken, cpc, rpc>>
  ELSE /\ taken' = Append(taken, Head(g_rowDatas))
       /\ g_rowDatas' = Tail(g_rowDatas)
       /\ cpc' = [cpc EXCEPT ![c] = "run"]
       /\ rpc' = WakeFull
       /\ UNCHANGED fault

(* Mutant of consumerRowData: the emptiness test is missing.               *)
consumerRowDataBlind(c) ==
  /\ cpc[c] = "run"
  /\ TakeFront(c)
  /\ UNCHANGED <<server, rereads, name, ptr, size, off, query, map, tablemaps, dropped, astray>>

consumerRowData(c) ==
  /\ cpc[c] = "run"
  /\ IF g_rowDatas = <<>>
     THEN cpc' = [cpc EXCEPT ![c] = "empty"] /\ UNCHANGED <<g_rowDatas, taken, rpc, fault>>
     ELSE TakeFront(c)
  /\ UNCHANGED <<server, rereads, name, ptr, size, off, query, map, tablemaps, dropped, astray>>

(* After its sleep the consumer does not test the queue again.             *)
ConsumerResume(c) ==
  /\ cpc[c] = "emptyWoken"
  /\ TakeFront(c)
  /\ UNCHANGED <<server, rereads, name, ptr, size, off, query, map, tablemaps, dropped, astray>>

-----------------------------------------------------------------------------
Running == fault = "none"

Next ==
  /\ Running
  /\ \/ \E whole \in BOOLEAN : Write(whole)
     \/ WriteRest
     \/ NewFile
     \/ MonitorStep
     \/ \E c \in Consumers : consumerRowData(c) \/ ConsumerResume(c)

Spec == Init /\ [][Next]_vars

(* The monitor thread is scheduled, and the program that uses the library  *)
(* calls consumerRowData in a loop.  The server owes nothing.              *)
FairSpec ==
  /\ Spec
  /\ WF_vars(Running /\ MonitorStep)
  /\ \A c \in Consumers : WF_vars(Running /\ (consumerRowData(c) \/ ConsumerResume(c)))

-----------------------------------------------------------------------------
(* Types of the variables.                                                 *)
TypeOK ==
  /\ log \in Seq(Seq(Event)) /\ Len(log) \in 1..MaxFiles
  /\ stmt \in 0..MaxStmts
  /\ halves \in 0..MaxHalves
  /\ {half, changed, rereads, astray} \subseteq BOOLEAN
  /\ rpc \in {"wait", "begin", "parse", "full", "fullWoken"}
  /\ name \in 1..Len(log)
  /\ {ptr, size, off} \subseteq Nat
  /\ query \in 0..MaxStmts
  /\ map \in Tables \cup {None}
  /\ tablemaps \subseteq Tables
  /\ g_rowDatas \in Seq(Row) /\ Len(g_rowDatas) <= ROWS_DATA_MAX_SIZE
  /\ cpc \in [Consumers -> {"run", "empty", "emptyWoken"}]
  /\ fault \in {"none", "null", "empty"}
  /\ taken \in Seq(Row)
  /\ dropped \subseteq Place

HandedOn == taken \o g_rowDatas
Parsing == rpc \in {"parse", "full", "fullWoken"}

(* Events of the file that the parser has behind it.                       *)
EventsRead ==
  LET position == IF Parsing THEN off ELSE ptr
  IN  IF position <= Base THEN 0 ELSE (position - Base) \div 2

RowsRead == {i \in 1..EventsRead : log[name][i].type = "rows" /\ <<name, i>> \notin dropped}

(* As long as the file that is followed does not change and no pass finds  *)
(* it ending inside an event (ParseLogEntry.cpp:74), the rows handed on    *)
(* are exactly the rows events up to the position kept, in the order of    *)
(* the file, except those that met a full queue; each is decoded with its  *)
(* table's map and carries the thread of its own statement's query, and no *)
(* NULL pointer is read (247).                                             *)
OnTrack ==
  ~astray =>
    /\ fault # "null"
    /\ {HandedOn[k].at : k \in DOMAIN HandedOn} = {<<name, i>> : i \in RowsRead}
    /\ \A j, k \in DOMAIN HandedOn : j < k => HandedOn[j].at[2] < HandedOn[k].at[2]
    /\ \A k \in DOMAIN HandedOn :
         LET row == HandedOn[k]
         IN  row.values /\ row.query = log[name][row.at[2]].stmt

(* Whatever the position, over rotations and after reading from inside an  *)
(* event, no row is handed on twice or before an earlier one.              *)
NeverBack ==
  \A j, k \in DOMAIN HandedOn :
    j < k => LET a == HandedOn[j].at
                 b == HandedOn[k].at
             IN  a[1] < b[1] \/ (a[1] = b[1] /\ a[2] < b[2])

(* The label of a row (ParseLogEntry.cpp:248) is a table that the row's    *)
(* own statement has mapped: the row's own table when the statement maps   *)
(* one table only.                                                         *)
LabelMapped ==
  ~astray =>
    \A k \in DOMAIN HandedOn :
      LET at == HandedOn[k].at[2]
      IN  \E i \in 1..at : log[name][i] = [type |-> "map", stmt |-> log[name][at].stmt, table |-> HandedOn[k].label]

(* One consumer finds the queue empty after its sleep (CRowData.cpp:26)    *)
(* only if a row was dropped at a full queue, whose producer signals       *)
(* "empty" all the same.                                                   *)
FrontOfEmpty == fault = "empty" => dropped # {}

(* A rows event is whole in the file that is followed, and has reached no  *)
(* consumer yet, nor been dropped at a full queue.                         *)
Behind ==
  \E i \in DOMAIN log[name] :
    /\ log[name][i].type = "rows"
    /\ Base + 2 * i <= Length(name)
    /\ <<name, i>> \notin dropped
    /\ \A k \in DOMAIN taken : taken[k].at # <<name, i>>

(* The parser and the consumers catch up with the log, unless the position *)
(* is lost or the process has failed: no change of the file is missed      *)
(* (BinlogMonitor.cpp:30), and parser and consumer never wait for each     *)
(* other (CRowData.cpp:9, 23).                                             *)
CatchesUp == Behind ~> (~Behind \/ astray \/ ~Running)
=============================================================================
