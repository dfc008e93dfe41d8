----------------------------- MODULE BinlogProofs -----------------------------
(***************************************************************************)
(* Proofs about the binlog library, for any number of files, events,       *)
(* statements and tables and any capacity of the queue.                    *)
(***************************************************************************)
EXTENDS Binlog, SequenceTheorems, TLAPS

(* An event at an offset that is no inside starts there; an inside offset  *)
(* is one further.                                                         *)
LEMMA Offsets ==
  ASSUME NEW o \in Nat \ {0}
  PROVE  /\ Index(o) \in Nat \ {0}
         /\ ~Inside(o) => o = 2 * Index(o) - 1
         /\ Inside(o) => o = 2 * Index(o)
  BY DEF Index, Inside, Base

(* What holds of every file: it begins with a query, an event belongs to   *)
(* the statement of the event before it unless it is a query, rows events  *)
(* come after the map of their table.                                      *)
FileOK(s) ==
  /\ s # <<>> => s[1].type = "query"
  /\ \A i \in DOMAIN s : s[i].stmt > 0
  /\ \A i \in DOMAIN s : s[i].type \in {"map", "rows"} => s[i].table \in Tables
  /\ \A i \in DOMAIN s \ {1} : s[i].type = "query" \/ s[i].stmt = s[i - 1].stmt
  /\ \A i \in DOMAIN s \ {1} : s[i].type = "rows" => s[i - 1].type \in {"map", "rows"}
  /\ \A i \in DOMAIN s : s[i].type = "rows" =>
       \E j \in 1..i : s[j].type = "map" /\ s[j].table = s[i].table

ServerOK ==
  /\ log \in Seq(Seq(Event)) /\ Len(log) \in 1..MaxFiles
  /\ stmt \in 0..MaxStmts
  /\ halves \in 0..MaxHalves
  /\ half \in BOOLEAN /\ changed \in BOOLEAN

LogInv ==
  /\ ServerOK
  /\ \A f \in DOMAIN log : FileOK(log[f])
  /\ Current # <<>> => Current[Len(Current)].stmt = stmt
  /\ LastType = "stop" => Len(log) < MaxFiles
  /\ half => Current # <<>>

(* Files only grow at their ends.                                          *)
Extends(s, t) ==
  /\ Len(t) <= Len(s)
  /\ \A i \in DOMAIN t : s[i] = t[i]

Grown ==
  /\ DOMAIN log \subseteq DOMAIN log'
  /\ \A f \in DOMAIN log : Extends(log'[f], log[f]) /\ Length(f)' >= Length(f)

(* The server writes an event that NextEvents allows.                      *)
LEMMA FileGrows ==
  ASSUME LogInv, NEW e \in NextEvents
  PROVE  /\ Append(Current, e) \in Seq(Event) /\ e.stmt \in 0..MaxStmts
         /\ FileOK(Append(Current, e))
<1>1. /\ Current \in Seq(Event) /\ FileOK(Current) /\ stmt \in 0..MaxStmts /\ e \in Event
      /\ Current # <<>> => Current[Len(Current)].stmt = stmt
  BY DEF LogInv, ServerOK, Current, NextEvents
<1>2. \/ /\ e.type = "query" /\ e.stmt = stmt + 1
      \/ /\ e.type = "map" /\ e.stmt = stmt /\ Current # <<>> /\ e.table \in Tables
      \/ /\ e.type = "rows" /\ e.stmt = stmt /\ Current # <<>>
         /\ Current[Len(Current)].type \in {"map", "rows"}
         /\ \E j \in DOMAIN Current : Current[j].type = "map" /\ Current[j].table = e.table
      \/ /\ e.type = "stop" /\ e.stmt = stmt /\ Current # <<>>
  BY DEF NextEvents, LastType, Written
<1>q. Current = <<>> => e.type = "query"
  BY DEF NextEvents, LastType
<1>3. PICK s : s = Append(Current, e) OBVIOUS
<1>4. PICK n \in Nat : n = Len(Current) BY <1>1
<1>5. /\ s \in Seq(Event) /\ DOMAIN s = 1..(n + 1) /\ DOMAIN Current = 1..n
      /\ s[n + 1] = e /\ \A i \in 1..n : s[i] = Current[i]
      /\ e.stmt \in 0..MaxStmts /\ (Current = <<>> <=> n = 0)
  BY <1>1, <1>3, <1>4 DEF Event
<1>6. s[1].type = "query"
  BY <1>1, <1>q, <1>5 DEF FileOK
<1>7. e.stmt > 0
  BY <1>1, <1>2, <1>4, <1>5 DEF FileOK, Event
<1>8. \A i \in DOMAIN s : s[i].stmt > 0
  BY <1>1, <1>5, <1>7 DEF FileOK
<1>9. \A i \in DOMAIN s : s[i].type \in {"map", "rows"} => s[i].table \in Tables
  BY <1>1, <1>2, <1>5 DEF FileOK
<1>10. \A i \in DOMAIN s \ {1} : s[i].type = "query" \/ s[i].stmt = s[i - 1].stmt
  <2>1. ASSUME NEW i \in 2..n PROVE s[i].type = "query" \/ s[i].stmt = s[i - 1].stmt
    BY <1>1, <1>5 DEF FileOK
  <2>2. n # 0 => s[n + 1].type = "query" \/ s[n + 1].stmt = s[(n + 1) - 1].stmt
    BY <1>1, <1>2, <1>4, <1>5
  <2> QED
    BY <1>5, <2>1, <2>2
<1>11. \A i \in DOMAIN s \ {1} : s[i].type = "rows" => s[i - 1].type \in {"map", "rows"}
  <2>1. ASSUME NEW i \in 2..n, s[i].type = "rows" PROVE s[i - 1].type \in {"map", "rows"}
    BY <1>1, <1>5, <2>1, SMTT(60) DEF FileOK
  <2>2. n # 0 /\ s[n + 1].type = "rows" => s[(n + 1) - 1].type \in {"map", "rows"}
    BY <1>1, <1>2, <1>4, <1>5
  <2> QED
    BY <1>5, <2>1, <2>2
<1>12. \A i \in DOMAIN s : s[i].type = "rows" =>
         \E j \in 1..i : s[j].type = "map" /\ s[j].table = s[i].table
  <2>1. ASSUME NEW i \in 1..n, s[i].type = "rows"
        PROVE \E j \in 1..i : s[j].type = "map" /\ s[j].table = s[i].table
    BY <1>1, <1>5, <2>1 DEF FileOK
  <2>2. s[n + 1].type = "rows" =>
          \E j \in 1..(n + 1) : s[j].type = "map" /\ s[j].table = s[n + 1].table
    BY <1>2, <1>5
  <2> QED
    BY <1>5, <2>1, <2>2
<1>13. FileOK(s)
  BY <1>6, <1>8, <1>9, <1>10, <1>11, <1>12 DEF FileOK
<1> QED
  BY <1>3, <1>5, <1>13

(* The MySQL server's files keep their form, and only grow.                *)
LEMMA NextLogInv == LogInv /\ [Next]_vars => LogInv' /\ Grown
<1> SUFFICES ASSUME LogInv, [Next]_vars PROVE LogInv' /\ Grown
  OBVIOUS
<1>t. /\ log \in Seq(Seq(Event)) /\ Len(log) \in 1..MaxFiles
      /\ DOMAIN log = 1..Len(log) /\ MaxHalves \in Nat /\ halves \in 0..MaxHalves
      /\ MaxFiles \in Nat /\ MaxStmts \in Nat
      /\ half \in BOOLEAN
      /\ \A f \in DOMAIN log : log[f] \in Seq(Event) /\ FileOK(log[f])
      /\ Current = log[Len(log)]
  BY BinlogAssumption DEF LogInv, ServerOK, Current
<1>q. ASSUME UNCHANGED <<log, stmt, halves, half>>, changed' \in BOOLEAN PROVE LogInv' /\ Grown
  <2>1. LogInv'
    BY <1>q DEF LogInv, ServerOK, Current, LastType
  <2>2. Grown
    BY <1>q, <1>t DEF Grown, Extends, Length, Base
  <2> QED
    BY <2>1, <2>2
<1>1. ASSUME NEW whole \in BOOLEAN, Write(whole) PROVE LogInv' /\ Grown
  <2>1. PICK e \in NextEvents : log' = [log EXCEPT ![Len(log)] = Append(@, e)] /\ stmt' = e.stmt
    BY <1>1 DEF Write
  <2>2. /\ Append(Current, e) \in Seq(Event) /\ e.stmt \in 0..MaxStmts
        /\ FileOK(Append(Current, e))
    BY FileGrows
  <2>3. /\ Len(log') = Len(log) /\ DOMAIN log' = DOMAIN log
        /\ log'[Len(log)] = Append(Current, e)
        /\ \A f \in DOMAIN log \ {Len(log)} : log'[f] = log[f]
        /\ log' \in Seq(Seq(Event))
    BY <1>t, <2>1, <2>2
  <2>4. Current' = Append(Current, e) /\ Len(Current') = Len(Current) + 1
        /\ Current'[Len(Current) + 1] = e /\ Current \in Seq(Event) /\ e \in Event
    BY <1>t, <2>2, <2>3 DEF Current, NextEvents
  <2>5. ServerOK'
    BY <1>1, <1>t, <2>1, <2>2, <2>3 DEF Write, ServerOK
  <2>6. LogInv'
    <3>1. \A f \in DOMAIN log' : FileOK(log'[f])
      BY <1>t, <2>2, <2>3
    <3>2. Current' # <<>> /\ Current'[Len(Current')].stmt = stmt'
      BY <2>1, <2>4
    <3>3. LastType' = "stop" => Len(log') < MaxFiles
      <4>1. LastType' = e.type
        BY <2>4, <3>2 DEF LastType
      <4> QED
        BY <2>3, <4>1 DEF NextEvents
    <3> QED
      BY <2>5, <3>1, <3>2, <3>3 DEF LogInv
  <2>7. Grown
    <3>1. Extends(log'[Len(log)], log[Len(log)]) /\ Len(log'[Len(log)]) = Len(log[Len(log)]) + 1
      BY <1>t, <2>3, <2>4 DEF Extends
    <3>2. ASSUME NEW f \in DOMAIN log PROVE Extends(log'[f], log[f]) /\ Length(f)' >= Length(f)
      <4>1. CASE f = Len(log)
        <5>1. Length(f) = Base + 2 * Len(log[f])
          BY <1>1 DEF Write, Length, Base
        <5>2. /\ Length(f)' = Base + 2 * Len(log'[f]) - (IF half' THEN 1 ELSE 0)
              /\ Len(log[f]) \in Nat
          BY <1>t, <2>3, <4>1 DEF Length, Base
        <5> QED
          BY <3>1, <4>1, <5>1, <5>2 DEF Base
      <4>2. CASE f # Len(log)
        <5>2. log'[f] = log[f] /\ Len(log[f]) \in Nat
          BY <1>t, <2>3, <4>2
        <5>a. Length(f) = Base + 2 * Len(log[f])
          BY <4>2, <5>2 DEF Length, Base
        <5>b. Length(f)' = Base + 2 * Len(log'[f])
          <6>1. f # Len(log') /\ Len(log'[f]) \in Nat
            BY <2>3, <4>2, <5>2
          <6>2. PICK d : d = (IF half' /\ f = Len(log') THEN 1 ELSE 0)
            OBVIOUS
          <6>3. d = 0 /\ Length(f)' = 1 + 2 * Len(log'[f]) - d
            BY <6>1, <6>2 DEF Length, Base
          <6> QED
            BY <6>1, <6>3 DEF Base
        <5>1. Length(f) = Base + 2 * Len(log[f]) /\ Length(f)' = Base + 2 * Len(log'[f])
          BY <5>a, <5>b
        <5>3. Base + 2 * Len(log[f]) \in Nat
          BY <5>2 DEF Base
        <5> QED
          BY <5>1, <5>2, <5>3 DEF Extends
      <4> QED
        BY <4>1, <4>2
    <3> QED
      BY <2>3, <3>2 DEF Grown
  <2> QED
    BY <2>6, <2>7
<1>2. CASE WriteRest
  <2>1. ServerOK'
    BY <1>2, <1>t DEF WriteRest, ServerOK, LogInv
  <2>2. LogInv'
    BY <1>2, <2>1 DEF WriteRest, LogInv, Current, LastType
  <2>3. Grown
    BY <1>2, <1>t DEF WriteRest, Grown, Extends, Length, Base
  <2> QED
    BY <2>2, <2>3
<1>3. CASE NewFile
  <2>1. /\ Len(log') = Len(log) + 1 /\ DOMAIN log' = 1..(Len(log) + 1)
        /\ log'[Len(log) + 1] = <<>>
        /\ \A f \in DOMAIN log : log'[f] = log[f]
        /\ log' \in Seq(Seq(Event))
    BY <1>3, <1>t DEF NewFile
  <2>2. Len(log) < MaxFiles /\ ~half /\ UNCHANGED <<stmt, halves, half>> /\ changed' = TRUE
    BY <1>3 DEF NewFile, LogInv
  <2>3. Current' = <<>> /\ LastType' = "none"
    BY <2>1 DEF Current, LastType
  <2>4. ServerOK'
    BY <1>t, <2>1, <2>2 DEF ServerOK, LogInv
  <2>5. \A f \in DOMAIN log' : FileOK(log'[f])
    <3>1. FileOK(<<>>)
      BY DEF FileOK
    <3>2. ASSUME NEW f \in DOMAIN log' PROVE FileOK(log'[f])
      <4>1. CASE f \in DOMAIN log
        BY <1>t, <2>1, <4>1
      <4>2. CASE f = Len(log) + 1
        BY <2>1, <3>1, <4>2
      <4> QED
        BY <1>t, <2>1, <4>1, <4>2
    <3> QED
      BY <3>2
  <2>6. LogInv'
    BY <2>2, <2>3, <2>4, <2>5 DEF LogInv
  <2>7. Grown
    <3>1. ASSUME NEW f \in DOMAIN log PROVE Extends(log'[f], log[f]) /\ Length(f)' >= Length(f)
      <4>1. Length(f) = Base + 2 * Len(log[f]) /\ Length(f)' = Base + 2 * Len(log'[f])
        BY <2>2 DEF Length, Base
      <4>2. log'[f] = log[f] /\ Len(log[f]) \in Nat
        BY <1>t, <2>1
      <4>3. Base + 2 * Len(log[f]) \in Nat
        BY <4>2 DEF Base
      <4> QED
        BY <4>1, <4>2, <4>3 DEF Extends
    <3> QED
      BY <1>t, <2>1, <3>1 DEF Grown
  <2> QED
    BY <2>6, <2>7
<1>4. CASE MonitorStep \/ \E c \in Consumers : consumerRowData(c) \/ ConsumerResume(c)
  <2>1. UNCHANGED <<log, stmt, halves, half>> /\ changed' \in BOOLEAN
    BY <1>4 DEF MonitorStep, Refresh, ParseBegin, BreakOff, ParseQuery, ParseTableMap, ParseStop,
                ParseRows, ProductResume, ParseInside, consumerRowData, ConsumerResume, server,
                LogInv, ServerOK
  <2> QED
    BY <1>q, <2>1
<1>5. CASE UNCHANGED vars
  BY <1>5, <1>q DEF vars, server, LogInv, ServerOK
<1> QED
  BY <1>1, <1>2, <1>3, <1>4, <1>5 DEF Next

-----------------------------------------------------------------------------
ParserOK ==
  /\ rereads \in BOOLEAN /\ astray \in BOOLEAN
  /\ rpc \in {"wait", "begin", "parse", "full", "fullWoken"}
  /\ name \in 1..Len(log)
  /\ ptr \in Nat /\ size \in Nat /\ off \in Nat
  /\ query \in 0..MaxStmts
  /\ map \in Tables \cup {None}
  /\ tablemaps \subseteq Tables

QueueOK ==
  /\ g_rowDatas \in Seq(Row) /\ Len(g_rowDatas) <= ROWS_DATA_MAX_SIZE
  /\ cpc \in [Consumers -> {"run", "empty", "emptyWoken"}]
  /\ fault \in {"none", "null", "empty"}
  /\ taken \in Seq(Row)
  /\ dropped \subseteq Place

(* The parser looks at the start of a whole event of the file.             *)
AtEvent ==
  /\ ~Inside(off)
  /\ off + 2 <= Length(name)

Here == log[name][Index(off)]

(* Where the parser is: behind the header, and before the length the file  *)
(* had when it was opened, unless it has just begun.  The producer sleeps  *)
(* at a rows event.                                                        *)
PosInv ==
  /\ rpc # "wait" => size >= Base /\ size <= Length(name)
  /\ Parsing => off >= Base /\ (off < size \/ off = Base)
  /\ rpc \in {"full", "fullWoken"} => AtEvent /\ Here.type = "rows"

TypeInv == LogInv /\ ParserOK /\ QueueOK /\ PosInv

(* The type invariant is part of the inductive one.                        *)
LEMMA TypeInvTypeOK == TypeInv => TypeOK
  BY DEF TypeInv, LogInv, ServerOK, ParserOK, QueueOK, TypeOK

(* The inductive type invariant holds at the start.                        *)
LEMMA InitTypeInv == Init => TypeInv
<1> SUFFICES ASSUME Init PROVE TypeInv
  OBVIOUS
<1>c. MaxFiles \in Nat \ {0} /\ MaxStmts \in Nat /\ MaxHalves \in Nat /\ ROWS_DATA_MAX_SIZE \in Nat
  BY BinlogAssumption
<1>1. /\ log = <<<<>>>> /\ Len(log) = 1 /\ log \in Seq(Seq(Event)) /\ Current = <<>>
      /\ DOMAIN log = {1} /\ log[1] = <<>>
  BY DEF Init, Current
<1>2. LogInv
  <2>1. FileOK(<<>>)
    BY DEF FileOK
  <2> QED
    <3>1. half \in BOOLEAN /\ changed \in BOOLEAN
      BY DEF Init
    <3>2. stmt \in 0..MaxStmts /\ halves \in 0..MaxHalves /\ Len(log) \in 1..MaxFiles
      BY <1>c, <1>1 DEF Init
    <3> QED
      BY <1>1, <2>1, <3>1, <3>2 DEF Init, LogInv, LastType, ServerOK
<1>3. ParserOK
  <2>1. rereads \in BOOLEAN /\ astray \in BOOLEAN
    BY DEF Init
  <2>2. /\ name \in 1..Len(log) /\ query \in 0..MaxStmts
        /\ ptr \in Nat /\ size \in Nat /\ off \in Nat
    BY <1>c, <1>1 DEF Init
  <2> QED
    BY <2>1, <2>2 DEF Init, ParserOK
<1>4. QueueOK
  BY <1>c DEF Init, QueueOK
<1>5. PosInv
  BY DEF Init, PosInv, Parsing
<1> QED
  BY <1>2, <1>3, <1>4, <1>5 DEF TypeInv

(* A file ends behind its first bytes and at most at the end of its last   *)
(* event.                                                                  *)
LEMMA Lengths ==
  ASSUME LogInv, NEW f \in DOMAIN log
  PROVE  /\ Length(f) \in Nat /\ Length(f) >= Base
         /\ Length(f) <= Base + 2 * Len(log[f])
<1>1. log[f] \in Seq(Event) /\ Len(log[f]) \in Nat
  BY DEF LogInv, ServerOK
<1>2. half /\ f = Len(log) => Len(log[f]) > 0
  BY <1>1 DEF LogInv, Current
<1>3. PICK d : d = (IF half /\ f = Len(log) THEN 1 ELSE 0)
  OBVIOUS
<1>4. Length(f) = 1 + 2 * Len(log[f]) - d /\ d \in {0, 1} /\ (d = 1 => Len(log[f]) > 0)
  BY <1>2, <1>3 DEF Length, Base
<1> QED
  BY <1>1, <1>4 DEF Base

(* Where the parser finds an event there is one, at an event boundary.     *)
LEMMA EventHere ==
  ASSUME TypeInv, Parsing, AtEvent
  PROVE  /\ Index(off) \in DOMAIN log[name] /\ Index(off) \in Nat \ {0}
         /\ off = 2 * Index(off) - 1
         /\ Here \in Event /\ FileOK(log[name]) /\ log[name] \in Seq(Event)
<1>1. /\ off \in Nat \ {0} /\ name \in DOMAIN log /\ log[name] \in Seq(Event) /\ FileOK(log[name])
  BY DEF TypeInv, LogInv, ServerOK, ParserOK, PosInv, Base
<1>2. Length(name) \in Nat /\ Length(name) <= 1 + 2 * Len(log[name])
  BY <1>1, Lengths DEF TypeInv, Base
<1>3. off = 2 * Index(off) - 1 /\ Index(off) \in Nat \ {0} /\ off + 2 <= Length(name)
  BY <1>1, Offsets DEF AtEvent
<1>4. Index(off) \in DOMAIN log[name]
  BY <1>1, <1>2, <1>3
<1> QED
  BY <1>1, <1>3, <1>4 DEF Here

(* The loop of parseEvents goes on at o, or is at its end.                 *)
Ends ==
  /\ rpc' = "wait" /\ ptr' = size /\ astray' = (astray \/ Inside(size))

Goes(o) ==
  /\ off' = o
  /\ \/ o >= size /\ Ends
     \/ o < size /\ rpc' = "parse" /\ ptr' \in {ptr, 0} /\ astray' = astray

tables == <<query, map, tablemaps>>

(* What a step does, seen from the position and from the rows handed on.   *)
Quiet ==
  /\ UNCHANGED <<rereads, name, size, off, ptr, astray, tables, HandedOn, dropped>>
  /\ rpc' = rpc \/ (rpc = "full" /\ rpc' = "fullWoken")
  /\ fault' \in {fault, "empty"}

Stays ==
  /\ rpc = "parse" /\ AtEvent /\ Here.type = "rows"
  /\ \/ (query = 0 \/ map = None) /\ fault' = "null" /\ rpc' = rpc
     \/ ~(query = 0 \/ map = None) /\ fault' = fault /\ rpc' = "full"
  /\ UNCHANGED <<log, half, rereads, name, size, off, ptr, astray, tables, HandedOn, dropped>>

Leaves ==
  /\ rpc = "parse" /\ ~AtEvent /\ Ends
  /\ UNCHANGED <<log, half, rereads, name, size, off, tables, HandedOn, dropped, fault>>

Skips ==
  /\ rpc = "parse" /\ Inside(off)
  /\ \E o \in (off + 1)..Length(name) : Goes(o)
  /\ UNCHANGED <<log, half, rereads, name, size, tables, HandedOn, dropped, fault>>

Passes ==
  /\ rpc = "parse" /\ AtEvent /\ Goes(off + 2)
  /\ \/ Here.type = "query" /\ query' = Here.stmt /\ UNCHANGED <<map, tablemaps>>
     \/ /\ Here.type = "map" /\ map' = Here.table /\ UNCHANGED query
        /\ tablemaps' = tablemaps \cup {Here.table}
     \/ Here.type = "stop" /\ UNCHANGED tables
  /\ UNCHANGED <<log, half, rereads, name, size, HandedOn, dropped, fault>>

RowHere == [at |-> <<name, Index(off)>>, label |-> map, query |-> query,
            values |-> Here.table \in tablemaps]

Hands ==
  /\ rpc = "parse" /\ AtEvent /\ Here.type = "rows" /\ Goes(off + 2)
  /\ ~(query = 0 \/ map = None)
  /\ HandedOn' = Append(HandedOn, RowHere)
  /\ UNCHANGED <<log, half, rereads, name, size, tables, dropped, fault>>

Drops ==
  /\ rpc = "fullWoken" /\ Goes(off + 2)
  /\ dropped' = dropped \cup {<<name, Index(off)>>}
  /\ UNCHANGED <<log, half, rereads, name, size, tables, HandedOn, fault>>

Kinds ==
  \/ Quiet
  \/ Refresh /\ UNCHANGED HandedOn
  \/ ParseBegin /\ UNCHANGED HandedOn
  \/ Stays \/ Leaves \/ Skips \/ Passes \/ Hands \/ Drops

(* What the parser hands on is a row.                                      *)
LEMMA RowTyped ==
  ASSUME TypeInv, rpc = "parse", AtEvent, Here.type = "rows", ~(query = 0 \/ map = None)
  PROVE  RowHere \in Row
<1>1. name \in 1..MaxFiles /\ Index(off) \in Nat
  BY EventHere, BinlogAssumption DEF TypeInv, LogInv, ServerOK, ParserOK, Parsing
<1>2. query \in 1..MaxStmts /\ map \in Tables
  BY BinlogAssumption DEF TypeInv, ParserOK
<1> QED
  BY <1>1, <1>2 DEF RowHere, Row, Place

(* A signal of "empty" leaves the consumers in their places, or wakes one. *)
LEMMA WakeEmptyTyped ==
  ASSUME NEW f \in [Consumers -> {"run", "empty", "emptyWoken"}], NEW g \in WakeEmpty(f)
  PROVE  g \in [Consumers -> {"run", "empty", "emptyWoken"}]
  BY DEF WakeEmpty

(* Taking the front of the queue changes nothing about what was handed on. *)
LEMMA FrontTaken ==
  ASSUME QueueOK, g_rowDatas # <<>>, NEW c \in Consumers, TakeFront(c)
  PROVE  HandedOn' = HandedOn
<1>1. taken \in Seq(Row) /\ g_rowDatas \in Seq(Row)
  BY DEF QueueOK
<1>2. taken' = Append(taken, Head(g_rowDatas)) /\ g_rowDatas' = Tail(g_rowDatas)
  BY DEF TakeFront
<1> QED
  BY <1>1, <1>2 DEF HandedOn

(* After an event the parser goes on inside the pass, or ends it and keeps *)
(* the position.                                                           *)
LEMMA GoOnGoes ==
  ASSUME NEW o, NEW p \in {ptr, 0}, o \in Nat, size \in Nat, GoOn(o, p)
  PROVE  Goes(o)
  BY DEF GoOn, Goes, Ends, ParsedTo, fileEof

(* Every step is of one of the kinds, and keeps the queue typed.           *)
LEMMA NextKinds == TypeInv /\ [Next]_vars => Kinds /\ QueueOK'
<1> SUFFICES ASSUME TypeInv, [Next]_vars PROVE Kinds /\ QueueOK'
  OBVIOUS
<1>t. /\ QueueOK /\ taken \in Seq(Row) /\ g_rowDatas \in Seq(Row) /\ size \in Nat /\ off \in Nat
      /\ rpc \in {"wait", "begin", "parse", "full", "fullWoken"}
      /\ off + 2 \in Nat
  BY DEF TypeInv, ParserOK, QueueOK
<1>q. ASSUME UNCHANGED rows, fault' \in {fault, "null", "empty"} PROVE UNCHANGED HandedOn /\ QueueOK' /\ dropped' = dropped
  BY <1>q, <1>t DEF rows, QueueOK, HandedOn
<1>1. ASSUME \/ \E whole \in BOOLEAN : Write(whole)
             \/ WriteRest \/ NewFile \/ UNCHANGED vars
      PROVE  Kinds /\ QueueOK'
  <2>1. UNCHANGED <<parser, rows, fault, astray>>
    BY <1>1 DEF Write, WriteRest, NewFile, vars
  <2> QED
    BY <1>q, <2>1 DEF Kinds, Quiet, parser, tables
<1>2. CASE Refresh
  <2>1. UNCHANGED <<rows, fault>>
    BY <1>2 DEF Refresh
  <2> QED
    BY <1>2, <1>q, <2>1 DEF Kinds
<1>3. CASE ParseBegin
  <2>1. UNCHANGED <<rows, fault>>
    BY <1>3 DEF ParseBegin
  <2> QED
    BY <1>3, <1>q, <2>1 DEF Kinds
<1>4. CASE BreakOff
  <2>1. UNCHANGED <<rows, fault>>
    BY <1>4 DEF BreakOff
  <2>2. ~AtEvent
    <3>1. Length(name) \in Nat
      BY Lengths DEF TypeInv, ParserOK, LogInv, ServerOK
    <3> QED
      BY <1>4, <1>t, <3>1 DEF BreakOff, AtEvent
  <2>3. Leaves
    BY <1>4, <1>q, <2>1, <2>2 DEF BreakOff, ParsedTo, Ends, Leaves, server, tables
  <2> QED
    BY <1>q, <2>1, <2>3 DEF Kinds
<1>5. CASE ParseQuery \/ ParseTableMap \/ ParseStop
  <2>1. UNCHANGED <<rows, fault, server, rereads, name, size>>
    BY <1>5 DEF ParseQuery, ParseTableMap, ParseStop
  <2>2. AtEvent /\ rpc = "parse" /\ \E p \in {ptr, 0} : GoOn(off + 2, p)
    BY <1>5 DEF ParseQuery, ParseTableMap, ParseStop, At, AtEvent
  <2>3. Goes(off + 2)
    BY <1>t, <2>2, GoOnGoes
  <2>4. Passes
    BY <1>5, <1>q, <2>1, <2>2, <2>3
       DEF ParseQuery, ParseTableMap, ParseStop, At, Here, Passes, server, tables
  <2> QED
    BY <1>q, <2>1, <2>4 DEF Kinds
<1>6. CASE ParseRows
  <2>1. /\ UNCHANGED <<server, rereads, name, size, query, map, tablemaps, taken, dropped>>
        /\ rpc = "parse" /\ AtEvent /\ Here.type = "rows"
        /\ HandOn(<<name, Index(off)>>, Here.table \in tablemaps, off + 2)
    BY <1>6 DEF ParseRows, At, AtEvent, Here
  <2>2. CASE query = 0 \/ map = None
    <3>1. UNCHANGED rows /\ fault' = "null" /\ UNCHANGED <<rpc, ptr, off, astray>>
      BY <2>1, <2>2 DEF HandOn, rows
    <3>2. Stays
      BY <1>q, <2>1, <2>2, <3>1 DEF Stays, server, tables
    <3> QED
      BY <1>q, <3>1, <3>2 DEF Kinds
  <2>3. CASE ~(query = 0 \/ map = None) /\ Len(g_rowDatas) >= ROWS_DATA_MAX_SIZE
    <3>1. UNCHANGED rows /\ UNCHANGED <<fault, ptr, off, astray>> /\ rpc' = "full"
      BY <2>1, <2>3 DEF HandOn, rows
    <3>2. Stays
      BY <1>q, <2>1, <2>3, <3>1 DEF Stays, server, tables
    <3> QED
      BY <1>q, <3>1, <3>2 DEF Kinds
  <2>4. CASE ~(query = 0 \/ map = None) /\ ~(Len(g_rowDatas) >= ROWS_DATA_MAX_SIZE)
    <3>1. /\ g_rowDatas' = Append(g_rowDatas, RowHere)
          /\ cpc' \in WakeEmpty(cpc) /\ GoOn(off + 2, ptr) /\ UNCHANGED fault
      BY <2>1, <2>4 DEF HandOn, RowHere
    <3>2. RowHere \in Row
      BY <2>1, <2>4, RowTyped
    <3>3. HandedOn' = Append(HandedOn, RowHere)
      <4>1. PICK r \in Row : r = RowHere BY <3>2
      <4> QED
        BY <1>t, <2>1, <3>1, <4>1 DEF HandedOn
    <3>4. QueueOK'
      <4>1. cpc' \in [Consumers -> {"run", "empty", "emptyWoken"}]
        BY <1>t, <3>1, WakeEmptyTyped DEF QueueOK
      <4>2. g_rowDatas' \in Seq(Row) /\ Len(g_rowDatas') <= ROWS_DATA_MAX_SIZE
        BY <1>t, <2>4, <3>1, <3>2, BinlogAssumption
      <4> QED
        BY <1>t, <2>1, <3>1, <4>1, <4>2 DEF QueueOK
    <3>5. Goes(off + 2)
      BY <1>t, <3>1, GoOnGoes
    <3>6. Hands
      BY <2>1, <2>4, <3>1, <3>3, <3>5 DEF Hands, server, tables
    <3> QED
      BY <3>4, <3>6 DEF Kinds
  <2> QED
    BY <2>2, <2>3, <2>4
<1>7. CASE ProductResume
  <2>1. /\ UNCHANGED <<server, rereads, name, size, query, map, tablemaps, g_rowDatas, taken, fault>>
        /\ rpc = "fullWoken" /\ GoOn(off + 2, ptr) /\ cpc' \in WakeEmpty(cpc)
        /\ dropped' = dropped \cup {<<name, Index(off)>>}
    BY <1>7 DEF ProductResume
  <2>2. Goes(off + 2)
    BY <1>t, <2>1, GoOnGoes
  <2>3. <<name, Index(off)>> \in Place
    <3>1. name \in 1..MaxFiles /\ Index(off) \in Nat
      BY <2>1, EventHere, BinlogAssumption, SMTT(60) DEF TypeInv, LogInv, ServerOK, ParserOK, Parsing, PosInv
    <3> QED
      BY <3>1 DEF Place
  <2>4. cpc' \in [Consumers -> {"run", "empty", "emptyWoken"}]
    BY <1>t, <2>1, WakeEmptyTyped DEF QueueOK
  <2>5. QueueOK'
    BY <1>t, <2>1, <2>3, <2>4 DEF QueueOK
  <2>6. Drops
    BY <2>1, <2>2 DEF Drops, HandedOn, server, tables
  <2> QED
    BY <2>5, <2>6 DEF Kinds
<1>8. CASE ParseInside
  <2>1. /\ UNCHANGED <<server, rereads, name, size, query, map, tablemaps, rows, fault>>
        /\ rpc = "parse" /\ Inside(off)
    BY <1>8 DEF ParseInside
  <2>2. CASE ParsedTo /\ UNCHANGED off
    <3>1. Leaves
      BY <1>q, <2>1, <2>2 DEF Leaves, AtEvent, ParsedTo, Ends, server, tables
    <3> QED
      BY <1>q, <2>1, <3>1 DEF Kinds
  <2>3. CASE \E o \in (off + 1)..Length(name) : GoOn(o, ptr)
    <3>1. PICK o \in (off + 1)..Length(name) : GoOn(o, ptr)
      BY <2>3
    <3>2. Length(name) \in Nat
      BY Lengths DEF TypeInv, ParserOK, LogInv, ServerOK
    <3>3. Goes(o)
      BY <1>t, <3>1, <3>2, GoOnGoes
    <3>4. Skips
      BY <1>q, <2>1, <3>1, <3>3 DEF Skips, server, tables
    <3> QED
      BY <1>q, <2>1, <3>4 DEF Kinds
  <2> QED
    BY <1>8, <2>2, <2>3 DEF ParseInside
<1>9. ASSUME NEW c \in Consumers, consumerRowData(c) \/ ConsumerResume(c) PROVE Kinds /\ QueueOK'
  <2>1. UNCHANGED <<rereads, name, size, off, ptr, astray, query, map, tablemaps, dropped>>
    BY <1>9 DEF consumerRowData, ConsumerResume
  <2>2. CASE cpc' = [cpc EXCEPT ![c] = "empty"] /\ UNCHANGED <<g_rowDatas, taken, rpc, fault>>
    BY <1>t, <2>1, <2>2 DEF Kinds, Quiet, tables, QueueOK, HandedOn
  <2>3. CASE TakeFront(c)
    <3>1. CASE g_rowDatas = <<>>
      BY <1>t, <2>1, <2>3, <3>1 DEF TakeFront, Kinds, Quiet, tables, QueueOK, HandedOn
    <3>2. CASE g_rowDatas # <<>>
      <4>1. HandedOn' = HandedOn
        BY <1>t, <2>3, <3>2, FrontTaken
      <4>2. /\ taken' = Append(taken, Head(g_rowDatas)) /\ g_rowDatas' = Tail(g_rowDatas)
            /\ cpc' = [cpc EXCEPT ![c] = "run"] /\ rpc' = WakeFull /\ UNCHANGED fault
        BY <2>3, <3>2 DEF TakeFront
      <4>3. Head(g_rowDatas) \in Row /\ Tail(g_rowDatas) \in Seq(Row)
            /\ Len(Tail(g_rowDatas)) <= ROWS_DATA_MAX_SIZE
        BY <1>t, <3>2, BinlogAssumption DEF QueueOK
      <4>4. QueueOK'
        BY <1>t, <2>1, <4>2, <4>3 DEF QueueOK
      <4>5. Quiet
        BY <2>1, <4>1, <4>2 DEF Quiet, tables, WakeFull
      <4> QED
        BY <4>4, <4>5 DEF Kinds
    <3> QED
      BY <3>1, <3>2
  <2> QED
    BY <1>9, <2>2, <2>3 DEF consumerRowData, ConsumerResume
<1> QED
  BY <1>1, <1>2, <1>3, <1>4, <1>5, <1>6, <1>7, <1>8, <1>9 DEF Next, MonitorStep

AllLengths == \A f \in DOMAIN log : Length(f) \in Nat /\ Length(f) >= Base

(* Lengths, of all files.                                                  *)
LEMMA LengthsHold == LogInv => AllLengths
  BY Lengths DEF AllLengths

(* The same after a step.                                                  *)
LEMMA LengthsNext == LogInv' => AllLengths'
  BY LengthsHold, PTL

(* The file that is followed only grows.                                   *)
LEMMA FollowedGrows ==
  ASSUME TypeInv, LogInv', Grown, UNCHANGED name
  PROVE  /\ name' \in 1..Len(log') /\ Extends(log'[name], log[name])
         /\ Length(name)' >= Length(name) /\ Length(name) \in Nat /\ Length(name)' \in Nat
         /\ Length(name)' >= Base
<1>1. PICK n : n = name OBVIOUS
<1>2. n \in DOMAIN log /\ DOMAIN log = 1..Len(log) /\ DOMAIN log' = 1..Len(log')
  BY <1>1 DEF TypeInv, ParserOK, LogInv, ServerOK
<1>3. Extends(log'[n], log[n]) /\ Length(n)' >= Length(n) /\ n \in DOMAIN log'
  BY <1>2 DEF Grown
<1>4. Length(name) = Length(n) /\ Length(name)' = Length(n)'
  BY <1>1 DEF Length
<1>5. Length(n) \in Nat
  BY <1>2, Lengths DEF TypeInv
<1>6. Length(n)' \in Nat /\ Length(n)' >= Base
  BY <1>3, LengthsNext DEF AllLengths
<1> QED
  BY <1>1, <1>2, <1>3, <1>4, <1>5, <1>6

(* The parser's variables keep their types and its position its bounds.    *)
LEMMA NextParserInv ==
  ASSUME TypeInv, LogInv', Grown, Kinds
  PROVE  ParserOK' /\ PosInv'
<1>t. /\ rereads \in BOOLEAN /\ astray \in BOOLEAN
      /\ rpc \in {"wait", "begin", "parse", "full", "fullWoken"}
      /\ name \in 1..Len(log)
      /\ ptr \in Nat /\ size \in Nat /\ off \in Nat
      /\ query \in 0..MaxStmts
      /\ map \in Tables \cup {None}
      /\ tablemaps \subseteq Tables
      /\ rpc # "wait" => size >= Base /\ size <= Length(name)
      /\ Parsing => off >= Base /\ (off < size \/ off = Base)
  BY DEF TypeInv, ParserOK, PosInv
<1>g. ASSUME UNCHANGED name
      PROVE  /\ name' \in 1..Len(log') /\ Extends(log'[name], log[name])
             /\ Length(name)' >= Length(name) /\ Length(name) \in Nat /\ Length(name)' \in Nat
             /\ Length(name)' >= Base
  BY <1>g, FollowedGrows
<1>e. ASSUME Parsing, AtEvent, Here.type = "rows", UNCHANGED <<name, off>>
      PROVE  AtEvent' /\ Here'.type = "rows"
  <2>1. /\ Index(off) \in DOMAIN log[name] /\ off + 2 <= Length(name) /\ ~Inside(off)
    BY <1>e, EventHere DEF AtEvent
  <2>2. AtEvent'
    BY <1>e, <1>g, <1>t, <2>1 DEF AtEvent, Inside
  <2>3. Here' = Here
    BY <1>e, <1>g, <2>1 DEF Here, Extends, Index
  <2> QED
    BY <1>e, <2>2, <2>3
(* The loop goes on, or ends.                                              *)
<1>l. ASSUME Parsing, NEW o, o \in Nat, o >= Base, off' = o, Goes(o) \/ Ends, UNCHANGED <<name, size>>
      PROVE  /\ rpc' \in {"wait", "parse"} /\ ptr' \in Nat /\ off' \in Nat /\ astray' \in BOOLEAN
             /\ PosInv'
  <2>1. /\ rpc' \in {"wait", "parse"} /\ ptr' \in Nat /\ off' \in Nat /\ astray' \in BOOLEAN
        /\ rpc' = "parse" => o < size
    <3>1. astray' \in BOOLEAN
      BY <1>l, <1>t DEF Goes, Ends
    <3>2. rpc' \in {"wait", "parse"} /\ (rpc' = "parse" => o < size)
      BY <1>l DEF Goes, Ends
    <3>3. ptr' \in {ptr, size, 0}
      BY <1>l DEF Goes, Ends
    <3> QED
      BY <1>l, <1>t, <3>1, <3>2, <3>3
  <2>2. size >= Base /\ size <= Length(name)
    BY <1>l, <1>t DEF Parsing
  <2>3. rpc' # "wait" => size' >= Base /\ size' <= Length(name)'
    BY <1>g, <1>l, <1>t, <2>2
  <2>4. Parsing' => off' >= Base /\ (off' < size' \/ off' = Base)
    BY <1>l, <1>t, <2>1 DEF Parsing
  <2>5. ~(rpc' \in {"full", "fullWoken"})
    BY <2>1
  <2>6. PosInv'
    BY <2>3, <2>4, <2>5 DEF PosInv
  <2> QED
    BY <2>1, <2>6
<1>1. CASE Quiet
  <2>1. /\ UNCHANGED <<rereads, name, size, off, ptr, astray, query, map, tablemaps>>
        /\ rpc' = rpc \/ (rpc = "full" /\ rpc' = "fullWoken")
    BY <1>1 DEF Quiet, tables
  <2>2. ParserOK'
    BY <1>g, <1>t, <2>1 DEF ParserOK
  <2>3. rpc' # "wait" => size' >= Base /\ size' <= Length(name)'
    BY <1>g, <1>t, <2>1
  <2>4. Parsing' => off' >= Base /\ (off' < size' \/ off' = Base)
    BY <1>t, <2>1 DEF Parsing
  <2>5. rpc' \in {"full", "fullWoken"} => AtEvent' /\ Here'.type = "rows"
    BY <1>e, <2>1 DEF TypeInv, PosInv, Parsing
  <2> QED
    BY <2>2, <2>3, <2>4, <2>5 DEF PosInv
<1>2. CASE Refresh
  <2>1. /\ name' = IF rereads THEN Len(log) ELSE name
        /\ size' = Length(name') /\ off' = 0 /\ rpc' = "begin"
        /\ astray' = (astray \/ name' # name) /\ UNCHANGED <<log, half, rereads, ptr, query, map, tablemaps>>
    BY <1>2 DEF Refresh
  <2>2. name' \in DOMAIN log /\ name' \in 1..Len(log')
    BY <1>t, <2>1 DEF TypeInv, LogInv, ServerOK
  <2>3. Length(name') \in Nat /\ Length(name') >= Base
    BY <2>2, Lengths DEF TypeInv
  <2>4. Length(name)' = Length(name')
    BY <2>1 DEF Length
  <2>5. ParserOK'
    BY <1>t, <2>1, <2>2, <2>3 DEF ParserOK
  <2>6. PosInv'
    BY <2>1, <2>3, <2>4 DEF PosInv, Parsing, Base
  <2> QED
    BY <2>5, <2>6
<1>3. CASE ParseBegin
  <2>1. UNCHANGED <<log, half, rereads, name, ptr, size, query, map, tablemaps, astray>> /\ rpc = "begin"
    BY <1>3 DEF ParseBegin, server
  <2>2. \/ rpc' = "wait" /\ off' = off
        \/ rpc' = "parse" /\ off' = Base
        \/ rpc' = "parse" /\ off' = ptr /\ ptr # 0 /\ ptr < size
    BY <1>3, <1>t DEF ParseBegin
  <2>3. ParserOK'
    BY <1>g, <1>t, <2>1, <2>2 DEF ParserOK, Base
  <2>4. rpc' # "wait" => size' >= Base /\ size' <= Length(name)'
    BY <1>g, <1>t, <2>1
  <2>5. Parsing' => off' >= Base /\ (off' < size' \/ off' = Base)
    BY <1>t, <2>1, <2>2 DEF Parsing, Base
  <2>6. ~(rpc' \in {"full", "fullWoken"})
    BY <2>2
  <2> QED
    BY <2>3, <2>4, <2>5, <2>6 DEF PosInv
<1>4. CASE Stays
  <2>1. /\ UNCHANGED <<rereads, name, size, off, ptr, astray, query, map, tablemaps>>
        /\ rpc = "parse" /\ rpc' \in {"parse", "full"} /\ AtEvent /\ Here.type = "rows"
    BY <1>4 DEF Stays, tables
  <2>2. ParserOK'
    BY <1>g, <1>t, <2>1 DEF ParserOK
  <2>3. rpc' # "wait" => size' >= Base /\ size' <= Length(name)'
    BY <1>g, <1>t, <2>1
  <2>4. Parsing' => off' >= Base /\ (off' < size' \/ off' = Base)
    BY <1>t, <2>1 DEF Parsing
  <2>5. rpc' \in {"full", "fullWoken"} => AtEvent' /\ Here'.type = "rows"
    BY <1>e, <2>1 DEF Parsing
  <2> QED
    BY <2>2, <2>3, <2>4, <2>5 DEF PosInv
<1>5. ASSUME Parsing, NEW o, o \in Nat, o >= Base, off' = o, Goes(o) \/ Ends,
             UNCHANGED <<rereads, name, size>>, query' \in 0..MaxStmts,
             map' \in Tables \cup {None}, tablemaps' \subseteq Tables
      PROVE  ParserOK' /\ PosInv'
  <2>1. /\ rpc' \in {"wait", "parse"} /\ ptr' \in Nat /\ off' \in Nat /\ astray' \in BOOLEAN
        /\ PosInv'
    BY <1>l, <1>5
  <2> QED
    BY <1>g, <1>t, <1>5, <2>1 DEF ParserOK
<1>6. CASE Leaves
  BY <1>5, <1>6, <1>t DEF Leaves, Parsing, tables
<1>7. CASE Skips
  <2>1. PICK o \in (off + 1)..Length(name) : Goes(o)
    BY <1>7 DEF Skips
  <2>2. o \in Nat /\ o >= Base /\ off' = o /\ Parsing
    BY <1>7, <1>g, <1>t, <2>1 DEF Skips, Goes, Parsing, Base
  <2> QED
    BY <1>5, <1>7, <1>t, <2>1, <2>2 DEF Skips, tables
<1>8. CASE Passes \/ Hands \/ Drops
  <2>1. /\ Parsing /\ AtEvent /\ Goes(off + 2) /\ UNCHANGED <<rereads, name, size>>
    BY <1>8 DEF Passes, Hands, Drops, Parsing, TypeInv, PosInv
  <2>2. off + 2 \in Nat /\ off + 2 >= Base /\ off' = off + 2
    BY <1>t, <2>1 DEF Goes, Base
  <2>3. Here \in Event /\ (Here.type = "map" => Here.table \in Tables)
    BY <2>1, EventHere DEF FileOK, Here
  <2>4. query' \in 0..MaxStmts /\ map' \in Tables \cup {None} /\ tablemaps' \subseteq Tables
    <3>1. CASE Passes
      BY <1>t, <2>3, <3>1 DEF Passes, tables, Event
    <3>2. CASE Hands \/ Drops
      BY <1>t, <3>2 DEF Hands, Drops, tables
    <3> QED
      BY <1>8, <3>1, <3>2
  <2> QED
    BY <1>5, <2>1, <2>2, <2>4
<1> QED
  BY <1>1, <1>2, <1>3, <1>4, <1>6, <1>7, <1>8 DEF Kinds

(* Every step keeps the inductive type invariant, and is of one of the     *)
(* kinds named.                                                            *)
LEMMA NextTypeInv == TypeInv /\ [Next]_vars => TypeInv' /\ Grown /\ Kinds
<1> SUFFICES ASSUME TypeInv, [Next]_vars PROVE TypeInv' /\ Grown /\ Kinds
  OBVIOUS
<1>1. LogInv' /\ Grown
  BY NextLogInv DEF TypeInv
<1>2. Kinds /\ QueueOK'
  BY NextKinds
<1>3. ParserOK' /\ PosInv'
  BY <1>1, <1>2, NextParserInv
<1> QED
  BY <1>1, <1>2, <1>3 DEF TypeInv

(* The variables stay in their ranges, for any number of files and events: *)
(* in particular every event the parser indexes is there, and the queue    *)
(* never holds more than ROWS_DATA_MAX_SIZE rows (CRowData.cpp:9).         *)
THEOREM TypeCorrect == Spec => []TypeOK
<1>1. Spec => []TypeInv
  BY InitTypeInv, NextTypeInv, PTL DEF Spec
<1> QED
  BY <1>1, TypeInvTypeOK, PTL

-----------------------------------------------------------------------------
(* Where the parser takes up the file again.                               *)
Position == IF Parsing THEN off ELSE ptr

Earlier(a, b) == a[1] < b[1] \/ (a[1] = b[1] /\ a[2] < b[2])

Increasing(h) == \A j, k \in DOMAIN h : j < k => Earlier(h[j].at, h[k].at)

(* The rows of h lie in files up to n, and in that file before offset p.   *)
(* At an offset inside an event, this event may be among them.             *)
Bounded(h, n, p) ==
  \A k \in DOMAIN h :
    /\ h[k].at[1] <= n /\ h[k].at[2] >= 1
    /\ h[k].at[1] = n => 2 * h[k].at[2] <= p

BackInv == Increasing(HandedOn) /\ Bounded(HandedOn, name, Position)

(* The place of a row is a file and an event.                              *)
LEMMA RowPlace == ASSUME NEW r \in Row PROVE r.at[1] \in Nat /\ r.at[2] \in Nat
<1>1. r.at \in (1..MaxFiles) \X Nat
  BY DEF Row, Place
<1> QED
  BY <1>1, BinlogAssumption

(* Rows that are before a position are before every later one.             *)
LEMMA BoundedMoves ==
  ASSUME NEW h \in Seq(Row), NEW n \in Nat, NEW p \in Nat, NEW m \in Nat, NEW q \in Nat,
         Bounded(h, n, p), n < m \/ (n = m /\ p <= q)
  PROVE  Bounded(h, m, q)
<1>1. \A k \in DOMAIN h : h[k].at[1] \in Nat /\ h[k].at[2] \in Nat
  <2>1. \A k \in DOMAIN h : h[k] \in Row
    OBVIOUS
  <2> QED
    BY <2>1, RowPlace
<1> QED
  BY <1>1 DEF Bounded

(* The row of the event at the position comes behind all rows before it.   *)
LEMMA RowAppended ==
  ASSUME NEW h \in Seq(Row), NEW r \in Row, NEW n \in Nat, NEW i \in Nat \ {0}, NEW p, NEW q \in Nat,
         Increasing(h), Bounded(h, n, p), p = 2 * i - 1, q >= 2 * i, r.at[1] = n, r.at[2] = i
  PROVE  Increasing(Append(h, r)) /\ Bounded(Append(h, r), n, q)
<1>1. \A k \in DOMAIN h : h[k].at[1] \in Nat /\ h[k].at[2] \in Nat
  <2>1. \A k \in DOMAIN h : h[k] \in Row
    OBVIOUS
  <2> QED
    BY <2>1, RowPlace
<1>2. PICK g : g = Append(h, r) OBVIOUS
<1>3. /\ DOMAIN h = 1..Len(h) /\ Len(h) \in Nat /\ DOMAIN g = 1..(Len(h) + 1)
      /\ g[Len(h) + 1] = r /\ \A k \in DOMAIN h : g[k] = h[k]
  BY <1>2
<1>4. \A k \in DOMAIN h : Earlier(h[k].at, r.at)
  BY <1>1 DEF Bounded, Earlier
<1>5. Increasing(g)
  <2> SUFFICES ASSUME NEW j \in DOMAIN g, NEW k \in DOMAIN g, j < k
               PROVE  Earlier(g[j].at, g[k].at)
    BY DEF Increasing
  <2>1. CASE k \in DOMAIN h
    BY <1>3, <2>1 DEF Increasing
  <2>2. CASE k = Len(h) + 1
    BY <1>3, <1>4, <2>2
  <2> QED
    BY <1>3, <2>1, <2>2
<1>6. Bounded(g, n, q)
  <2> SUFFICES ASSUME NEW k \in DOMAIN g
               PROVE  /\ g[k].at[1] <= n /\ g[k].at[2] >= 1
                      /\ g[k].at[1] = n => 2 * g[k].at[2] <= q
    BY DEF Bounded
  <2>1. CASE k \in DOMAIN h
    BY <1>1, <1>3, <2>1 DEF Bounded
  <2>2. CASE k = Len(h) + 1
    BY <1>3, <2>2
  <2> QED
    BY <1>3, <2>1, <2>2
<1> QED
  BY <1>2, <1>5, <1>6

(* The position never goes back, wherever the loop ends.                   *)
LEMMA PositionRises ==
  ASSUME TypeInv, Parsing, NEW o \in Nat, o >= off, off' = o, Goes(o) \/ Ends, UNCHANGED size
  PROVE  /\ Position' \in Nat /\ Position' >= off
         /\ o > off /\ off < size => Position' > off
<1>1. /\ off \in Nat /\ size \in Nat /\ (off < size \/ off = Base) /\ size >= Base
  BY DEF TypeInv, ParserOK, PosInv, Parsing
<1>2. Position' = o \/ Position' = size
  BY DEF Goes, Ends, Position, Parsing
<1> QED
  BY <1>1, <1>2 DEF Base

(* Every step keeps what is handed on increasing and behind the position.  *)
LEMMA NextBackInv ==
  ASSUME TypeInv, Kinds, BackInv, [Next]_vars
  PROVE  BackInv'
<1>t. /\ HandedOn \in Seq(Row) /\ name \in Nat /\ ptr \in Nat /\ size \in Nat /\ off \in Nat
      /\ Position \in Nat
      /\ Increasing(HandedOn) /\ Bounded(HandedOn, name, Position)
  BY DEF TypeInv, ParserOK, QueueOK, HandedOn, BackInv, Position
<1>k. ASSUME UNCHANGED HandedOn, NEW m \in Nat, NEW q \in Nat, name' = m, Position' = q,
             name < m \/ (name = m /\ Position <= q)
      PROVE  BackInv'
  <2>1. Bounded(HandedOn, m, q)
    <3>1. PICK h : h = HandedOn OBVIOUS
    <3>2. PICK n : n = name OBVIOUS
    <3>3. PICK p : p = Position OBVIOUS
    <3>4. Bounded(h, m, q)
      BY <1>k, <1>t, <3>1, <3>2, <3>3, BoundedMoves
    <3> QED
      BY <3>1, <3>4
  <2> QED
    BY <1>k, <1>t, <2>1 DEF BackInv, Increasing, Bounded
<1>s. ASSUME UNCHANGED <<HandedOn, name>>, Position' = Position PROVE BackInv'
  BY <1>k, <1>s, <1>t
<1>1. CASE Quiet
  <2>1. Position' = Position
    BY <1>1 DEF Quiet, Position, Parsing
  <2> QED
    BY <1>1, <1>s, <2>1 DEF Quiet
<1>2. CASE Refresh /\ UNCHANGED HandedOn
  <2>1. Position' = ptr /\ Position = ptr
    BY <1>2 DEF Refresh, Position, Parsing
  <2>2. name' \in Nat /\ name <= name'
    BY <1>2 DEF Refresh, TypeInv, ParserOK, LogInv, ServerOK
  <2> QED
    BY <1>2, <1>k, <1>t, <2>1, <2>2
<1>3. CASE ParseBegin /\ UNCHANGED HandedOn
  <2>1. UNCHANGED <<ptr, name>> /\ Position = ptr
    BY <1>3 DEF ParseBegin, Position, Parsing
  <2>2. Position' \in Nat /\ Position <= Position'
    BY <1>3, <1>t, <2>1 DEF ParseBegin, Position, Parsing, Base
  <2> QED
    BY <1>3, <1>k, <1>t, <2>1, <2>2
<1>4. CASE Stays
  <2>1. Position' = Position
    BY <1>4 DEF Stays, Position, Parsing
  <2> QED
    BY <1>4, <1>s, <2>1 DEF Stays
<1>5. ASSUME Parsing, NEW o \in Nat, o >= off, off' = o, Goes(o) \/ Ends,
             UNCHANGED <<name, size, HandedOn>>
      PROVE  BackInv'
  <2>1. Position = off /\ Position' \in Nat /\ Position' >= off
    BY <1>5, PositionRises DEF Position
  <2> QED
    BY <1>5, <1>k, <1>t, <2>1
<1>6. CASE Leaves
  BY <1>5, <1>6, <1>t DEF Leaves, Parsing
<1>7. CASE Skips
  <2>1. PICK o \in (off + 1)..Length(name) : Goes(o)
    BY <1>7 DEF Skips
  <2>2. Length(name) \in Nat
    BY Lengths DEF TypeInv, ParserOK, LogInv, ServerOK
  <2>3. o \in Nat /\ o >= off /\ off' = o /\ Parsing
    BY <1>7, <1>t, <2>1, <2>2 DEF Skips, Goes, Parsing
  <2> QED
    BY <1>5, <1>7, <2>1, <2>3 DEF Skips
<1>8. CASE Passes \/ Drops
  <2>1. Parsing /\ Goes(off + 2) /\ UNCHANGED <<name, size, HandedOn>>
    BY <1>8 DEF Passes, Drops, Parsing
  <2>2. off + 2 \in Nat /\ off + 2 >= off /\ off' = off + 2
    BY <1>t, <2>1 DEF Goes
  <2> QED
    BY <1>5, <2>1, <2>2
<1>9. CASE Hands
  <2>1. /\ Parsing /\ AtEvent /\ Goes(off + 2) /\ UNCHANGED <<name, size>>
        /\ HandedOn' = Append(HandedOn, RowHere) /\ Here.type = "rows" /\ rpc = "parse"
        /\ ~(query = 0 \/ map = None)
    BY <1>9 DEF Hands, Parsing
  <2>2. PICK i \in Nat \ {0} : i = Index(off) /\ off = 2 * i - 1 /\ i \in DOMAIN log[name]
    BY <2>1, EventHere
  <2>3. i # 1
    <3>1. FileOK(log[name]) /\ log[name] \in Seq(Event)
      BY <2>1, EventHere
    <3>2. log[name][1].type = "query"
      BY <2>2, <3>1 DEF FileOK
    <3> QED
      BY <2>1, <2>2, <3>2 DEF Here
  <2>4. off < size
    BY <2>1, <2>2, <2>3 DEF TypeInv, PosInv, Base
  <2>5. /\ off + 2 \in Nat /\ off + 2 > off /\ off' = off + 2
    BY <1>t, <2>1 DEF Goes
  <2>6. Position' \in Nat /\ Position' > off
    <3>1. PICK o \in Nat : o = off + 2 BY <2>5
    <3> QED
      BY <1>t, <2>1, <2>4, <2>5, <3>1, PositionRises
  <2>7. PICK r \in Row : r = RowHere
    BY <2>1, RowTyped
  <2>8. r.at[1] = name /\ r.at[2] = i
    BY <2>2, <2>7 DEF RowHere
  <2>9. PICK h : h = HandedOn OBVIOUS
  <2>10. PICK n : n = name OBVIOUS
  <2>11. PICK q \in Nat : q = Position' BY <2>6
  <2>12. Increasing(Append(h, r)) /\ Bounded(Append(h, r), n, q)
    <3>1. Increasing(h) /\ Bounded(h, n, off) /\ h \in Seq(Row) /\ n \in Nat
      BY <1>t, <2>1, <2>9, <2>10 DEF Position
    <3>2. q >= 2 * i /\ r.at[1] = n /\ r.at[2] = i
      <4>1. q > 2 * i - 1
        BY <2>2, <2>6, <2>11
      <4> QED
        BY <2>8, <2>10, <4>1
    <3>3. PICK p : p = off OBVIOUS
    <3>4. Bounded(h, n, p) /\ p = 2 * i - 1
      BY <2>2, <3>1, <3>3
    <3> QED
      BY <3>1, <3>2, <3>4, RowAppended
  <2> QED
    BY <2>1, <2>7, <2>9, <2>10, <2>11, <2>12 DEF BackInv, Increasing, Bounded
<1> QED
  BY <1>1, <1>2, <1>3, <1>4, <1>6, <1>7, <1>8, <1>9 DEF Kinds

(* No row of a log is handed on twice, or before an earlier one, however   *)
(* the files rotate and wherever a pass ends: the position that parseBegin *)
(* keeps is never behind a row it has handed on (ParseLogEntry.cpp).       *)
THEOREM NeverBackHolds == Spec => []NeverBack
<1>1. Init => BackInv
  BY DEF Init, BackInv, HandedOn, Increasing, Bounded
<1>2. TypeInv /\ BackInv /\ [Next]_vars => TypeInv' /\ BackInv'
  BY NextTypeInv, NextBackInv
<1>3. BackInv => NeverBack
  BY DEF BackInv, NeverBack, Increasing, Earlier
<1> QED
  BY <1>1, <1>2, <1>3, InitTypeInv, PTL DEF Spec

-----------------------------------------------------------------------------
IsMap(e, s, t) == e.type = "map" /\ e.stmt = s /\ e.table = t

(* What the parser knows when n events of file s are behind it.            *)
TablesRead(s, n, q, m, ts) ==
  n > 0 =>
    /\ q = s[n].stmt
    /\ s[n].type \in {"map", "rows"} => \E i \in 1..n : IsMap(s[i], s[n].stmt, m)
    /\ \A i \in 1..n : s[i].type = "map" => s[i].table \in ts

(* Row r stands for a rows event of file s, whose number is f.             *)
RowOf(r, s, f, n, d) ==
  /\ r.at[1] = f /\ r.at[2] \in 1..n
  /\ s[r.at[2]].type = "rows" /\ r.at \notin d
  /\ r.values /\ r.query = s[r.at[2]].stmt
  /\ \E i \in 1..r.at[2] : IsMap(s[i], s[r.at[2]].stmt, r.label)

RowsHanded(s, f, n, h, d) ==
  /\ \A k \in DOMAIN h : RowOf(h[k], s, f, n, d)
  /\ \A i \in 1..n : s[i].type = "rows" /\ <<f, i>> \notin d => \E k \in DOMAIN h : h[k].at = <<f, i>>
  /\ \A i \in Nat : <<f, i>> \in d => i <= n

(* A place is a pair.                                                      *)
LEMMA RowsPair == ASSUME NEW r \in Row PROVE r.at = <<r.at[1], r.at[2]>>
<1>1. r.at \in (1..MaxFiles) \X Nat
  BY DEF Row, Place
<1> QED
  BY <1>1

(* What was read of a file stays true when the file grows.                 *)
LEMMA ReadExtends ==
  ASSUME NEW s \in Seq(Event), NEW t \in Seq(Event), Extends(t, s), NEW n \in 0..Len(s),
         NEW q, NEW m, NEW ts, NEW f, NEW h \in Seq(Row), NEW d,
         TablesRead(s, n, q, m, ts), RowsHanded(s, f, n, h, d)
  PROVE  TablesRead(t, n, q, m, ts) /\ RowsHanded(t, f, n, h, d) /\ n \in 0..Len(t)
<1>1. n \in 0..Len(t) /\ \A i \in 1..n : t[i] = s[i]
  BY DEF Extends
<1>2. TablesRead(t, n, q, m, ts)
  <2>1. n > 0 => n \in 1..n
    OBVIOUS
  <2> QED
    BY <1>1, <2>1 DEF TablesRead, IsMap
<1>3. ASSUME NEW k \in DOMAIN h PROVE RowOf(h[k], t, f, n, d)
  <2>1. RowOf(h[k], s, f, n, d)
    BY DEF RowsHanded
  <2>2. h[k].at[2] \in 1..n /\ \A i \in 1..h[k].at[2] : i \in 1..n
    BY <2>1 DEF RowOf
  <2> QED
    BY <1>1, <2>1, <2>2 DEF RowOf
<1> QED
  BY <1>1, <1>2, <1>3 DEF RowsHanded

(* What an event does to query, map and tablemaps.                         *)
LEMMA EventRead ==
  ASSUME NEW s \in Seq(Event), FileOK(s), NEW n \in Nat, n + 1 \in DOMAIN s,
         NEW q, NEW m, NEW ts, TablesRead(s, n, q, m, ts)
  PROVE  /\ s[n + 1].type = "query" => TablesRead(s, n + 1, s[n + 1].stmt, m, ts)
         /\ s[n + 1].type = "map" /\ n > 0 =>
              TablesRead(s, n + 1, q, s[n + 1].table, ts \cup {s[n + 1].table})
         /\ s[n + 1].type \in {"stop", "rows"} /\ n > 0 => TablesRead(s, n + 1, q, m, ts)
         /\ n = 0 => s[n + 1].type = "query"
<1>0. s[1].type = "query" /\ (n > 0 => n \in DOMAIN s)
  BY DEF FileOK
<1>1. n > 0 => s[n + 1].type = "query" \/ s[n + 1].stmt = s[n].stmt
  <2> HAVE n > 0
  <2>1. n + 1 \in DOMAIN s \ {1} /\ (n + 1) - 1 = n
    OBVIOUS
  <2> QED
    BY <2>1 DEF FileOK
<1>2. n > 0 /\ s[n + 1].type = "rows" => s[n].type \in {"map", "rows"}
  <2> HAVE n > 0 /\ s[n + 1].type = "rows"
  <2>1. n + 1 \in DOMAIN s \ {1} /\ (n + 1) - 1 = n
    OBVIOUS
  <2> QED
    BY <2>1 DEF FileOK
<1>3. \A i \in 1..(n + 1) : i \in 1..n \/ i = n + 1
  OBVIOUS
<1>4. CASE n = 0
  <2>1. s[n + 1].type = "query" /\ n + 1 = 1
    BY <1>0, <1>4
  <2>2. TablesRead(s, n + 1, s[n + 1].stmt, m, ts)
    BY <1>3, <1>4, <2>1 DEF TablesRead
  <2> QED
    BY <1>4, <2>1, <2>2
<1>5. CASE n > 0
  <2>0. /\ q = s[n].stmt
        /\ s[n].type \in {"map", "rows"} => \E i \in 1..n : IsMap(s[i], s[n].stmt, m)
        /\ \A i \in 1..n : s[i].type = "map" => s[i].table \in ts
    BY <1>5 DEF TablesRead
  <2>1. CASE s[n + 1].type = "query"
    BY <1>3, <1>5, <2>0, <2>1 DEF TablesRead
  <2>2. CASE s[n + 1].type = "map"
    <3>1. s[n + 1].stmt = s[n].stmt /\ n + 1 \in 1..(n + 1)
      BY <1>1, <1>5, <2>2
    <3>2. IsMap(s[n + 1], s[n + 1].stmt, s[n + 1].table)
      BY <2>2 DEF IsMap
    <3>3. TablesRead(s, n + 1, q, s[n + 1].table, ts \cup {s[n + 1].table})
      BY <1>3, <2>0, <3>1, <3>2 DEF TablesRead
    <3> QED
      BY <1>5, <2>2, <3>3
  <2>3. CASE s[n + 1].type \in {"stop", "rows"}
    <3>1. s[n + 1].stmt = s[n].stmt
      BY <1>1, <1>5, <2>3
    <3>2. s[n + 1].type = "rows" => \E i \in 1..(n + 1) : IsMap(s[i], s[n + 1].stmt, m)
      BY <1>2, <1>5, <2>0, <3>1
    <3>3. TablesRead(s, n + 1, q, m, ts)
      BY <1>3, <2>0, <2>3, <3>1, <3>2 DEF TablesRead
    <3> QED
      BY <1>5, <2>3, <3>3
  <2>4. s[n + 1].type \in {"query", "map", "rows", "stop"}
    <3>1. s[n + 1] \in Event
      OBVIOUS
    <3> QED
      BY <3>1 DEF Event
  <2> QED
    BY <2>1, <2>2, <2>3, <2>4
<1> QED
  BY <1>4, <1>5

(* A rows event is the next: its statement's query and a map of its        *)
(* statement are known, and its own table is mapped.                       *)
LEMMA RowsKnown ==
  ASSUME NEW s \in Seq(Event), FileOK(s), NEW n \in Nat, n + 1 \in DOMAIN s, s[n + 1].type = "rows",
         NEW q, NEW m, NEW ts, TablesRead(s, n, q, m, ts)
  PROVE  /\ n > 0 /\ q = s[n + 1].stmt /\ q > 0 /\ m \in Tables /\ s[n + 1].table \in ts
         /\ \E i \in 1..(n + 1) : IsMap(s[i], s[n + 1].stmt, m)
<1>1. n > 0
  BY DEF FileOK
<1>2. n + 1 \in DOMAIN s \ {1} /\ (n + 1) - 1 = n /\ n \in DOMAIN s
  BY <1>1
<1>3. s[n + 1].stmt = s[n].stmt /\ s[n].type \in {"map", "rows"} /\ s[n + 1].stmt > 0
  BY <1>2 DEF FileOK
<1>4. /\ q = s[n].stmt
      /\ \E i \in 1..n : IsMap(s[i], s[n].stmt, m)
      /\ \A i \in 1..n : s[i].type = "map" => s[i].table \in ts
  BY <1>1, <1>3 DEF TablesRead
<1>5. PICK i \in 1..n : IsMap(s[i], s[n].stmt, m)
  BY <1>4
<1>6. i \in DOMAIN s /\ i \in 1..(n + 1) /\ IsMap(s[i], s[n + 1].stmt, m)
  BY <1>3, <1>5
<1>7. m \in Tables
  BY <1>6 DEF FileOK, IsMap
<1>8. PICK j \in 1..(n + 1) : s[j].type = "map" /\ s[j].table = s[n + 1].table
  BY DEF FileOK
<1>9. j \in 1..n
  BY <1>8
<1> QED
  BY <1>1, <1>3, <1>4, <1>6, <1>7, <1>8, <1>9

(* An event without rows adds none to what must be handed on.              *)
LEMMA NoRowsRead ==
  ASSUME NEW s, NEW n \in Nat, s[n + 1].type # "rows", NEW f, NEW h \in Seq(Row), NEW d,
         RowsHanded(s, f, n, h, d)
  PROVE  RowsHanded(s, f, n + 1, h, d)
<1>1. \A i \in 1..(n + 1) : i \in 1..n \/ i = n + 1
  OBVIOUS
<1>2. \A k \in DOMAIN h : RowOf(h[k], s, f, n + 1, d)
  BY DEF RowsHanded, RowOf
<1>3. \A i \in 1..(n + 1) : s[i].type = "rows" /\ <<f, i>> \notin d => \E k \in DOMAIN h : h[k].at = <<f, i>>
  BY <1>1 DEF RowsHanded
<1>4. \A i \in Nat : <<f, i>> \in d => i <= n + 1
  BY DEF RowsHanded
<1> QED
  BY <1>2, <1>3, <1>4 DEF RowsHanded

(* A rows event adds its row, with its statement and a table of it.        *)
LEMMA RowRead ==
  ASSUME NEW s, NEW n \in Nat, s[n + 1].type = "rows", NEW f, NEW h \in Seq(Row), NEW d,
         RowsHanded(s, f, n, h, d), NEW r \in Row, r.at = <<f, n + 1>>, r.values,
         r.query = s[n + 1].stmt, \E i \in 1..(n + 1) : IsMap(s[i], s[n + 1].stmt, r.label)
  PROVE  RowsHanded(s, f, n + 1, Append(h, r), d)
<1>1. PICK g : g = Append(h, r) OBVIOUS
<1>2. /\ DOMAIN h = 1..Len(h) /\ Len(h) \in Nat /\ DOMAIN g = 1..(Len(h) + 1)
      /\ g[Len(h) + 1] = r /\ \A k \in DOMAIN h : g[k] = h[k]
  BY <1>1
<1>3. r.at[1] = f /\ r.at[2] = n + 1 /\ r.at \notin d
  BY DEF RowsHanded
<1>4. RowOf(r, s, f, n + 1, d)
  BY <1>3 DEF RowOf
<1>5. \A k \in DOMAIN h : RowOf(h[k], s, f, n + 1, d)
  BY DEF RowsHanded, RowOf
<1>6. \A k \in DOMAIN g : RowOf(g[k], s, f, n + 1, d)
  BY <1>2, <1>4, <1>5
<1>7. ASSUME NEW i \in 1..(n + 1), s[i].type = "rows", <<f, i>> \notin d
      PROVE  \E k \in DOMAIN g : g[k].at = <<f, i>>
  <2>1. CASE i \in 1..n
    <3>1. PICK k \in DOMAIN h : h[k].at = <<f, i>>
      BY <1>7, <2>1 DEF RowsHanded
    <3>2. k \in DOMAIN g /\ g[k] = h[k]
      BY <1>2
    <3> QED
      BY <3>1, <3>2
  <2>2. CASE i = n + 1
    BY <1>2, <2>2
  <2> QED
    BY <2>1, <2>2
<1>8. \A i \in Nat : <<f, i>> \in d => i <= n + 1
  BY DEF RowsHanded
<1> QED
  BY <1>1, <1>6, <1>7, <1>8 DEF RowsHanded

(* A row that meets a full queue is among those dropped.                   *)
LEMMA RowDropped ==
  ASSUME NEW s, NEW n \in Nat, NEW f, NEW h \in Seq(Row), NEW d, RowsHanded(s, f, n, h, d)
  PROVE  RowsHanded(s, f, n + 1, h, d \cup {<<f, n + 1>>})
<1>1. \A i \in 1..(n + 1) : i \in 1..n \/ i = n + 1
  OBVIOUS
<1>2. ASSUME NEW k \in DOMAIN h PROVE RowOf(h[k], s, f, n + 1, d \cup {<<f, n + 1>>})
  <2>1. RowOf(h[k], s, f, n, d)
    BY DEF RowsHanded
  <2>2. h[k].at[2] \in 1..n /\ h[k].at # <<f, n + 1>>
    BY <2>1 DEF RowOf
  <2> QED
    BY <2>1, <2>2 DEF RowOf
<1>3. \A i \in 1..(n + 1) : s[i].type = "rows" /\ <<f, i>> \notin d \cup {<<f, n + 1>>} =>
        \E k \in DOMAIN h : h[k].at = <<f, i>>
  BY <1>1 DEF RowsHanded
<1>4. \A i \in Nat : <<f, i>> \in d \cup {<<f, n + 1>>} => i <= n + 1
  BY DEF RowsHanded
<1> QED
  BY <1>2, <1>3, <1>4 DEF RowsHanded

AtPosition(p, n) == p = 2 * n + 1 \/ (p = 0 /\ n = 0)

(* As long as the position is an event boundary of the first file, it says *)
(* what the parser has read and handed on.                                 *)
TrackAt(n) ==
  /\ fault # "null"
  /\ n \in 0..Len(log[name])
  /\ AtPosition(Position, n)
  /\ TablesRead(log[name], n, query, map, tablemaps)
  /\ RowsHanded(log[name], name, n, HandedOn, dropped)

TrackInv == ~astray => \E n \in Nat : TrackAt(n)

(* At an aligned position with n events behind, the next is event n + 1.   *)
LEMMA NextEvent ==
  ASSUME TypeInv, Parsing, AtEvent, NEW n \in Nat, AtPosition(Position, n)
  PROVE  off = 2 * n + 1 /\ Index(off) = n + 1 /\ n + 1 \in DOMAIN log[name]
<1>1. Position = off /\ off >= 1 /\ off \in Nat
  BY DEF Position, TypeInv, PosInv, ParserOK, Base
<1>2. /\ Index(off) \in DOMAIN log[name] /\ Index(off) \in Nat \ {0} /\ off = 2 * Index(off) - 1
  BY EventHere
<1> QED
  BY <1>1, <1>2 DEF AtPosition

(* The loop goes on behind that event; or the file had nothing but its     *)
(* header when it was opened, and its first event is read again.           *)
LEMMA GoesOn ==
  ASSUME TypeInv, Parsing, AtEvent, NEW n \in Nat, AtPosition(Position, n),
         Goes(off + 2), UNCHANGED size, ~astray'
  PROVE  Position' = 2 * (n + 1) + 1 \/ (n = 0 /\ Position' = 1)
<1>1. off = 2 * n + 1
  BY NextEvent
<1>2. /\ size \in Nat \ {0} /\ (off < size \/ off = 1)
  BY DEF TypeInv, ParserOK, PosInv, Parsing, Base
<1>3. CASE Position' = off + 2
  BY <1>1, <1>3
<1>4. CASE Position' # off + 2
  <2>1. Ends /\ off + 2 >= size /\ Position' = size
    BY <1>4 DEF Goes, Ends, Position, Parsing
  <2>2. ~Inside(size)
    BY <2>1 DEF Ends
  <2>3. size = 2 * Index(size) - 1 /\ Index(size) \in Nat \ {0}
    BY <1>2, <2>2, Offsets
  <2> QED
    BY <1>1, <1>2, <2>1, <2>3
<1> QED
  BY <1>3, <1>4

(* Every step keeps the parser on track, as long as it is not astray.      *)
LEMMA NextTrackInv ==
  ASSUME TypeInv, TypeInv', Grown, Kinds, TrackInv
  PROVE  TrackInv'
<1> SUFFICES ASSUME ~astray' PROVE \E n \in Nat : TrackAt(n)'
  BY DEF TrackInv
<1>a. ~astray
  BY DEF Kinds, Quiet, Refresh, ParseBegin, Stays, Leaves, Skips, Passes, Hands, Drops, Goes, Ends
<1>b. PICK n \in Nat : TrackAt(n)
  BY <1>a DEF TrackInv
<1>s. PICK s : s = log[name] OBVIOUS
<1>f. PICK f : f = name OBVIOUS
<1>h. PICK h : h = HandedOn OBVIOUS
<1>d. PICK d : d = dropped OBVIOUS
<1>t. /\ s \in Seq(Event) /\ FileOK(s) /\ h \in Seq(Row) /\ n \in 0..Len(s) /\ Len(s) \in Nat
      /\ fault # "null" /\ AtPosition(Position, n)
      /\ TablesRead(s, n, query, map, tablemaps) /\ RowsHanded(s, f, n, h, d)
      /\ size \in Nat /\ off \in Nat /\ ptr \in Nat
  <2>1. s \in Seq(Event) /\ FileOK(s) /\ size \in Nat /\ off \in Nat /\ ptr \in Nat
    <3>1. /\ name \in DOMAIN log /\ log \in Seq(Seq(Event))
          /\ size \in Nat /\ off \in Nat /\ ptr \in Nat
      BY SMTT(60) DEF TypeInv, LogInv, ServerOK, ParserOK
    <3>2. FileOK(log[name])
      BY <3>1 DEF TypeInv, LogInv
    <3>3. log[name] \in Seq(Event)
      BY <3>1
    <3> QED
      BY <1>s, <3>1, <3>2, <3>3
  <2>2. h \in Seq(Row)
    BY <1>h DEF TypeInv, QueueOK, HandedOn
  <2>3. /\ fault # "null" /\ AtPosition(Position, n) /\ n \in 0..Len(s)
        /\ TablesRead(s, n, query, map, tablemaps) /\ RowsHanded(s, f, n, h, d)
    BY <1>b, <1>s, <1>f, <1>h, <1>d DEF TrackAt
  <2> QED
    BY <2>1, <2>2, <2>3
<1>p. \/ Position = 2 * n + 1
      \/ Position = 0 /\ n = 0
  BY <1>t DEF AtPosition
(* Whatever the server adds, what is read and handed on stays.             *)
<1>k. ASSUME UNCHANGED <<name, query, map, tablemaps, HandedOn, dropped>>, fault' # "null",
             AtPosition(Position', n)
      PROVE  \E k \in Nat : TrackAt(k)'
  <2>1. Extends(log'[name], log[name])
    BY <1>k, FollowedGrows DEF TypeInv
  <2>2. PICK t : t = log'[name'] OBVIOUS
  <2>3. t \in Seq(Event) /\ Extends(t, s)
    BY <1>k, <1>s, <2>1, <2>2, SMTT(60) DEF TypeInv, LogInv, ServerOK, ParserOK
  <2>4. PICK q : q = query OBVIOUS
  <2>5. PICK m : m = map OBVIOUS
  <2>6. PICK ts : ts = tablemaps OBVIOUS
  <2>7. TablesRead(t, n, q, m, ts) /\ RowsHanded(t, f, n, h, d) /\ n \in 0..Len(t)
    BY <1>t, <2>3, <2>4, <2>5, <2>6, ReadExtends
  <2>8. TrackAt(n)'
    BY <1>k, <1>f, <1>h, <1>d, <2>2, <2>4, <2>5, <2>6, <2>7 DEF TrackAt
  <2> QED
    BY <2>8
<1>1. CASE Quiet
  <2>1. Position' = Position
    BY <1>1 DEF Quiet, Position, Parsing
  <2> QED
    BY <1>1, <1>k, <1>t, <2>1 DEF Quiet, tables
<1>2. CASE Refresh /\ UNCHANGED HandedOn
  <2>1. Position' = Position /\ UNCHANGED <<query, map, tablemaps, dropped, fault>> /\ name' = name
    BY <1>2 DEF Refresh, Position, Parsing, rows
  <2> QED
    BY <1>2, <1>k, <1>t, <2>1
<1>3. CASE ParseBegin /\ UNCHANGED HandedOn
  <2>1. /\ UNCHANGED <<query, map, tablemaps, dropped, fault, name, ptr>>
        /\ Position = ptr
        /\ Position' = ptr \/ (ptr = 0 /\ Position' = 1)
    BY <1>3, <1>t DEF ParseBegin, Position, Parsing, rows, Base
  <2>2. AtPosition(Position', n)
    BY <1>p, <1>t, <2>1 DEF AtPosition
  <2> QED
    BY <1>3, <1>k, <1>t, <2>1, <2>2
(* The event behind the position is read.                                  *)
<1>e. ASSUME Parsing, AtEvent
      PROVE  /\ off = 2 * n + 1 /\ Index(off) = n + 1 /\ n + 1 \in DOMAIN s
             /\ Here = s[n + 1] /\ n + 1 \in 0..Len(s)
  <2>1. off = 2 * n + 1 /\ Index(off) = n + 1 /\ n + 1 \in DOMAIN log[name]
    BY <1>e, <1>t, NextEvent
  <2> QED
    BY <1>s, <1>t, <2>1 DEF Here
<1>r. ASSUME Parsing, AtEvent, Here.type = "rows"
      PROVE  /\ n > 0 /\ query = s[n + 1].stmt /\ query > 0 /\ map \in Tables
             /\ s[n + 1].table \in tablemaps
             /\ \E i \in 1..(n + 1) : IsMap(s[i], s[n + 1].stmt, map)
  <2>1. n + 1 \in DOMAIN s /\ s[n + 1].type = "rows"
    BY <1>e, <1>r
  <2> QED
    BY <1>t, <2>1, RowsKnown
<1>4. CASE Stays
  <2>1. query > 0 /\ map \in Tables /\ query \in Nat
    BY <1>4, <1>r DEF Stays, Parsing, TypeInv, ParserOK
  <2>2. query # 0 /\ map # None
    BY <2>1, BinlogAssumption
  <2>3. Position' = Position /\ fault' = fault
    BY <1>4, <2>2 DEF Stays, Position, Parsing
  <2> QED
    BY <1>4, <1>k, <1>t, <2>3 DEF Stays, tables
<1>5. CASE Leaves
  <2>1. /\ Parsing /\ ~AtEvent /\ Ends /\ UNCHANGED <<name, size, off, query, map, tablemaps, HandedOn, dropped, fault>>
    BY <1>5 DEF Leaves, Parsing, tables
  <2>2. off = 2 * n + 1 /\ (off < size \/ off = 1) /\ size \in Nat \ {0} /\ size <= Length(name)
    BY <1>p, <1>t, <2>1 DEF Position, TypeInv, PosInv, Parsing, Base
  <2>3. ~Inside(off)
    BY <1>t, <2>2, Offsets
  <2>4. Length(name) \in Nat /\ ~(off + 2 <= Length(name))
    BY <2>1, <2>3, Lengths, SMTT(60) DEF AtEvent, TypeInv, ParserOK, LogInv, ServerOK
  <2>5. size = 2 * Index(size) - 1 /\ Index(size) \in Nat \ {0}
    BY <2>1, <2>2, Offsets DEF Ends
  <2>6. size = 1 /\ n = 0
    BY <2>2, <2>4, <2>5
  <2>7. Position' = 1
    BY <2>1, <2>6 DEF Ends, Position, Parsing
  <2>8. AtPosition(Position', n)
    BY <2>6, <2>7 DEF AtPosition
  <2> QED
    BY <1>k, <1>t, <2>1, <2>8
<1>6. CASE Skips
  <2>1. off = 2 * n + 1 /\ off >= 1
    BY <1>6, <1>p, <1>t DEF Skips, Position, TypeInv, PosInv, Parsing, Base
  <2> QED
    BY <1>6, <1>t, <2>1, Offsets DEF Skips
<1>z. ASSUME Parsing, AtEvent, Goes(off + 2), UNCHANGED <<log, name, size>>, fault' # "null",
             TablesRead(s, n + 1, query', map', tablemaps'),
             RowsHanded(s, f, n + 1, HandedOn', dropped'),
             n = 0 => UNCHANGED <<HandedOn, dropped>>
      PROVE  \E k \in Nat : TrackAt(k)'
  <2>1. Position' = 2 * (n + 1) + 1 \/ (n = 0 /\ Position' = 1)
    BY <1>t, <1>z, GoesOn
  <2>2. log'[name'] = s /\ name' = f
    BY <1>s, <1>f, <1>z
  <2>3. CASE Position' = 2 * (n + 1) + 1
    <3>1. AtPosition(Position', n + 1) /\ n + 1 \in 0..Len(s)
      BY <1>e, <1>z, <2>3 DEF AtPosition
    <3>2. TrackAt(n + 1)'
      BY <1>z, <2>2, <3>1 DEF TrackAt
    <3> QED
      BY <3>2
  <2>4. CASE n = 0 /\ Position' = 1
    <3>1. AtPosition(Position', 0) /\ 0 \in 0..Len(s)
      BY <1>t, <2>4 DEF AtPosition
    <3>2. TablesRead(s, 0, query', map', tablemaps')
      BY DEF TablesRead
    <3>3. RowsHanded(s, f, 0, HandedOn', dropped')
      BY <1>t, <1>h, <1>d, <1>z, <2>4
    <3>4. TrackAt(0)'
      BY <1>z, <2>2, <3>1, <3>2, <3>3 DEF TrackAt
    <3> QED
      BY <3>4
  <2> QED
    BY <2>1, <2>3, <2>4
<1>7. CASE Passes
  <2>1. /\ Parsing /\ AtEvent /\ Goes(off + 2)
        /\ UNCHANGED <<log, name, size, HandedOn, dropped, fault>>
    BY <1>7 DEF Passes, Parsing
  <2>2. n + 1 \in DOMAIN s /\ Here = s[n + 1]
    BY <1>e, <2>1
  <2>3. /\ s[n + 1].type = "query" => TablesRead(s, n + 1, s[n + 1].stmt, map, tablemaps)
        /\ s[n + 1].type = "map" /\ n > 0 =>
             TablesRead(s, n + 1, query, s[n + 1].table, tablemaps \cup {s[n + 1].table})
        /\ s[n + 1].type \in {"stop", "rows"} /\ n > 0 => TablesRead(s, n + 1, query, map, tablemaps)
        /\ n = 0 => s[n + 1].type = "query"
    BY <1>t, <2>2, EventRead
  <2>4. TablesRead(s, n + 1, query', map', tablemaps') /\ s[n + 1].type # "rows"
    <3>1. n = 0 \/ n > 0
      OBVIOUS
    <3> QED
      BY <1>7, <2>2, <2>3, <3>1 DEF Passes, tables
  <2>5. RowsHanded(s, f, n + 1, h, d)
    BY <1>t, <2>4, NoRowsRead
  <2> QED
    BY <1>t, <1>h, <1>d, <1>z, <2>1, <2>4, <2>5
<1>8. CASE Hands
  <2>1. /\ Parsing /\ AtEvent /\ Goes(off + 2) /\ Here.type = "rows" /\ rpc = "parse"
        /\ ~(query = 0 \/ map = None)
        /\ UNCHANGED <<log, name, size, query, map, tablemaps, dropped, fault>>
        /\ HandedOn' = Append(HandedOn, RowHere)
    BY <1>8 DEF Hands, Parsing, tables
  <2>2. n + 1 \in DOMAIN s /\ Here = s[n + 1] /\ Index(off) = n + 1 /\ s[n + 1].type = "rows"
    BY <1>e, <2>1
  <2>3. /\ n > 0 /\ query = s[n + 1].stmt /\ s[n + 1].table \in tablemaps
        /\ \E i \in 1..(n + 1) : IsMap(s[i], s[n + 1].stmt, map)
    BY <1>r, <2>1
  <2>4. TablesRead(s, n + 1, query, map, tablemaps)
    BY <1>t, <2>2, <2>3, EventRead
  <2>5. PICK r \in Row : r = RowHere
    BY <2>1, RowTyped
  <2>6. r.at = <<f, n + 1>> /\ r.values /\ r.query = s[n + 1].stmt /\ r.label = map
    BY <1>f, <2>2, <2>3, <2>5 DEF RowHere
  <2>7. RowsHanded(s, f, n + 1, Append(h, r), d)
    BY <1>t, <2>2, <2>3, <2>6, RowRead
  <2> QED
    BY <1>t, <1>h, <1>d, <1>z, <2>1, <2>3, <2>4, <2>5, <2>7
<1>9. CASE Drops
  <2>1. /\ Parsing /\ AtEvent /\ Goes(off + 2) /\ Here.type = "rows"
        /\ UNCHANGED <<log, name, size, query, map, tablemaps, HandedOn, fault>>
        /\ dropped' = dropped \cup {<<name, Index(off)>>}
    BY <1>9 DEF Drops, Parsing, tables, TypeInv, PosInv
  <2>2. n + 1 \in DOMAIN s /\ Here = s[n + 1] /\ Index(off) = n + 1 /\ s[n + 1].type = "rows"
    BY <1>e, <2>1
  <2>3. n > 0
    BY <1>r, <2>1
  <2>4. TablesRead(s, n + 1, query, map, tablemaps)
    BY <1>t, <2>2, <2>3, EventRead
  <2>5. RowsHanded(s, f, n + 1, h, d \cup {<<f, n + 1>>})
    BY <1>t, RowDropped
  <2> QED
    BY <1>t, <1>f, <1>h, <1>d, <1>z, <2>1, <2>2, <2>3, <2>4, <2>5
<1> QED
  BY <1>1, <1>2, <1>3, <1>4, <1>5, <1>6, <1>7, <1>8, <1>9 DEF Kinds

(* All three invariants together.                                          *)
LEMMA TrackHolds == Spec => [](TypeInv /\ BackInv /\ TrackInv)
<1>1. Init => BackInv
  BY DEF Init, BackInv, HandedOn, Increasing, Bounded
<1>2. Init => TrackInv
  <2> SUFFICES ASSUME Init PROVE TrackAt(0)
    BY DEF TrackInv
  <2>1. /\ log[name] = <<>> /\ Position = 0 /\ HandedOn = <<>> /\ fault # "null" /\ dropped = {}
    BY DEF Init, Position, Parsing, HandedOn
  <2> QED
    BY <2>1 DEF TrackAt, AtPosition, TablesRead, RowsHanded
<1>3. TypeInv /\ BackInv /\ TrackInv /\ [Next]_vars => (TypeInv /\ BackInv /\ TrackInv)'
  BY NextTypeInv, NextBackInv, NextTrackInv
<1> QED
  BY <1>1, <1>2, <1>3, InitTypeInv, PTL DEF Spec

(* The position tells how many events were read.                           *)
LEMMA EventsBehind ==
  ASSUME TypeInv, NEW n \in Nat, AtPosition(Position, n)
  PROVE  EventsRead = n
<1>1. CASE Position = 0 /\ n = 0
  BY <1>1 DEF EventsRead, Position, Base
<1>2. CASE Position = 2 * n + 1
  <2>1. EventsRead = IF Position <= 1 THEN 0 ELSE (Position - 1) \div 2
    BY DEF EventsRead, Position, Base
  <2>2. n > 0 => (2 * n + 1 - 1) \div 2 = n
    OBVIOUS
  <2> QED
    BY <1>2, <2>1, <2>2
<1> QED
  BY <1>1, <1>2 DEF AtPosition

(* Over one file whose passes all end at event boundaries, the rows handed *)
(* on are exactly the rows events up to the position kept, in their order, *)
(* except those that met a full queue; each is decoded with its table's    *)
(* map, carries its own statement's query, and no NULL pointer is read     *)
(* (ParseLogEntry.cpp:74, 247).                                            *)
THEOREM OnTrackHolds == Spec => []OnTrack
<1>1. TypeInv /\ BackInv /\ TrackInv => OnTrack
  <2> SUFFICES ASSUME TypeInv, BackInv, TrackInv, ~astray
               PROVE  /\ fault # "null"
                      /\ {HandedOn[k].at : k \in DOMAIN HandedOn} = {<<name, i>> : i \in RowsRead}
                      /\ \A j, k \in DOMAIN HandedOn : j < k => HandedOn[j].at[2] < HandedOn[k].at[2]
                      /\ \A k \in DOMAIN HandedOn :
                           HandedOn[k].values /\ HandedOn[k].query = log[name][HandedOn[k].at[2]].stmt
    BY DEF OnTrack
  <2>1. PICK n \in Nat : TrackAt(n)
    BY DEF TrackInv
  <2>2. EventsRead = n
    BY <2>1, EventsBehind DEF TrackAt
  <2>3. /\ \A k \in DOMAIN HandedOn : RowOf(HandedOn[k], log[name], name, n, dropped)
        /\ \A i \in 1..n : log[name][i].type = "rows" /\ <<name, i>> \notin dropped =>
             \E k \in DOMAIN HandedOn : HandedOn[k].at = <<name, i>>
    BY <2>1 DEF TrackAt, RowsHanded
  <2>4. HandedOn \in Seq(Row)
    BY DEF TypeInv, QueueOK, HandedOn
  <2>5. ASSUME NEW k \in DOMAIN HandedOn
        PROVE  HandedOn[k].at[2] \in RowsRead /\ HandedOn[k].at = <<name, HandedOn[k].at[2]>>
    <3>1. HandedOn[k] \in Row /\ RowOf(HandedOn[k], log[name], name, n, dropped)
      BY <2>3, <2>4
    <3>2. HandedOn[k].at = <<HandedOn[k].at[1], HandedOn[k].at[2]>>
      BY <3>1, RowsPair
    <3> QED
      BY <2>2, <3>1, <3>2 DEF RowOf, RowsRead
  <2>6. \A i \in RowsRead : \E k \in DOMAIN HandedOn : HandedOn[k].at = <<name, i>>
    BY <2>2, <2>3 DEF RowsRead
  <2>7. {HandedOn[k].at : k \in DOMAIN HandedOn} = {<<name, i>> : i \in RowsRead}
    <3>1. ASSUME NEW x \in {HandedOn[k].at : k \in DOMAIN HandedOn}
          PROVE  x \in {<<name, i>> : i \in RowsRead}
      <4>1. PICK k \in DOMAIN HandedOn : x = HandedOn[k].at
        BY Zenon
      <4>2. x = <<name, HandedOn[k].at[2]>> /\ HandedOn[k].at[2] \in RowsRead
        BY <2>5, <4>1
      <4> QED
        BY <4>2, Zenon
    <3>2. ASSUME NEW x \in {<<name, i>> : i \in RowsRead}
          PROVE  x \in {HandedOn[k].at : k \in DOMAIN HandedOn}
      <4>1. PICK i \in RowsRead : x = <<name, i>>
        BY Zenon
      <4>2. PICK k \in DOMAIN HandedOn : HandedOn[k].at = x
        BY <2>6, <4>1
      <4> QED
        BY <4>2, Zenon
    <3> QED
      BY <3>1, <3>2, Zenon
  <2>8. ASSUME NEW j \in DOMAIN HandedOn, NEW k \in DOMAIN HandedOn, j < k
        PROVE  HandedOn[j].at[2] < HandedOn[k].at[2]
    <3>1. Earlier(HandedOn[j].at, HandedOn[k].at)
      BY <2>8 DEF BackInv, Increasing
    <3>2. HandedOn[j].at[1] = name /\ HandedOn[k].at[1] = name
      BY <2>3 DEF RowOf
    <3>3. name \in Nat
      BY DEF TypeInv, ParserOK
    <3> QED
      BY <3>1, <3>2, <3>3 DEF Earlier
  <2>9. \A k \in DOMAIN HandedOn :
          HandedOn[k].values /\ HandedOn[k].query = log[name][HandedOn[k].at[2]].stmt
    BY <2>3 DEF RowOf
  <2> QED
    BY <2>1, <2>7, <2>8, <2>9 DEF TrackAt
<1> QED
  BY <1>1, TrackHolds, PTL

(* The table that labels a row (ParseLogEntry.cpp:248) is one that the     *)
(* row's own statement has mapped.                                         *)
THEOREM LabelMappedHolds == Spec => []LabelMapped
<1>1. TypeInv /\ TrackInv => LabelMapped
  <2> SUFFICES ASSUME TypeInv, TrackInv, ~astray, NEW k \in DOMAIN HandedOn
               PROVE  \E i \in 1..HandedOn[k].at[2] :
                        log[name][i] = [type |-> "map", stmt |-> log[name][HandedOn[k].at[2]].stmt,
                                        table |-> HandedOn[k].label]
    BY DEF LabelMapped
  <2>1. PICK n \in Nat : TrackAt(n)
    BY DEF TrackInv
  <2>2. n \in 0..Len(log[name]) /\ RowOf(HandedOn[k], log[name], name, n, dropped)
    BY <2>1 DEF TrackAt, RowsHanded
  <2>3. PICK i \in 1..HandedOn[k].at[2] :
          IsMap(log[name][i], log[name][HandedOn[k].at[2]].stmt, HandedOn[k].label)
    BY <2>2 DEF RowOf
  <2>4. log[name] \in Seq(Event)
    BY DEF TypeInv, LogInv, ServerOK, ParserOK
  <2>5. i \in DOMAIN log[name]
    BY <2>2, <2>3, <2>4 DEF RowOf
  <2>6. PICK e \in Event : e = log[name][i]
    BY <2>4, <2>5
  <2>7. e = [type |-> e.type, stmt |-> e.stmt, table |-> e.table]
    BY DEF Event
  <2> QED
    BY <2>3, <2>6, <2>7 DEF IsMap
<1> QED
  BY <1>1, TrackHolds, PTL

-----------------------------------------------------------------------------
(* A consumer that was woken finds a row, unless one was dropped.          *)
WokenServed ==
  /\ dropped = {} => \A c \in Consumers : cpc[c] = "emptyWoken" => g_rowDatas # <<>>
  /\ dropped = {} => fault # "empty"

(* With one consumer, front() of an empty queue (CRowData.cpp:26) is only  *)
(* reached through the signal of a producer that has dropped its row.      *)
THEOREM FrontOfEmptyHolds ==
  ASSUME NEW theConsumer, Consumers = {theConsumer}
  PROVE  Spec => []FrontOfEmpty
<1>1. Init => WokenServed
  BY DEF Init, WokenServed
<1>2. TypeInv /\ WokenServed /\ [Next]_vars => WokenServed'
  <2> SUFFICES ASSUME TypeInv, WokenServed, [Next]_vars PROVE WokenServed'
    OBVIOUS
  <2>t. /\ cpc \in [Consumers -> {"run", "empty", "emptyWoken"}] /\ g_rowDatas \in Seq(Row)
    BY DEF TypeInv, QueueOK
  <2>1. CASE UNCHANGED rows /\ fault' \in {fault, "null"}
    BY <2>1 DEF rows, WokenServed
  <2>2. ASSUME NEW r, g_rowDatas' = Append(g_rowDatas, r), UNCHANGED <<fault, dropped>>
        PROVE  WokenServed'
    BY <2>t, <2>2 DEF WokenServed
  <2>3. CASE ProductResume
    BY <2>3 DEF ProductResume, WokenServed
  <2>4. CASE ParseRows
    BY <2>1, <2>2, <2>4 DEF ParseRows, HandOn, rows
  <2>5. ASSUME NEW c \in Consumers, consumerRowData(c) PROVE WokenServed'
    <3>1. \A b \in Consumers : cpc'[b] # "emptyWoken"
      BY <2>t, <2>5 DEF consumerRowData, TakeFront
    <3> QED
      BY <2>5, <3>1 DEF consumerRowData, TakeFront, WokenServed
  <2>6. ASSUME NEW c \in Consumers, ConsumerResume(c) PROVE WokenServed'
    BY <2>t, <2>6 DEF ConsumerResume, TakeFront, WokenServed
  <2>7. CASE \/ \E whole \in BOOLEAN : Write(whole)
             \/ WriteRest \/ NewFile \/ Refresh \/ ParseBegin \/ BreakOff \/ ParseQuery
             \/ ParseTableMap \/ ParseStop \/ ParseInside \/ UNCHANGED vars
    <3>1. UNCHANGED <<rows, fault>>
      BY <2>7 DEF Write, WriteRest, NewFile, Refresh, ParseBegin, BreakOff, ParseQuery,
                  ParseTableMap, ParseStop, ParseInside, vars
    <3> QED
      BY <2>1, <3>1
  <2> QED
    BY <2>3, <2>4, <2>5, <2>6, <2>7 DEF Next, MonitorStep
<1>3. WokenServed => FrontOfEmpty
  BY DEF WokenServed, FrontOfEmpty
<1>4. TypeInv /\ [Next]_vars => TypeInv'
  BY NextTypeInv
<1> QED
  BY <1>1, <1>2, <1>3, <1>4, InitTypeInv, PTL DEF Spec
===============================================================================
