----------------------------- MODULE Algorithms -----------------------------
(***************************************************************************)
(* Pure functions of the program, each checked against what was written:   *)
(*   - the text form of the export times (increment_export.cpp);           *)
(*   - the packed lengths of a binlog event, its column metadata and its   *)
(*     row images (src/binlog: LogEvent.cpp, TableDef.cpp).                *)
(* A behaviour picks one input and stays there.                            *)
(***************************************************************************)
EXTENDS Integers, FiniteSets, SequencesExt

CONSTANTS
  Years, Months, Days, Hours, Minutes,  \* fields of the times (seconds are Minutes)
  Lengths,     \* lengths the server packs, of parts of an event of at most 1 GB
  NULL_LENGTH, \* ~0
  MetaBytes,   \* bytes of column metadata
  MaxColumns,  \* bound: columns of a table
  MaxRows,     \* bound: rows of an event
  ByteBits,    \* null bits per byte (8 in the code)
  NullValue

(* One more than two and three bytes hold.                                 *)
TwoBytes == 256 * 256
ThreeBytes == 256 * TwoBytes

ASSUME TimeAssumption ==
  /\ Years \subseteq 1000..9999
  /\ Months \subseteq 1..12 /\ Days \subseteq 1..31
  /\ Hours \subseteq 0..23 /\ Minutes \subseteq 0..59
ASSUME TableMapAssumption ==
  /\ Lengths \subseteq 0..(127 * ThreeBytes + (ThreeBytes - 1))
  /\ MetaBytes \subseteq 0..255
ASSUME RowsAssumption ==
  /\ MaxColumns \in Nat \ {0} /\ MaxRows \in Nat \ {0} /\ ByteBits \in Nat \ {0}
  /\ NullValue \notin Nat \X Nat

VARIABLE input

-----------------------------------------------------------------------------
(* Times.  A text is a sequence of characters.                             *)

Tm == [year : Years, mon : Months, day : Days, hour : Hours, min : Minutes, sec : Minutes]

Digit == <<"0", "1", "2", "3", "4", "5", "6", "7", "8", "9">>
Value(c) == CHOOSE d \in 0..9 : Digit[d + 1] = c
IsDigit(c) == c \in ToSet(Digit)

(* sprintf's %d, of the numbers below 10000 that a time has.               *)
Decimal(n) ==
  LET digit(k) == <<Digit[((n \div k) % 10) + 1]>>
      upper(k) == IF n < k THEN <<>> ELSE digit(k)
  IN  upper(1000) \o upper(100) \o upper(10) \o digit(1)

(* atoi: the longest run of digits behind the blanks.                      *)
AfterBlanks(s) ==
  LET start == SelectInSeq(s, LAMBDA c : c # " ")
  IN  IF start = 0 THEN <<>> ELSE SubSeq(s, start, Len(s))
LeadingDigits(s) ==
  LET stop == SelectInSeq(s, LAMBDA c : ~IsDigit(c))
  IN  IF stop = 0 THEN s ELSE SubSeq(s, 1, stop - 1)
Number(digits) ==
  LET value[k \in 0..Len(digits)] == IF k = 0 THEN 0 ELSE 10 * value[k - 1] + Value(digits[k])
  IN  value[Len(digits)]
atoi(s) == Number(LeadingDigits(AfterBlanks(s)))

(* No field is padded.                                                     *)
GetStrFromTime(t) ==
  Decimal(t.year) \o <<"-">> \o Decimal(t.mon) \o <<"-">> \o Decimal(t.day) \o <<" ">>
    \o Decimal(t.hour) \o <<":">> \o Decimal(t.min) \o <<":">> \o Decimal(t.sec)

(* The fields are read from fixed columns.  What is read behind a text     *)
(* that is too short counts as nothing here.                               *)
GetTimeStampByStr(s) ==
  LET field(a, b) == atoi(SubSeq(s, a, IF b < Len(s) THEN b ELSE Len(s)))
  IN  [year |-> field(1, 4), mon |-> field(6, 7), day |-> field(9, 10),
       hour |-> field(12, 13), min |-> field(15, 16), sec |-> field(18, 19)]

(* Mutant of Pad: one-digit fields stay as they are.                       *)
PadNothing(field) == field

Pad(field) == IF Len(field) # 2 THEN <<"0">> \o field ELSE field

(* Padded to nineteen characters, unless the text has as many already.     *)
GetWriteXmlTime(s) ==
  LET dash  == SelectLastInSeq(s, LAMBDA c : c = "-")
      blank == SelectInSeq(s, LAMBDA c : c = " ")
      colon == SelectInSeq(s, LAMBDA c : c = ":")
      colon2 == SelectLastInSeq(s, LAMBDA c : c = ":")
  IN  IF Len(s) = 19
      THEN s
      ELSE SubSeq(s, 1, 4) \o <<"-">> \o Pad(SubSeq(s, 6, dash - 1))
             \o <<"-">> \o Pad(SubSeq(s, dash + 1, blank - 1))
             \o <<" ">> \o Pad(SubSeq(s, blank + 1, colon - 1))
             \o <<":">> \o Pad(SubSeq(s, colon + 1, colon2 - 1))
             \o <<":">> \o Pad(SubSeq(s, colon2 + 1, Len(s)))

(* The times that readData saves (increment_export.cpp:296) are read back  *)
(* by GetTimeStampByStr (236, 293) as the times they were: every field     *)
(* lands in its columns, also where the text is nineteen characters long   *)
(* before padding.                                                         *)
TimeReadBack ==
  input.alg = "time" => GetTimeStampByStr(GetWriteXmlTime(GetStrFromTime(input.tm))) = input.tm

-----------------------------------------------------------------------------
(* Packed lengths.                                                         *)

(* The server's packing: one byte, or a mark and two, three or eight.      *)
LittleEndian(n) == <<n % 256, (n \div 256) % 256, (n \div TwoBytes) % 256, n \div ThreeBytes>>
Packed(n) ==
  CASE n < 251 -> <<n>>
    [] n >= 251 /\ n < TwoBytes -> <<252>> \o SubSeq(LittleEndian(n), 1, 2)
    [] n >= TwoBytes /\ n < ThreeBytes -> <<253>> \o SubSeq(LittleEndian(n), 1, 3)
    [] n >= ThreeBytes -> <<254>> \o LittleEndian(n) \o <<0, 0, 0, 0>>

(* Mutant of get_field_length: the mark is not counted for three bytes.    *)
get_field_length_short(packet, pos) ==
  LET b(k) == packet[pos + k]
      two   == b(1) + 256 * b(2)
      three == two + TwoBytes * b(3)
  IN  CASE b(0) < 251 -> [value |-> b(0), pos |-> pos + 1]
        [] b(0) = 251 -> [value |-> NULL_LENGTH, pos |-> pos + 1]
        [] b(0) = 252 -> [value |-> two, pos |-> pos + 3]
        [] b(0) = 253 -> [value |-> three, pos |-> pos + 3]
        [] OTHER -> [value |-> three + ThreeBytes * b(4), pos |-> pos + 9]

(* The value at pos and the position behind it.  Of the eight bytes only   *)
(* four are read, and nine are passed.                                     *)
get_field_length(packet, pos) ==
  LET b(k) == packet[pos + k]
      two   == b(1) + 256 * b(2)
      three == two + TwoBytes * b(3)
  IN  CASE b(0) < 251 -> [value |-> b(0), pos |-> pos + 1]
        [] b(0) = 251 -> [value |-> NULL_LENGTH, pos |-> pos + 1]
        [] b(0) = 252 -> [value |-> two, pos |-> pos + 3]
        [] b(0) = 253 -> [value |-> three, pos |-> pos + 4]
        [] OTHER -> [value |-> three + ThreeBytes * b(4), pos |-> pos + 9]

(* Two packed lengths behind one another are both read as they were        *)
(* written, and the position ends behind the second.                       *)
LengthsReadBack ==
  input.alg = "lengths" =>
    LET packet == Packed(input.first) \o Packed(input.second)
        first == get_field_length(packet, 1)
        second == get_field_length(packet, first.pos)
    IN  /\ first.value = input.first
        /\ second.value = input.second
        /\ second.pos = Len(packet) + 1
-----------------------------------------------------------------------------
(* Column metadata.  A type stands for the types with the same treatment:  *)
(* "LONG" for those without metadata, "BLOB" for the blobs, the floats,    *)
(* geometry, JSON and the times, which have one byte, "STRING" for SET,    *)
(* ENUM and NEWDECIMAL.                                                    *)

Types == {"LONG", "BLOB", "STRING", "BIT", "VARCHAR"}
Column == [type : Types, low : MetaBytes, high : MetaBytes]

(* What the server writes for a column, and the number it means.           *)
MetadataBytes(c) ==
  CASE c.type = "LONG" -> <<>>
    [] c.type = "BLOB" -> <<c.low>>
    [] c.type = "STRING" -> <<c.high, c.low>>
    [] c.type \in {"BIT", "VARCHAR"} -> <<c.low, c.high>>
Metadata(c) ==
  CASE c.type = "LONG" -> 0
    [] c.type = "BLOB" -> c.low
    [] OTHER -> 256 * c.high + c.low

(* One turn of the constructor's loop.                                     *)
AddMetadata(bytes, def, type) ==
  LET b(k) == bytes[def.index + k]
      add(x, used) == [index |-> def.index + used, field_metadata |-> Append(def.field_metadata, x)]
  IN  CASE type = "BLOB" -> add(b(0), 1)
        [] type = "STRING" -> add(256 * b(0) + b(1), 2)
        [] type = "BIT" -> add(b(0) + 256 * b(1), 2)
        [] type = "VARCHAR" -> add(b(0) + 256 * b(1), 2)
        [] OTHER -> add(0, 0)

CTableDef(types, bytes) ==
  LET def[i \in 0..Len(types)] ==
        IF i = 0 THEN [index |-> 1, field_metadata |-> <<>>]
        ELSE AddMetadata(bytes, def[i - 1], types[i])
  IN  IF bytes = <<>> THEN <<>> ELSE def[Len(types)].field_metadata

field_metadata(def, i) == IF def = <<>> THEN 0 ELSE def[i]

(* Every column finds its own metadata (TableDef.h:52), whatever types     *)
(* stand before it, and also when no column has any.                       *)
MetadataOwn ==
  input.alg = "metadata" =>
    LET types == [i \in DOMAIN input.columns |-> input.columns[i].type]
        bytes == FlattenSeq([i \in DOMAIN input.columns |-> MetadataBytes(input.columns[i])])
        def == CTableDef(types, bytes)
    IN  \A i \in DOMAIN types : field_metadata(def, i) = Metadata(input.columns[i])

(* A table map is read back as the server wrote it: the column count and   *)
(* the size of the metadata behind it, over all the widths of a packed     *)
(* length (LogEvent.cpp:324, 332), and for each column its own metadata.   *)
TableMapReadBack == LengthsReadBack /\ MetadataOwn

-----------------------------------------------------------------------------
(* Row images.  An image is the sequence of the values of the columns that *)
(* the event's bitmap names; a value is one unit long.                     *)

(* A unit of the event: null bits, a value, or the checksum.               *)
Unit(nulls, v) == [nulls |-> nulls, value |-> v]

(* The server writes the null bits, ByteBits to a byte, then the values    *)
(* that are not null; the event ends with a checksum.                      *)
BitmapLen(n) == (n + ByteBits - 1) \div ByteBits
ImageUnits(image) ==
  [k \in 1..BitmapLen(Len(image)) |->
     Unit({j \in 0..(ByteBits - 1) : (k - 1) * ByteBits + j < Len(image) /\ image[(k - 1) * ByteBits + j + 1] = NullValue},
          "bitmap")]
  \o FlattenSeq([k \in DOMAIN image |->
                   IF image[k] = NullValue THEN <<>> ELSE <<Unit({}, image[k])>>])
RowsData(images) == FlattenSeq([r \in DOMAIN images |-> ImageUnits(images[r])]) \o <<Unit({}, "crc32")>>

parseOneRowData(units, row, isNull) ==
  [row EXCEPT !.values = Append(@, IF isNull THEN NullValue ELSE units[row.pos].value),
              !.pos = IF isNull THEN @ ELSE @ + 1]

(* bitmap_bits_set.                                                        *)
Width(cols) == Cardinality({i \in DOMAIN cols : cols[i]})

(* Mutant of printOneRow: a column that is not in the image has a null bit *)
(* all the same.                                                           *)
printOneRowAllBits(units, start, values, cols) ==
  LET isNull(bit) == bit % ByteBits \in units[start + (bit \div ByteBits)].nulls
      row[i \in 0..Len(cols)] ==
        IF i = 0 THEN [pos |-> start + BitmapLen(Width(cols)), bit |-> 0, values |-> values]
        ELSE LET last == row[i - 1]
             IN  [(IF cols[i] THEN parseOneRowData(units, last, isNull(last.bit)) ELSE last)
                    EXCEPT !.bit = @ + 1]
  IN  row[Len(cols)]

(* printOneRow: values are appended to those already there.                *)
printOneRow(units, start, values, cols) ==
  LET isNull(bit) == bit % ByteBits \in units[start + (bit \div ByteBits)].nulls
      row[i \in 0..Len(cols)] ==
        IF i = 0 THEN [pos |-> start + BitmapLen(Width(cols)), bit |-> 0, values |-> values]
        ELSE LET last == row[i - 1]
             IN  IF cols[i]
                 THEN [parseOneRowData(units, last, isNull(last.bit)) EXCEPT !.bit = @ + 1]
                 ELSE last
  IN  row[Len(cols)]

(* A turn of parseEvent's loop.  An update reads its second image into the *)
(* vector that still holds the first, and by the same bitmap.              *)
ParseRow(units, update, cols, rows) ==
  LET before == printOneRow(units, rows.pos, <<>>, cols)
      after  == IF update THEN printOneRow(units, before.pos, before.values, cols) ELSE before
  IN  [before |-> Append(rows.before, before.values),
       after  |-> IF update THEN Append(rows.after, after.values) ELSE rows.after,
       pos    |-> after.pos]

(* The loop, until all but the checksum is read: every turn reads at least *)
(* one unit, so that there are no more turns than units.                   *)
parseEvent(units, update, cols) ==
  LET rows[i \in 0..Len(units)] ==
        IF i = 0 THEN [before |-> <<>>, after |-> <<>>, pos |-> 1]
        ELSE LET last == rows[i - 1]
             IN  IF last.pos >= Len(units) THEN last ELSE ParseRow(units, update, cols, last)
  IN  rows[Len(units)]

(* The images of an input: its values are told apart by image and column.  *)
Written(nulls) ==
  [r \in DOMAIN nulls |-> [k \in DOMAIN nulls[r] |-> IF nulls[r][k] THEN NullValue ELSE <<r, k>>]]

(* The rows of an event are decoded as they were written, nulls and the    *)
(* columns that are not in the image included, as long as both images of   *)
(* an update have the same columns (LogEvent.cpp:808 makes one bitmap of   *)
(* the two); an after row ends with the values of the after image, behind  *)
(* those of the before image (851).                                        *)
RowsDecoded ==
  input.alg = "rows" =>
    LET images == Written(input.nulls)
        n == Len(images)
        width == Width(input.cols)
        rows == parseEvent(RowsData(images), input.update, input.cols)
    IN  IF input.update
        THEN /\ rows.before = [r \in 1..(n \div 2) |-> images[2 * r - 1]]
             /\ [r \in DOMAIN rows.after |-> SubSeq(rows.after[r], width + 1, 2 * width)]
                  = [r \in 1..(n \div 2) |-> images[2 * r]]
        ELSE rows.before = images /\ rows.after = <<>>

-----------------------------------------------------------------------------
Columns == UNION {[1..n -> Column] : n \in 1..MaxColumns}
Bitmaps == {cols \in UNION {[1..n -> BOOLEAN] : n \in 1..MaxColumns} : Width(cols) > 0}

(* Null flags of n images of the columns in cols.                          *)
Nulls(cols, n) == [1..n -> [1..Width(cols) -> BOOLEAN]]

Init ==
  \/ input \in [alg : {"time"}, tm : Tm]
  \/ input \in [alg : {"lengths"}, first : Lengths, second : Lengths]
  \/ input \in [alg : {"metadata"}, columns : Columns]
  \/ \E cols \in Bitmaps, n \in 1..MaxRows, update \in BOOLEAN :
       \E nulls \in Nulls(cols, IF update THEN 2 * n ELSE n) :
         input = [alg |-> "rows", update |-> update, cols |-> cols, nulls |-> nulls]

Next == UNCHANGED input

Spec == Init /\ [][Next]_input
=============================================================================
