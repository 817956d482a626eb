------------------------- MODULE ArrowColumnReaders -------------------------
(***************************************************************************)
(* The leaf readers of OptimizedArrowColumnToCHColumn.cpp that walk the    *)
(* chunks of one Arrow column: the LIST case (getNestedArrowColumn and     *)
(* readOffsetsFromArrowListColumn, wrapped by ColumnArray::create), the    *)
(* STRING/BINARY reader and the bulk numeric copy.  Each reader is an      *)
(* operator over the chunks, translated loop by loop; one action is one    *)
(* call of readColumnFromArrowColumn on a column of that type.  Each       *)
(* result is checked against what the Arrow column holds.                  *)
(***************************************************************************)
EXTENDS Integers, Sequences, SequencesExt

CONSTANTS
  Values,     \* element values of lists and characters of strings
  Nul,        \* the terminating zero byte ColumnString appends
  Columns,    \* the Arrow columns a reader may be given
  Null,       \* a null decimal value
  DateLutMaxExtendDayNum, \* DATE_LUT_MAX_EXTEND_DAY_NUM
  MillisPerSecond,        \* the 1000 of readColumnWithDate64Data, scaled
  UInt32                  \* 2^32, scaled: UInt32 values are 0..UInt32 - 1

VARIABLES
  column,     \* the Arrow column being read
  result      \* what the reader returned; status "none" before the call

vars == <<column, result>>

-----------------------------------------------------------------------------
(* LIST: a chunk is the list's offsets (length + 1 of them, as             *)
(* ListArray::offsets() returns them) and its child array values().        *)

\* PaddedPODArray::back() of an empty array reads the zero padding in front
\* of its first element.
Back(s) == IF s = <<>> THEN 0 ELSE Last(s)

\* Variant that forgets the running start: each chunk's offsets are
\* appended as they are.
ReadOffsetsNoRunningStart(chunks) ==
  FoldLeft(LAMBDA offsets_data, c :
             offsets_data \o [i \in 1..Len(c.offsets) - 1 |-> c.offsets[i + 1]],
           <<>>, chunks)

\* readOffsetsFromArrowListColumn: per chunk, start is the last offset so
\* far, and start + offset[i] is appended for i >= 1.
ReadOffsetsFromArrowListColumn(chunks) ==
  FoldLeft(LAMBDA offsets_data, c :
             offsets_data \o [i \in 1..Len(c.offsets) - 1 |->
                                Back(offsets_data) + c.offsets[i + 1]],
           <<>>, chunks)

\* getNestedArrowColumn: the values() of every chunk, concatenated.
GetNestedArrowColumn(chunks) == FlattenSeq([i \in DOMAIN chunks |-> chunks[i].values])

\* The rows of a ColumnArray: row j spans (offsets[j-1], offsets[j]].
ArrayRows(data, offsets) ==
  [j \in DOMAIN offsets |-> SubSeq(data, Back(SubSeq(offsets, 1, j - 1)) + 1, offsets[j])]

\* ColumnArray::create refuses offsets whose last one is not the size of
\* the nested column.
ArrayConsistent(data, offsets) == offsets # <<>> => Last(offsets) = Len(data)

\* The lists the Arrow column holds: row k of a chunk spans
\* (offsets[k], offsets[k+1]] of that chunk's child array.
ArrowLists(chunks) ==
  FlattenSeq([i \in DOMAIN chunks |->
               [k \in 1..Len(chunks[i].offsets) - 1 |->
                  SubSeq(chunks[i].values, chunks[i].offsets[k] + 1,
                         chunks[i].offsets[k + 1])]])

-----------------------------------------------------------------------------
(* STRING/BINARY: a chunk is its value offsets (length + 1), validity      *)
(* bits, the value_data buffer, and whether that buffer exists (Arrow may  *)
(* leave it null when every string is empty).                              *)

\* Variant of the reservation without the null bytes.
StringReserveNoNulls(chunks) ==
  FoldLeft(LAMBDA size, c : IF Len(c.valid) > 0 THEN size + Last(c.offsets) ELSE size,
           0, chunks)

\* chars_t_size: value_offset(n-1) + value_length(n-1) (the end of the
\* last value) plus one null byte per row, over chunks with rows.
StringReserve(chunks) ==
  FoldLeft(LAMBDA size, c :
             IF Len(c.valid) > 0 THEN size + Last(c.offsets) + Len(c.valid) ELSE size,
           0, chunks)

\* Variant recording each row's offset before its null byte.
ReadStringCharsOffsetFirst(chunks) ==
  FoldLeft(LAMBDA acc, c :
             FoldLeft(LAMBDA a, k :
                        LET chars == a.chars
                                     \o (IF c.valid[k] /\ c.buffer
                                         THEN SubSeq(c.data, c.offsets[k] + 1, c.offsets[k + 1])
                                         ELSE <<>>)
                        IN [chars |-> Append(chars, Nul), offsets |-> Append(a.offsets, Len(chars))],
                      acc, [k \in 1..Len(c.valid) |-> k]),
           [chars |-> <<>>, offsets |-> <<>>], chunks)

\* The second loop: per row, the value's bytes when it is not null and the
\* buffer exists, then a null byte, then the offset of the end.
ReadStringChars(chunks) ==
  FoldLeft(LAMBDA acc, c :
             FoldLeft(LAMBDA a, k :
                        LET chars == a.chars
                                     \o (IF c.valid[k] /\ c.buffer
                                         THEN SubSeq(c.data, c.offsets[k] + 1, c.offsets[k + 1])
                                         ELSE <<>>)
                                     \o <<Nul>>
                        IN [chars |-> chars, offsets |-> Append(a.offsets, Len(chars))],
                      acc, [k \in 1..Len(c.valid) |-> k]),
           [chars |-> <<>>, offsets |-> <<>>], chunks)

\* The strings a ColumnString shows: row j without its terminating byte.
StringRows(chars, offsets) ==
  [j \in DOMAIN offsets |-> SubSeq(chars, Back(SubSeq(offsets, 1, j - 1)) + 1, offsets[j] - 1)]

\* The strings the Arrow column holds; a null row reads as empty.
ArrowStrings(chunks) ==
  FlattenSeq([i \in DOMAIN chunks |->
               [k \in DOMAIN chunks[i].valid |->
                  IF chunks[i].valid[k]
                  THEN SubSeq(chunks[i].data, chunks[i].offsets[k] + 1, chunks[i].offsets[k + 1])
                  ELSE <<>>]])

-----------------------------------------------------------------------------
(* Numeric types: a chunk is its values; its value buffer holds them as   *)
(* the Arrow type's byte width of bytes each, byte b of value v being      *)
(* <<v, b>>.                                                               *)

ArrowByteWidth ==
  [UINT8 |-> 1, INT8 |-> 1, INT16 |-> 2, INT32 |-> 4, UINT64 |-> 8,
   INT64 |-> 8, HALF_FLOAT |-> 2, FLOAT |-> 4, DOUBLE |-> 8, UINT16 |-> 2,
   UINT32 |-> 4]

NumericCppWidth ==
  [UINT8 |-> 1, INT8 |-> 1, INT16 |-> 2, INT32 |-> 4, UINT64 |-> 8,
   INT64 |-> 8, HALF_FLOAT |-> 4, FLOAT |-> 4, DOUBLE |-> 8, UINT16 |-> 2,
   UINT32 |-> 4]

\* The bytes of one Arrow value, and the value buffer of a chunk.
ValueBytes(type, v) == [b \in 1..ArrowByteWidth[type] |-> <<v, b>>]
BufferBytes(type, c) == FlattenSeq([k \in DOMAIN c |-> ValueBytes(type, c[k])])

\* reinterpret_cast<const NumericType *>(buffer->data())[j - 1]: the j-th
\* run of sizeof(NumericType) bytes.  It is an Arrow value when the run is
\* exactly that value's bytes; bytes of several values are reinterpreted
\* as something else, and a run past the buffer is an out-of-bounds read.
CppValueAt(type, c, j) ==
  LET w == NumericCppWidth[type]
      bytes == BufferBytes(type, c)
      run == SubSeq(bytes, (j - 1) * w + 1, j * w)
  IN IF j * w > Len(bytes) THEN "past_buffer"
     ELSE IF \E v \in Values : run = ValueBytes(type, v)
     THEN CHOOSE v \in Values : run = ValueBytes(type, v)
     ELSE "reinterpreted"

\* readColumnWithNumericData: chunks without rows are skipped; of the
\* others, length values of the C++ type are inserted from the start of
\* the buffer.
ReadNumericData(type, chunks) ==
  FoldLeft(LAMBDA column_data, c :
             IF c = <<>> THEN column_data
             ELSE column_data \o [j \in DOMAIN c |-> CppValueAt(type, c, j)],
           <<>>, chunks)

-----------------------------------------------------------------------------
(* DATE32: a chunk is its value buffer, its offset into it and its        *)
(* length; the chunk holds buffer[offset + 1 .. offset + length].  The     *)
(* parquet reader builds chunks with offset 0; Array::Slice does not.      *)

\* The day numbers the Arrow chunks hold.
ArrowDays(chunks) ==
  FlattenSeq([i \in DOMAIN chunks |->
               SubSeq(chunks[i].buffer, chunks[i].offset + 1, chunks[i].offset + chunks[i].length)])

\* Variant rejecting the maximum day itself.
Date32OutOfRangeInclusive(v) == v >= DateLutMaxExtendDayNum

\* The check after the bulk copy: a day number above the maximum.
Date32OutOfRange(v) == v > DateLutMaxExtendDayNum

\* readColumnWithDate32Data: length values from the start of buffers[1] of
\* each chunk are copied, then scanned; the first day out of range throws
\* VALUE_IS_OUT_OF_RANGE_OF_DATA_TYPE.
ReadDate32(chunks) ==
  LET days == FlattenSeq([i \in DOMAIN chunks |-> SubSeq(chunks[i].buffer, 1, chunks[i].length)])
  IN IF \E k \in DOMAIN days : Date32OutOfRange(days[k])
     THEN [status |-> "VALUE_IS_OUT_OF_RANGE_OF_DATA_TYPE"]
     ELSE [status |-> "ok", rows |-> days]

(* DATE64: a chunk is its Int64 milliseconds.  TIMESTAMP: its values,     *)
(* with the column's time unit.                                            *)

\* Int64 division in C++ truncates toward zero.
DivTrunc(a, b) == IF a >= 0 THEN a \div b ELSE -((-a) \div b)

\* static_cast<UInt32>: the value modulo 2^32.
ToUInt32(x) == x % UInt32

\* Variant casting the milliseconds to UInt32 before the division.
ReadDate64CastFirst(chunks) ==
  LET ms == FlattenSeq(chunks) IN [k \in DOMAIN ms |-> ToUInt32(ms[k]) \div MillisPerSecond]

\* readColumnWithDate64Data: per value, static_cast<UInt32>(Value / 1000).
ReadDate64(chunks) ==
  LET ms == FlattenSeq(chunks) IN [k \in DOMAIN ms |-> ToUInt32(DivTrunc(ms[k], MillisPerSecond))]

\* arrow::TimeUnit::type: the enumerator of each unit.
TimeUnitId == [SECOND |-> 0, MILLI |-> 1, MICRO |-> 2, NANO |-> 3]

\* readColumnWithTimestampData: the scale is unit() * 3 digits; the values
\* are copied as they are into a DateTime64 of that scale.
ReadTimestamp(unit, chunks) ==
  [scale |-> TimeUnitId[unit] * 3, rows |-> FlattenSeq(chunks)]

(* DECIMAL128/256: a chunk is its values, Null for a null row; the column  *)
(* has the Arrow type's precision.                                         *)

\* DecimalUtils::max_precision of Decimal32, Decimal64, Decimal128.
MaxPrecision == [d32 |-> 9, d64 |-> 18, d128 |-> 38, d256 |-> 76]

\* Variant comparing the precision with '<'.
DecimalBackingStrict(precision) ==
  CASE precision < MaxPrecision.d32 -> "d32"
    [] precision < MaxPrecision.d64 -> "d64"
    [] precision < MaxPrecision.d128 -> "d128"
    [] OTHER -> "d256"

\* readColumnWithDecimalData: the first backing whose maximum precision
\* covers the column's, else Decimal256.
DecimalBacking(precision) ==
  CASE precision <= MaxPrecision.d32 -> "d32"
    [] precision <= MaxPrecision.d64 -> "d64"
    [] precision <= MaxPrecision.d128 -> "d128"
    [] OTHER -> "d256"

\* readColumnWithDecimalDataImpl: per value, 0 for a null, else its bits.
ReadDecimalValues(chunks) ==
  FlattenSeq([i \in DOMAIN chunks |->
               [k \in DOMAIN chunks[i] |->
                  IF chunks[i][k] = Null THEN 0 ELSE chunks[i][k]]])

-----------------------------------------------------------------------------
(* BOOL: a chunk is its values and validity bits (a null row's value is    *)
(* whatever the bit-packed buffer holds).                                  *)

\* readColumnWithBooleanData: chunks without rows are skipped; of the
\* others, Value(i) of every row as a byte.
ReadBoolean(chunks) ==
  FoldLeft(LAMBDA column_data, c :
             IF c.values = <<>> THEN column_data
             ELSE column_data \o [k \in DOMAIN c.values |-> IF c.values[k] THEN 1 ELSE 0],
           <<>>, chunks)

(* The null byte map, over the chunk kinds that carry nullness.            *)

\* arrow::Array::IsNull(value_i) of a chunk, row by row.
IsNull(type, c) ==
  IF type = "decimal" THEN [k \in DOMAIN c |-> c[k] = Null]
  ELSE [k \in DOMAIN c.valid |-> ~c.valid[k]]

\* Variant reading the null bits of the first chunk only.
ReadByteMapFirstChunk(type, chunks) ==
  [k \in DOMAIN IsNull(type, chunks[1]) |-> IF IsNull(type, chunks[1])[k] THEN 1 ELSE 0]

\* readByteMapFromArrowColumn: IsNull of every row of every chunk, as a byte.
ReadByteMapFromArrowColumn(type, chunks) ==
  FoldLeft(LAMBDA bytemap_data, c :
             bytemap_data \o [k \in DOMAIN IsNull(type, c) |-> IF IsNull(type, c)[k] THEN 1 ELSE 0],
           <<>>, chunks)

-----------------------------------------------------------------------------
(* One call of readColumnFromArrowColumn on a field that is not nullable,  *)
(* by the case of the type switch; each yields the result record.          *)

\* The LIST case: the nested column from all chunks' values, the offsets,
\* and ColumnArray::create.
ListResult(chunks) ==
  LET data == GetNestedArrowColumn(chunks)
      offsets == ReadOffsetsFromArrowListColumn(chunks)
  IN IF ArrayConsistent(data, offsets)
     THEN [status |-> "ok", rows |-> ArrayRows(data, offsets)]
     ELSE [status |-> "LOGICAL_ERROR"]

\* The STRING/BINARY case.
StringResult(chunks) ==
  LET r == ReadStringChars(chunks)
  IN [status |-> "ok", reserved |-> StringReserve(chunks),
      chars |-> r.chars, offsets |-> r.offsets]

\* The numeric cases.
NumericResult(type, chunks) == [status |-> "ok", rows |-> ReadNumericData(type, chunks)]

\* The DECIMAL128 and DECIMAL256 cases.
DecimalResult(precision, chunks) ==
  [status |-> "ok", backing |-> DecimalBacking(precision),
   rows |-> ReadDecimalValues(chunks)]

\* The BOOL case.
BooleanResult(chunks) == [status |-> "ok", rows |-> ReadBoolean(chunks)]

ReadColumnFromArrowColumn(col) ==
  CASE col.type = "list"    -> ListResult(col.chunks)
    [] col.type = "string"  -> StringResult(col.chunks)
    [] col.type = "numeric" -> NumericResult(col.arrow_type, col.chunks)
    [] col.type = "date32"  -> ReadDate32(col.chunks)
    [] col.type = "decimal" -> DecimalResult(col.precision, col.chunks)
    [] col.type = "boolean" -> BooleanResult(col.chunks)
    [] col.type = "date64"  -> [status |-> "ok", rows |-> ReadDate64(col.chunks)]
    [] col.type = "timestamp" -> [status |-> "ok"] @@ ReadTimestamp(col.unit, col.chunks)
    [] col.type = "map"     -> ListResult(col.chunks)

-----------------------------------------------------------------------------
Init ==
  /\ column \in Columns
  /\ result = [status |-> "none"]

\* A call on a field that is not nullable, of the given type.
Reading(type) == result.status = "none" /\ ~column.nullable /\ column.type = type

ReadList ==
  /\ Reading("list")
  /\ result' = ListResult(column.chunks)
  /\ UNCHANGED column

ReadString ==
  /\ Reading("string")
  /\ result' = StringResult(column.chunks)
  /\ UNCHANGED column

ReadNumeric ==
  /\ Reading("numeric")
  /\ result' = NumericResult(column.arrow_type, column.chunks)
  /\ UNCHANGED column

ReadDate32Column ==
  /\ Reading("date32")
  /\ result' = ReadDate32(column.chunks)
  /\ UNCHANGED column

ReadDecimal ==
  /\ Reading("decimal")
  /\ result' = DecimalResult(column.precision, column.chunks)
  /\ UNCHANGED column

ReadBooleanColumn ==
  /\ Reading("boolean")
  /\ result' = BooleanResult(column.chunks)
  /\ UNCHANGED column

ReadDate64Column ==
  /\ Reading("date64")
  /\ result' = [status |-> "ok", rows |-> ReadDate64(column.chunks)]
  /\ UNCHANGED column

ReadTimestampColumn ==
  /\ Reading("timestamp")
  /\ result' = [status |-> "ok"] @@ ReadTimestamp(column.unit, column.chunks)
  /\ UNCHANGED column

\* The MAP case: the LIST case over the entries struct, whose key and item
\* columns ColumnMap::create takes apart and pairs again with the offsets.
ReadMap ==
  /\ Reading("map")
  /\ result' = ListResult(column.chunks)
  /\ UNCHANGED column

\* A nullable field: the same column read as not nullable (an exception
\* of that read propagates), then the null byte map, wrapped by
\* ColumnNullable::create.
ReadNullable ==
  /\ result.status = "none" /\ column.nullable
  /\ LET nested == ReadColumnFromArrowColumn(column)
     IN result' = IF nested.status # "ok" THEN nested
                  ELSE [status |-> "ok", nullable |-> TRUE, nested |-> nested,
                        null_map |-> ReadByteMapFromArrowColumn(column.type, column.chunks)]
  /\ UNCHANGED column

Next ==
  \/ ReadList \/ ReadString \/ ReadNumeric \/ ReadDate32Column \/ ReadDecimal
  \/ ReadBooleanColumn \/ ReadDate64Column \/ ReadTimestampColumn \/ ReadMap
  \/ ReadNullable

Spec == Init /\ [][Next]_vars

-----------------------------------------------------------------------------
Read(type) == result.status # "none" /\ ~column.nullable /\ column.type = type

\* A list or map column is read without error and each row holds exactly
\* the elements (entries) of its Arrow list, across chunks: the running start of
\* readOffsetsFromArrowListColumn must line the offsets up with the
\* concatenated values() of getNestedArrowColumn (spec: offsets start at
\* 0, are non-decreasing and end at the element count).
ListRowsCorrect ==
  Read("list") \/ Read("map") =>
    result.status = "ok" /\ result.rows = ArrowLists(column.chunks)

\* The bytes readColumnWithStringData copies with insert_assume_reserved
\* and the null bytes it appends never exceed what it reserved.
StringReserveSufficient ==
  Read("string") => Len(result.chars) <= result.reserved

\* Every string row reads back as its Arrow value (empty for a null row)
\* and is followed by its null byte, at the row's offset.
StringRowsCorrect ==
  Read("string") =>
    /\ StringRows(result.chars, result.offsets) = ArrowStrings(column.chunks)
    /\ \A j \in DOMAIN result.offsets :
         result.offsets[j] \in DOMAIN result.chars /\ result.chars[result.offsets[j]] = Nul

\* Every row of the bulk numeric copy is its Arrow value, across chunks
\* (spec: integers and floats are copied as they are, half-float is
\* promoted to 32-bit float): reading the buffer through a C++ type of
\* another width mixes the bytes of neighbouring values and runs past the
\* end of the buffer.
NumericRowsCorrect ==
  Read("numeric") => result.rows = FlattenSeq(column.chunks)

\* A Date32 column converts exactly when no day number exceeds the
\* maximum (spec: the maximum day itself converts, one beyond fails with a
\* range error), and then every row is its day number, across chunks.
Date32BoundExact ==
  LET days == ArrowDays(column.chunks)
  IN Read("date32") =>
       /\ (result.status = "ok") = (\A k \in DOMAIN days : days[k] <= DateLutMaxExtendDayNum)
       /\ result.status = "ok" => result.rows = days

\* A decimal column is backed by the narrowest of the four widths whose
\* maximum precision covers the column's (spec: precision 5, 10, 30, 50
\* select 32, 64, 128, 256 bits), and every row is its value, 0 for null.
DecimalReadCorrect ==
  LET covering == {b \in DOMAIN MaxPrecision : MaxPrecision[b] >= column.precision}
      narrowest == CHOOSE b \in covering : \A c \in covering : MaxPrecision[b] <= MaxPrecision[c]
      values == FlattenSeq(column.chunks)
  IN Read("decimal") =>
       /\ result.backing = narrowest
       /\ result.rows = [k \in DOMAIN values |-> IF values[k] = Null THEN 0 ELSE values[k]]

\* The decimal digits of a second each time unit counts.
SubSecondDigits == [SECOND |-> 0, MILLI |-> 3, MICRO |-> 6, NANO |-> 9]

\* A Date64 value of a DateTime (a time from 1970 on, in whole seconds
\* below 2^32) reads as the second it falls in, and a timestamp keeps its
\* values with as many digits of scale as its unit has (spec: divide by
\* 1000 and narrow; scale is unit x 3).  Values outside DateTime's range
\* are left unconstrained: the spec leaves their narrowing open.
TemporalRowsCorrect ==
  LET values == FlattenSeq(column.chunks)
  IN /\ Read("date64") =>
          \A k \in DOMAIN values :
            values[k] \in 0..UInt32 * MillisPerSecond - 1 =>
              result.rows[k] = values[k] \div MillisPerSecond
     /\ Read("timestamp") =>
          result.scale = SubSecondDigits[column.unit] /\ result.rows = values

\* Chunks that are slices of larger arrays read as the values they hold:
\* list rows are their own elements and Date32 rows their own days.
SlicedChunksReadCorrect == ListRowsCorrect /\ Date32BoundExact

\* The rows of the nested column of a nullable result.
NestedRows(r) == IF "offsets" \in DOMAIN r THEN Len(r.offsets) ELSE Len(r.rows)

\* A nullable column is its nested column with one null byte per row of
\* it, 1 exactly where the Arrow row is null, across chunks (spec: the
\* wrapper's map reflects the source's null bits, not the nested
\* column's, which was read as if never null).
NullMapCorrect ==
  LET nulls == FlattenSeq([i \in DOMAIN column.chunks |-> IsNull(column.type, column.chunks[i])])
  IN result.status = "ok" /\ column.nullable =>
       /\ Len(result.null_map) = NestedRows(result.nested)
       /\ \A k \in DOMAIN nulls : (result.null_map[k] = 1) = nulls[k]

=============================================================================
