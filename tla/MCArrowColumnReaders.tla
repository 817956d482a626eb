------------------------- MODULE MCArrowColumnReaders -------------------------
(***************************************************************************)
(* Arrow columns of one or two chunks over the values p and q, each chunk *)
(* of up to two rows over a child array or buffer of up to two values.    *)
(***************************************************************************)
EXTENDS ArrowColumnReaders

MCValues == {"p", "q"}
MCNul == "nul"
MaxChunks == 2
MaxRows == 2
MaxValues == 2
MaxStringRows == 2

\* Non-decreasing offsets for n rows inside a buffer of len elements.
OffsetSeqs(n, len) ==
  {o \in [1..n + 1 -> 0..len] : \A i \in 1..n : o[i] <= o[i + 1]}

ChunkSeqs(C) == UNION {[1..n -> C] : n \in 1..MaxChunks}

\* List chunks as the parquet reader builds them: offsets from 0 to the
\* end of the child array of elements in V.
WholeListChunksOver(V) ==
  UNION {{[offsets |-> o, values |-> v] :
            o \in {o \in OffsetSeqs(n, Len(v)) : o[1] = 0 /\ Last(o) = Len(v)}}
         : v \in BoundedSeq(V, MaxValues), n \in 0..MaxRows}

WholeListChunks == WholeListChunksOver(MCValues)

\* Map chunks: the child array is the entries struct, a key and an item.
MapChunks == WholeListChunksOver({<<"p", "p">>, <<"p", "q">>})

\* List chunks that are slices of a list array: the offsets end at the end
\* of the child array but need not start at 0.
SlicedListChunks ==
  UNION {{[offsets |-> o, values |-> v] :
            o \in {o \in OffsetSeqs(n, Len(v)) : Last(o) = Len(v)}}
         : v \in BoundedSeq(MCValues, MaxValues), n \in 0..MaxRows}

StringChunks ==
  UNION {{[offsets |-> o, valid |-> va, data |-> d, buffer |-> b] :
            o \in OffsetSeqs(n, Len(d)), va \in [1..n -> BOOLEAN],
            b \in IF d = <<>> THEN BOOLEAN ELSE {TRUE}}
         : d \in BoundedSeq(MCValues, MaxValues), n \in 0..MaxStringRows}

NumericChunks == BoundedSeq(MCValues, MaxRows)

NumericColumns(types) ==
  {[nullable |-> FALSE, type |-> "numeric", arrow_type |-> t, chunks |-> cs] :
     t \in types, cs \in ChunkSeqs(NumericChunks)}

\* Day numbers around DATE_LUT_MAX_EXTEND_DAY_NUM (given the value 2), in
\* chunks as the parquet reader builds them (offset 0, the whole buffer).
Date32Chunks ==
  {[buffer |-> b, offset |-> 0, length |-> Len(b)] : b \in BoundedSeq({1, 2, 3}, MaxRows)}

\* Date32 chunks that are slices of their buffer.
SlicedDate32Chunks ==
  UNION {{c \in [buffer : {b}, offset : 0..Len(b), length : 0..Len(b)] :
            c.offset + c.length <= Len(b)}
         : b \in BoundedSeq({1, 3}, MaxRows)}

\* Milliseconds around 0 and around the last second below UInt32 (given
\* UInt32 = 4 and MillisPerSecond = 2): -1, 1, 7 and 8.
Date64Chunks == BoundedSeq({-1, 1, 7, 8}, MaxRows)
TimestampChunks == BoundedSeq({5}, MaxRows)

\* The precisions on both sides of each backing's maximum, and values
\* with a null.
MCPrecisions == {1, 9, 10, 18, 19, 38, 39, 76}
DecimalChunks == BoundedSeq({Null, 7}, MaxRows)

\* Boolean chunks: values with their validity bits.
BooleanChunks ==
  UNION {{[values |-> v, valid |-> va] : v \in [1..n -> BOOLEAN], va \in [1..n -> BOOLEAN]}
         : n \in 0..MaxRows}

\* Every reader over the inputs the parquet reader produces; numeric
\* types other than HALF_FLOAT, which MCHalfFloatColumns holds.  Strings, booleans and decimals, whose
\* chunks carry null rows, are read as nullable fields too.
MCColumns ==
  {[nullable |-> FALSE, type |-> "list", chunks |-> cs] : cs \in ChunkSeqs(WholeListChunks)}
  \cup NumericColumns(DOMAIN ArrowByteWidth \ {"HALF_FLOAT"})
  \cup {[nullable |-> FALSE, type |-> "map", chunks |-> cs] : cs \in ChunkSeqs(MapChunks)}
  \cup {[nullable |-> FALSE, type |-> "date32", chunks |-> cs] : cs \in ChunkSeqs(Date32Chunks)}
  \cup {[nullable |-> FALSE, type |-> "date64", chunks |-> cs] : cs \in ChunkSeqs(Date64Chunks)}
  \cup {[nullable |-> FALSE, type |-> "timestamp", unit |-> u, chunks |-> cs] :
         u \in DOMAIN TimeUnitId, cs \in ChunkSeqs(TimestampChunks)}
  \cup {[nullable |-> n, type |-> "string", chunks |-> cs] :
         n \in BOOLEAN, cs \in ChunkSeqs(StringChunks)}
  \cup {[nullable |-> n, type |-> "decimal", precision |-> p, chunks |-> cs] :
         n \in BOOLEAN, p \in MCPrecisions, cs \in ChunkSeqs(DecimalChunks)}
  \cup {[nullable |-> n, type |-> "boolean", chunks |-> cs] :
         n \in BOOLEAN, cs \in ChunkSeqs(BooleanChunks)}

MCHalfFloatColumns == NumericColumns({"HALF_FLOAT"})

MCSlicedColumns ==
  {[nullable |-> FALSE, type |-> "list", chunks |-> cs] : cs \in ChunkSeqs(SlicedListChunks)}
  \cup {[nullable |-> FALSE, type |-> "date32", chunks |-> cs] : cs \in ChunkSeqs(SlicedDate32Chunks)}
=============================================================================
