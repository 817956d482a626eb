-------------------------- MODULE ConversionSession --------------------------
(***************************************************************************)
(* OptimizedArrowColumnToCHColumn (cpp-ch, ch_parquet): one converter      *)
(* object is handed successive Arrow tables (row groups); for each header  *)
(* column it resolves the source column (exact name, nested table, missing *)
(* column policy) and converts it with the recursive                       *)
(* readColumnFromArrowColumn.  The dictionary cache dictionary_values      *)
(* lives as long as the converter.                                         *)
(*                                                                         *)
(* Arrow columns are records: a dictionary-encoded column (its chunks,     *)
(* each a dictionary and indices, and whether its value type has a reader),*)
(* a struct column (named child columns), or a column of a type with no    *)
(* reader.  A converted column is the sequence of values a consumer reads  *)
(* from it; the cast to the header type (castColumn) keeps those values.   *)
(* Fields of the table are not nullable; the value field the DICTIONARY    *)
(* case makes for the dictionary itself is (arrow::field's default).       *)
(***************************************************************************)
EXTENDS Integers, Sequences, SequencesExt

CONSTANTS
  Header,      \* sequence of [name, table, leaf]: the header's columns, with
               \* Nested::extractTableName of the name and the rest of it
  Tables,      \* the Arrow tables arrowTableToCHChunk may be given
  DictNames,   \* field names that dictionary-encoded columns carry
  Default,     \* the default value of the dictionary's value type
  Null,        \* the NULL of a Nullable column
  Garbage,     \* what an index past the end of the dictionary reads
  MaxCalls     \* bound: tables converted by one converter

VARIABLES
  dictionary_values,      \* name -> cache entry (see NoEntry below)
  allow_missing_columns,  \* constructor argument
  import_nested,          \* constructor argument
  pc,                     \* "idle" or "columns" (inside the header loop)
  table,                  \* the table of the current or last call
  num_rows,               \* num_rows of arrowColumnsToCHChunk
  column_i,               \* header position being resolved
  columns_list,           \* converted columns so far
  nested_tables,          \* per call: table name -> its converted column
  result,                 \* "none", "running", "ok" or the error raised
  calls,                  \* tables handed to the converter so far
  filled                  \* history: header positions default-filled in this call

vars == <<dictionary_values, allow_missing_columns, import_nested, pc, table,
          num_rows, column_i, columns_list, nested_tables, result, calls, filled>>

\* A cache entry: no key; the key inserted by operator[] with a null
\* pointer; or a materialized dictionary.
NoEntry == [state |-> "none", values |-> <<>>]
NullEntry == [state |-> "null", values |-> <<>>]
Built(u) == [state |-> "built", values |-> u]

\* ColumnUnique::uniqueInsertRangeFrom into the fresh dictionary of a
\* LowCardinality(Nullable(T)): position 0 holds NULL and position 1 the
\* default value; a null row or a value equal to the default is not
\* inserted, every other value is inserted once, in the order of its
\* first occurrence.  The dictionaries hold no null rows.
UniqueInsert(vals) ==
  FoldLeft(LAMBDA u, v : IF Contains(u, v) THEN u ELSE Append(u, v),
           <<Null, Default>>, vals)

\* The value ColumnLowCardinality shows for index k.
DictionaryAt(u, k) == IF k + 1 <= Len(u) THEN u[k + 1] ELSE Garbage

\* The values an Arrow dictionary column stands for: each chunk's indices
\* looked up in that chunk's own dictionary.
ArrowValues(col) ==
  FlattenSeq([i \in DOMAIN col.chunks |->
               [k \in DOMAIN col.chunks[i].indices |->
                  col.chunks[i].dictionary[col.chunks[i].indices[k] + 1]]])

Ok(column) == [column |-> column, error |-> "none"]
Error(e) == [column |-> <<>>, error |-> e]

-----------------------------------------------------------------------------
\* operator[] on the cache: the key is inserted with a null pointer.
Entered(name, dicts) ==
  IF dicts[name].state = "none" THEN [dicts EXCEPT ![name] = NullEntry] ELSE dicts

AllDictionaries(col) == FlattenSeq([i \in DOMAIN col.chunks |-> col.chunks[i].dictionary])
AllIndexes(col) == FlattenSeq([i \in DOMAIN col.chunks |-> col.chunks[i].indices])

\* Variant storing the entry before the read of the values, so that a
\* failing read leaves it built.
LowCardinalityReadStoreFirst(name, col, entered, build, indexes) ==
  LET cached == IF build
                THEN [entered EXCEPT ![name] = Built(UniqueInsert(AllDictionaries(col)))]
                ELSE entered
  IN IF build /\ ~col.value_supported
     THEN Error("UNKNOWN_TYPE") @@ [dicts |-> cached]
     ELSE Ok([k \in DOMAIN indexes |-> DictionaryAt(cached[name].values, indexes[k])])
            @@ [dicts |-> cached]

\* The rest of the DICTIONARY case once the cache entry is looked up: when
\* build holds, the entry is filled from the dictionaries of all chunks,
\* read through the nullable value field "dict" (the read fails when
\* their type has no reader; the null byte map is all zeros); the column is
\* the raw indices over the cached dictionary.
LowCardinalityRead(name, col, entered, build, indexes) ==
  LET cached == IF build
                THEN [entered EXCEPT ![name] = Built(UniqueInsert(AllDictionaries(col)))]
                ELSE entered
  IN IF build /\ ~col.value_supported
     THEN Error("UNKNOWN_TYPE") @@ [dicts |-> entered]
     ELSE Ok([k \in DOMAIN indexes |-> DictionaryAt(cached[name].values, indexes[k])])
            @@ [dicts |-> cached]

\* Variant taking the indices of the first chunk only.
ReadDictionaryFirstChunk(name, col, dicts) ==
  LowCardinalityRead(name, col, Entered(name, dicts),
                     Entered(name, dicts)[name].state # "built",
                     col.chunks[1].indices)

\* The DICTIONARY case of readColumnFromArrowColumn: operator[] creates the
\* key; a null entry is built ("Load dictionary values only once"); the
\* concatenated indices of all chunks are copied as they are.
ReadDictionary(name, col, dicts) ==
  LowCardinalityRead(name, col, Entered(name, dicts),
                     Entered(name, dicts)[name].state # "built", AllIndexes(col))

RECURSIVE ReadColumn(_, _, _), ReadFields(_, _, _, _)

\* The STRUCT case: each child field read in order, threading the cache;
\* the result maps child names to their columns.
ReadFields(fields, i, dicts, acc) ==
  IF i > Len(fields) THEN Ok(acc) @@ [dicts |-> dicts]
  ELSE LET r == ReadColumn(fields[i].name, fields[i].column, dicts)
       IN IF r.error # "none" THEN r
          ELSE ReadFields(fields, i + 1, r.dicts,
                          acc @@ (fields[i].name :> r.column))

\* readColumnFromArrowColumn for a non-nullable field.
ReadColumn(name, col, dicts) ==
  CASE col.type = "dictionary" -> ReadDictionary(name, col, dicts)
    [] col.type = "struct" -> ReadFields(col.fields, 1, dicts, <<>>)
    [] OTHER -> Error("UNKNOWN_TYPE") @@ [dicts |-> dicts]

\* NestedColumnExtractHelper::extractColumn finds the leaf in a converted
\* nested table: the table is a struct with a field of that name.
HasLeaf(col, leaf) ==
  col.type = "struct" /\ \E i \in DOMAIN col.fields : col.fields[i].name = leaf

\* The row count of arrowColumnsToCHChunk: the length of whichever column
\* the map's begin() yields.
RowCount(t) == t[CHOOSE n \in DOMAIN t : TRUE].length

-----------------------------------------------------------------------------
\* The constructor: an empty cache and the two policies.
Init ==
  /\ dictionary_values = [n \in DictNames |-> NoEntry]
  /\ allow_missing_columns \in BOOLEAN
  /\ import_nested \in BOOLEAN
  /\ pc = "idle"
  /\ table = <<>>
  /\ num_rows = 0
  /\ column_i = 1
  /\ columns_list = <<>>
  /\ nested_tables = <<>>
  /\ result = "none"
  /\ calls = 0
  /\ filled = {}

\* arrowTableToCHChunk on a table with columns: the per-call state of
\* arrowColumnsToCHChunk is set up.
ArrowTableToCHChunk(t) ==
  /\ pc = "idle" /\ calls < MaxCalls
  /\ table' = t
  /\ num_rows' = RowCount(t)
  /\ column_i' = 1
  /\ columns_list' = <<>>
  /\ nested_tables' = <<>>
  /\ result' = "running"
  /\ pc' = "columns"
  /\ calls' = calls + 1
  /\ filled' = {}
  /\ UNCHANGED <<dictionary_values, allow_missing_columns, import_nested>>

HeaderColumn == Header[column_i]

InLoop == pc = "columns" /\ column_i <= Len(Header)

\* The column is cast and pushed to columns_list.
Accept(column) ==
  /\ columns_list' = Append(columns_list, column)
  /\ column_i' = column_i + 1
  /\ UNCHANGED <<pc, result, filled>>

\* A column of default values is pushed and the loop continues.
AcceptDefault ==
  /\ columns_list' = Append(columns_list, [k \in 1..num_rows |-> Default])
  /\ column_i' = column_i + 1
  /\ filled' = filled \cup {column_i}
  /\ UNCHANGED <<pc, result>>

\* An exception leaves arrowColumnsToCHChunk; the cache keeps its changes.
Raise(e) ==
  /\ pc' = "idle" /\ result' = e
  /\ UNCHANGED <<columns_list, column_i, filled>>

\* The outcome of readColumnFromArrowColumn.
Converted(r) ==
  /\ dictionary_values' = r.dicts
  /\ \/ r.error = "none" /\ Accept(r.column)
     \/ r.error # "none" /\ Raise(r.error)

\* Variant without the continue: the default column is pushed, then pushed
\* again after the cast.
NotPresentedNoContinue ==
  \/ ~allow_missing_columns /\ Raise("THERE_IS_NO_COLUMN")
  \/ allow_missing_columns
       /\ columns_list' = columns_list \o <<[k \in 1..num_rows |-> Default],
                                           [k \in 1..num_rows |-> Default]>>
       /\ column_i' = column_i + 1
       /\ filled' = filled \cup {column_i}
       /\ UNCHANGED <<pc, result>>

\* The column is not presented: an error, or default values.
NotPresented ==
  \/ ~allow_missing_columns /\ Raise("THERE_IS_NO_COLUMN")
  \/ allow_missing_columns /\ AcceptDefault

\* The leaf of a converted nested table, or the missing-column policy.
ExtractNested(tuple) ==
  \/ HasLeaf(table[HeaderColumn.table], HeaderColumn.leaf)
       /\ Accept(tuple[HeaderColumn.leaf])
  \/ ~HasLeaf(table[HeaderColumn.table], HeaderColumn.leaf) /\ NotPresented

\* The header column is a column of the table.
ReadExact ==
  /\ InLoop
  /\ HeaderColumn.name \in DOMAIN table
  /\ Converted(ReadColumn(HeaderColumn.name, table[HeaderColumn.name],
                          dictionary_values))
  /\ UNCHANGED <<allow_missing_columns, import_nested, table, num_rows,
                 nested_tables, calls>>

\* First column of a nested table: the table column is converted whole
\* and kept for this call, then the leaf is extracted.
ConvertNestedTable ==
  /\ InLoop
  /\ HeaderColumn.name \notin DOMAIN table
  /\ import_nested /\ HeaderColumn.table \in DOMAIN table
  /\ HeaderColumn.table \notin DOMAIN nested_tables
  /\ LET r == ReadColumn(HeaderColumn.table, table[HeaderColumn.table],
                         dictionary_values)
     IN /\ dictionary_values' = r.dicts
        /\ \/ r.error # "none" /\ Raise(r.error) /\ UNCHANGED nested_tables
           \/ r.error = "none"
                /\ nested_tables' = nested_tables @@ (HeaderColumn.table :> r.column)
                /\ ExtractNested(r.column)
  /\ UNCHANGED <<allow_missing_columns, import_nested, table, num_rows, calls>>

\* A later column of a nested table already converted in this call.
ReuseNestedTable ==
  /\ InLoop
  /\ HeaderColumn.name \notin DOMAIN table
  /\ import_nested /\ HeaderColumn.table \in DOMAIN nested_tables
  /\ ExtractNested(nested_tables[HeaderColumn.table])
  /\ UNCHANGED <<dictionary_values, allow_missing_columns, import_nested,
                 table, num_rows, nested_tables, calls>>

\* Neither the column nor its nested table is in the table.
ResolveMissing ==
  /\ InLoop
  /\ HeaderColumn.name \notin DOMAIN table
  /\ ~import_nested \/ HeaderColumn.table \notin DOMAIN table
  /\ NotPresented
  /\ UNCHANGED <<dictionary_values, allow_missing_columns, import_nested,
                 table, num_rows, nested_tables, calls>>

\* res.setColumns(columns_list, num_rows).
SetColumns ==
  /\ pc = "columns" /\ column_i > Len(Header)
  /\ pc' = "idle" /\ result' = "ok"
  /\ UNCHANGED <<dictionary_values, allow_missing_columns, import_nested,
                 table, num_rows, column_i, columns_list, nested_tables, calls, filled>>

Next ==
  \/ \E t \in Tables : ArrowTableToCHChunk(t)
  \/ ReadExact \/ ConvertNestedTable \/ ReuseNestedTable \/ ResolveMissing
  \/ SetColumns

Spec == Init /\ [][Next]_vars

-----------------------------------------------------------------------------
TypeOK ==
  /\ \A n \in DictNames : dictionary_values[n].state \in {"none", "null", "built"}
  /\ allow_missing_columns \in BOOLEAN /\ import_nested \in BOOLEAN
  /\ pc \in {"idle", "columns"}
  /\ num_rows \in Nat /\ calls \in 0..MaxCalls
  /\ column_i \in 1..Len(Header) + 1
  /\ Len(columns_list) = column_i - 1
  /\ result \in {"none", "running", "ok", "UNKNOWN_TYPE", "THERE_IS_NO_COLUMN"}
  /\ (pc = "columns") <=> (result = "running")

\* The values a header column should be read as: the source column of that
\* name, else the leaf of its nested table, else default values.
Expected(h) ==
  IF h.name \in DOMAIN table THEN ArrowValues(table[h.name])
  ELSE IF import_nested /\ h.table \in DOMAIN table /\ HasLeaf(table[h.table], h.leaf)
  THEN ArrowValues((CHOOSE f \in Range(table[h.table].fields) : f.name = h.leaf).column)
  ELSE [k \in 1..num_rows |-> Default]

\* Every row arrowTableToCHChunk returns decodes to the value the Arrow
\* table holds for it: through the dictionary cache filled on an earlier
\* call or by another column of the same name, through the indices copied
\* from every chunk, and through nested-table extraction.
DecodeCorrect ==
  result = "ok" => \A i \in 1..Len(Header) : columns_list[i] = Expected(Header[i])

\* Every column of a returned chunk has the chunk's row count num_rows,
\* whether it was read, extracted from a nested table or default-filled.
RowCountPreserved ==
  result = "ok" => \A i \in 1..Len(Header) : Len(columns_list[i]) = num_rows

\* The columns of table t with the names readColumnFromArrowColumn sees:
\* the top-level columns and the fields of struct columns.
NamedColumns(t) ==
  {[name |-> m, column |-> t[m]] : m \in DOMAIN t}
  \cup UNION {Range(t[m].fields) : m \in {m \in DOMAIN t : t[m].type = "struct"}}

\* The dictionary columns of table t that carry the cache key n.
DictionaryColumnsNamed(t, n) ==
  {f.column : f \in {f \in NamedColumns(t) : f.name = n /\ f.column.type = "dictionary"}}

\* A dictionary is materialized only from values that were read: a step
\* that builds the entry of a name, whether its call succeeds or fails
\* later, builds the uniqued dictionaries of a column of that name whose
\* values have a reader (spec: a failure mid-dictionary-build must not
\* leave a partially-built cache entry visible to later calls; the key
\* operator[] inserted stays, with a null pointer, and is built again).
MaterializedFromReadValues ==
  [][\A n \in DictNames :
       dictionary_values'[n].state = "built" /\ dictionary_values[n].state # "built" =>
         \E c \in DictionaryColumnsNamed(table', n) :
           c.value_supported /\ dictionary_values'[n] = Built(UniqueInsert(AllDictionaries(c)))]_vars

\* No row of a returned chunk indexes past the dictionary it is paired
\* with: ColumnLowCardinality reads position index of the cached
\* ColumnUnique, so every raw Arrow index must lie inside it, on every
\* table the converter is given.
IndexesWithinDictionary ==
  result = "ok" =>
    \A i \in 1..Len(Header) : \A k \in DOMAIN columns_list[i] : columns_list[i][k] # Garbage

=============================================================================
