# TLA+ models of the gluten columnar bridge

This directory holds TLA+ specifications of the source files under `src/`
and the TLC configurations that check them. `PROJECT.json` lists the
components, the runs, the mutants that show each property can fail, the
map from each definition to the source lines it models, the findings and
the hazards.

## 1. Inventory

### Components

| Component | Source | State it keeps | Operations |
|---|---|---|---|
| Shuffle block reader | `src/unnamed/part_001` `ShuffleReader` (l. 35-99) | `pending_block` (one look-ahead block kept across calls), the thresholds `max_shuffle_read_rows/bytes` (negative = disabled), `header`; per call the locals `blocks`, `buffer_rows`, `buffer_bytes` | constructor, `read()`, destructor |
| Byte-stream sources | `src/unnamed/part_001` `ReadBufferFromJavaInputStream`, `ReadBufferFromByteArray` (l. 104-140) | the Java stream handle; `read_pos_` / `array_size_` of a Java byte array; the working buffer | `nextImpl()`, destructor |
| Column converter | `OptimizedArrowColumnToCHColumn.cpp` l. 92-518 | none of its own; threads the session's dictionary cache through its recursion | `readColumnFromArrowColumn` and its readers for numbers, strings, booleans, Date32, Date64, timestamps, decimals, null maps, list offsets and dictionary indexes |
| Dictionary cache and conversion session | same file, l. 463-502 and 556-662 | `dictionary_values` (column name -> materialized dictionary, for the converter's life), `header`, `import_nested`, `allow_missing_columns`; per call the `nested_tables` cache | `arrowTableToCHChunk`, `arrowColumnsToCHChunk` |
| Schema-to-header deriver and missing-column query | same file, l. 530-554 and 664-691 | none | `arrowSchemaToCHHeader`, `getMissingColumns` |
| Velox bootstrap | `src/cpp/velox/compute/VeloxInitializer.cc` | the static `asyncDataCache_`, `ioExecutor_`, `ssdCacheExecutor_`, gflags | `Init`, `InitCache`, `getAsyncDataCache` |
| Build configuration | `src/unnamed/part_000` (CMake) | - | - |

The nested-table extractor (`NestedColumnExtractHelper`,
`Nested::extractTableName`), the NativeReader block decoder, Arrow and the
ClickHouse column library are used by this code but are not part of the
source tree.

### How they interact

* A downstream operator pulls `ShuffleReader::read()` repeatedly. Each
  call pulls zero or more blocks from a `NativeReader`, which decodes them
  from a (possibly compressed) byte stream fed by one of the two byte
  sources; a block with no rows means end of stream. The only state that
  outlives a call is `pending_block`, the block of the next partition
  read ahead at a boundary.
* The parquet input format calls `arrowTableToCHChunk` once per Arrow
  table (row group) on one converter object. For every header column it
  resolves the source column (exact name, then nested table, then the
  missing-column policy), converts it with the recursive
  `readColumnFromArrowColumn`, and casts it. The dictionary cache is
  mutated by the recursion the first time a dictionary column name is
  seen and read on every later call.
* `getMissingColumns` runs the same resolution against a header derived
  from the schema, before data arrives.
* `VeloxInitializer::Init` runs once at backend start: it registers file
  systems, builds the Hive connector configuration and, when the cache is
  enabled, creates the executors, the SSD cache and the global
  `asyncDataCache_` that `getAsyncDataCache` hands out.

Everything is single-threaded per instance (spec section 5): there is no
interleaving of threads inside one reader or converter. What is hard is
the ordering of calls and of blocks, state carried between calls (the
look-ahead block, the dictionary cache), boundary values (thresholds,
date bounds, integer narrowing, zero chunks), and the failure paths.

### What makes each component correct

* Shuffle reader: every decoded block is returned exactly once, in stream
  order; no returned chunk mixes two partitions or overflow and normal
  rows; an enabled threshold is overshot by at most one block and a chunk
  is never split early; an empty result only at the true end of the
  stream; eventually everything is returned. A call the decoder aborts
  hands out nothing and loses only the blocks it had taken.
* Byte sources: the bytes handed out are exactly the source bytes, each
  once, and the end is reported only when the source is exhausted.
* Column converter: row count preserved; list offsets non-decreasing and
  ending at the element count; each row addresses its own elements;
  Date32 accepted up to exactly the maximum day; decimal width the
  narrowest that covers the precision; values preserved through
  narrowing; a nullable column's null map has one byte per nested row,
  set exactly on the source's null rows.
* Dictionary cache / session: every converted row decodes to its source
  value, across chunks and across successive tables; a failed conversion
  leaves no partial cache entry; output columns are exactly the header's,
  in order, with the batch's row count; strict policy fails on a missing
  column, lenient policy fills it.
* Missing-column query: reports exactly the columns the conversion would
  fill with defaults.
* Velox bootstrap: the HDFS host and port are the URI's authority; the
  cache is installed only when configured and the SSD path has the space;
  the connector's IO executor and split preloading follow the cache;
  `getAsyncDataCache` never returns null.

The hazards these properties are for are listed, each at its line, under
`hazards` in `PROJECT.json`.

## 2. Plan

Modules in the order they are (to be) written, most important first:

1. `ShuffleReader` (detailed, one action per step of `read()`) refining
   `ShuffleChunks` (abstract: the stream handed out as identity-homogeneous
   non-empty chunks, with weak fairness). `MCShuffleReader` instantiates
   it. **Done.**
2. `ConversionSession`: successive calls of `arrowColumnsToCHChunk` on one
   converter over tables with dictionary columns of one or two chunks; the
   cache, the index copy, the resolution order and the missing-column
   policy, with failure paths (missing column, unreadable value type).
   Properties: decoded rows equal source rows; indices stay inside the
   cached dictionary; no dictionary materialized from a failed read.
   Composes with `MissingColumns` (item 4). **Done** (cast failures and
   the unsupported-index-type path left out, see section 4).
3. `ArrowColumnReaders`: the pure readers as operators (RECURSIVE where
   the code loops over chunks) checked against reference definitions over
   all small inputs: list/map offsets, string offsets, null byte map,
   Date32 check, Date64 narrowing, decimal width, index dispatch.
   **Done** for lists, strings, the numeric copy, Date32 (the bound at
   the maximum day) and decimals (the backing width at each precision
   boundary and the null-to-0 copy, the values abstracted to small
   integers), Date64 (milliseconds divided by a scaled `MillisPerSecond`
   and narrowed modulo a scaled `UInt32`), timestamps and maps.
4. `MissingColumns`: `getMissingColumns` against the resolution of item 2,
   checking that the dry run and the real conversion agree. **Done.**
5. `ByteSource`: the two `nextImpl` implementations under a NativeReader
   that pulls until end of stream, refining `ByteStream`. **Done.** Not
   composed under `ShuffleReader`: the block decoder between them is
   library code, and the contract `ByteStream` states is what the decoder
   relies on.
6. `VeloxInitializer`: `Init` step by step (HDFS URI split, S3 settings,
   `InitCache`, connector), `getAsyncDataCache`, the free-space result
   including an error. **Done.**
7. Decoder failures inside `ShuffleReader::read` (spec section 7: a
   decode failure aborts the call, exposes no partial chunk, and later
   calls go on), with `ShuffleChunks` extended by a counted `Discard`.
   **Done.** The nullable wrapper, the null byte map and BOOL in
   `ArrowColumnReaders`. **Done.**
8. MAP, Date64 (with UInt32 scaled down) and timestamps; sliced Date32
   chunks in the violation run. **Done.**
9. Left: zero-chunk columns and the `CHStringArray` shortcut (see
   section 4).

## 3. Modules and runs

### ShuffleReader / ShuffleChunks / MCShuffleReader

State and actions against `src/unnamed/part_001`:

| Model | Code |
|---|---|
| `input_stream` | the blocks `NativeReader::read()` will still return; empty block when exhausted |
| `pending_block` (`<<>>` or `<<b>>`) | `pending_block` |
| `blocks`, `buffer_rows`, `buffer_bytes` | the locals of `read()` |
| `max_shuffle_read_rows/bytes` | constructor arguments, chosen in `Init` |
| `header_set` | `header.columns() != 0` |
| `pc` | where `read()` is: `idle`, in the `while` loop, or after a `break` |
| `returned`, `finished` | history: the non-empty chunks handed out (as the blocks concatenated into each), and whether an empty block was handed out |
| `Start` | l. 52-61: seed from the pending block and clear it |
| `ReadEnd` | l. 67-69: a block with no rows ends the loop |
| `ReadOtherPartition` | l. 70-75: other info, stash as pending, break |
| `ReadAppend` | l. 76-78: accumulate |
| `Emit` | l. 81-91: concatenate under the first block's info, adopt the header |
| `ReadFails` | l. 67 throws: the locals of l. 52-54 (the batch the pending block seeded) are dropped; the decoder has consumed the failing block or not |
| `failures`, `breaks` | history: calls aborted so far (at most `MaxFailures`), and `Len(returned)` at each |

A block is its identity tags, its row count and its byte count; the
column data does not matter to any property. Compression and the byte
source are below the decoder and are abstracted into it.

Fairness: `read()` is a synchronous call, so once started its steps are
weakly fair; the consumer pulls until it receives an empty block, so
`Start` is weakly fair while no empty block has been returned. After that
the consumer may still call (the model allows it) but is not obliged to.
A decoder exception is never forced, and after one the consumer calls
`read()` again, as the spec's propagation policy has it (in a task the
exception usually ends the reader; the model covers the stronger case).

Runs:

* `shuffle_reader` (`MCShuffleReader.cfg`, pass, about 1 140 000 states,
  1.5 minutes; `MaxFailures` = 1):
  every stream of up to 3 blocks over buckets {0,1}, both overflow tags,
  1-2 rows and 1-2 bytes per block, with `max_shuffle_read_rows` in
  {-1, 0, 3} and `max_shuffle_read_bytes` in {-1, 3}. Three blocks are
  enough for a chunk of two followed by a boundary, a pending block that
  is followed by more of its partition, and a threshold reached exactly
  (1+1+1 = 3) or overshot (2+2). Checks:
  * `ShuffleChunksSpec`: refinement of `ShuffleChunks` under the mapping
    rest = `blocks \o pending_block \o input_stream`, out = `returned`,
    aborts = `failures`, including its liveness (every block is
    eventually returned or dropped by a failed call). A failed call maps
    to `Discard`: it hands out nothing and drops only a prefix of the
    unreturned blocks (the former pending block among them); with no
    failure nothing is dropped;
  * `ThresholdRespected`, `ChunksMaximal` (exempting two chunks with a
    failed call between them), `EmptyOnlyAtEnd`, `TypeOK`.
  The decoder yields blocks of 1-2 rows and then the end: spec section
  6 defines the decoder's zero-row block as end of stream, and `read()`
  breaks on `!block.rows()` accordingly.

### ConversionSession / MCConversionSession

State and actions against
`src/cpp-ch/local-engine/Storages/ch_parquet/OptimizedArrowColumnToCHColumn.cpp`:

| Model | Code |
|---|---|
| `dictionary_values` | the member of the same name: per name `none` (no key), `null` (key inserted by `operator[]`, null pointer) or `built` with the ColumnUnique contents |
| `UniqueInsert` | l. 476-486: the values read through the nullable field `dict`, inserted into a fresh `LowCardinality(Nullable(T))` dictionary: NULL at position 0, the default at 1, then each other value once |
| `LowCardinalityRead` | l. 466-501: the build when the entry is null, then the raw indices of every chunk over the cached dictionary |
| `allow_missing_columns`, `import_nested` | constructor arguments, chosen in `Init` |
| `table`, `num_rows`, `column_i`, `columns_list`, `nested_tables` | the map built by `arrowTableToCHChunk` and the locals of `arrowColumnsToCHChunk` |
| `pc`, `result`, `calls` | inside the header loop or not; how the last call ended (`ok` or the exception); tables converted so far |
| `ReadColumn`, `ReadFields`, `ReadDictionary` | `readColumnFromArrowColumn` (l. 350-518) as RECURSIVE operators threading the cache: the STRUCT case (l. 433-462), the DICTIONARY case (l. 463-502), the default `UNKNOWN_TYPE` (l. 510-516) |
| `ArrowTableToCHChunk(t)` | l. 562-590: a non-empty table, `num_rows` from the column `begin()` yields |
| `ReadExact` | l. 639-661: exact name, convert, cast, push |
| `ConvertNestedTable`, `ReuseNestedTable` | l. 596-621: the nested table converted once per call, then the leaf extracted |
| `ResolveMissing` / `NotPresented` | l. 623-636: `THERE_IS_NO_COLUMN`, or default values and `continue` |
| `SetColumns` | l. 662 |

An Arrow column is a record: a dictionary column (chunks, each a
dictionary and its indices, and whether the value type has a reader), a
struct (named child columns) or a column of a type with no reader. A
converted column is the sequence of values it shows. Table fields are not
nullable, but the field `dict` the DICTIONARY case builds for the
dictionary's values is (`arrow::field` defaults to nullable), so the
values are read through the nullable wrapper (their null map is all
zeros: the dictionaries hold no nulls) and the dictionary type is
`LowCardinality(Nullable(T))`. Assumptions on code outside the tree: that
type's `ColumnUnique` holds NULL at index 0 and the default value at 1,
skips null rows and values equal to the default, and inserts each other
value once, in first-occurrence order;
`castColumn` to the header's type keeps values; `extractColumn` finds a
struct field by the leaf of the name (`HasLeaf`, spec-modelled). There is
no fairness: each call is bounded and the property set is safety only.

The header has five columns: `n.a` and `n.b` (leaves of the nested table
`n`), `a`, `u` (a type with no reader) and `m` (in no table). A table is a
non-empty subset of `a` (dictionary), `n` (struct with one dictionary
field named `a` or `b`) and `u`, of 1 or 2 rows, each dictionary column in
one chunk or in one-row chunks, with a supported or unsupported value
type. This reaches every branch: exact, nested found and not found,
nested reuse, missing under both policies, `UNKNOWN_TYPE` both for the
column and for a dictionary build, and a retry after a failed build. Two
calls per converter are enough for state carried from one table to the
next. Deadlock checking is off: the converter stops being called after
its last row group (`MaxCalls`).

Runs:

* `conversion_session` (`MCConversionSession.cfg`, pass, about 67 000
  states): one dictionary `<<d, x>>` shared by every column. `TypeOK`
  (which also ties `columns_list` to `column_i`) and the action property
  `MaterializedFromReadValues`: a step that materializes the entry of a
  name materializes the uniqued dictionaries of a column of that name
  whose values have a reader. A failed read leaves the `operator[]` key
  with a null pointer, and the next call builds it (spec section 7: no
  partially built entry is visible to later calls). The header has a
  top-level `a` and a struct field `a` that share the key.
* `RowCountPreserved` is checked by the `missing_columns` run (see
  MissingColumns), over dictionaries `<<d, x>>` and `<<d, y>>` that
  differ between chunks and tables.
* `dictionary_index_shifted` (`MCConversionSessionDecode.cfg`, violation
  of `DecodeCorrect`: every returned column equals the values the Arrow
  table holds). One table and one chunk suffice: the raw Arrow index 1
  of `<<d, x>>` reads position 1 of `<<NULL, d, x>>`, that is `d`.
* `dictionary_stale_across_tables` (`MCConversionSessionStale.cfg`,
  violation of `IndexesWithinDictionary`: no returned row indexes past
  the dictionary it is paired with). The first table's dictionary `<<d>>`
  is cached as `<<NULL, d>>`; the second table's `<<d, x, y>>` is never
  read, and its index 2 lies past the cached dictionary (`Garbage`).
  Both violations are listed under `findings`. The un-rebased indices of
  later chunks (l. 490-497) and the key shared by a struct field and a
  top-level column (l. 464) change only which values rows decode to.
  `DecodeCorrect` already fails without them, so they are hazards
  without a run of their own.

### ArrowColumnReaders / MCArrowColumnReaders

Each reader of `OptimizedArrowColumnToCHColumn.cpp` that walks the chunks
of a column is an operator, its loops written as `FoldLeft`; one action
is one call of `readColumnFromArrowColumn` on a column of that type
(`column` is the input, chosen in `Init`; `result` what the call returns).

| Model | Code |
|---|---|
| `ReadOffsetsFromArrowListColumn`, `Back` | l. 304-320: the running `start = offsets_data.back()` (the zero pad for the first chunk) plus each raw `Value(i)`, i >= 1 |
| `GetNestedArrowColumn` | l. 337-348: every chunk's `values()` concatenated |
| `ArrayRows`, `ArrayConsistent` | `ColumnArray::create` (l. 429): rows between consecutive offsets; the library refuses a last offset other than the nested size |
| `StringReserve`, `ReadStringChars` | l. 125-158: the reservation loop and the copy loop (bytes of non-null values, a null byte, the offset) |
| `NumericCppWidth`, `ReadNumericData`, `CppValueAt` | l. 58-67 and 93-113: the C++ type each Arrow type is read as, and the bulk copy skipping empty chunks; row j is the j-th run of `sizeof(NumericType)` bytes from the start of `buffers[1]` (l. 106-108): an Arrow value when the run is exactly its bytes, else reinterpreted bytes or a read past the buffer |
| `Date32OutOfRange`, `ReadDate32` | l. 184-211: the bulk copy of every chunk's day numbers, then the scan that throws VALUE_IS_OUT_OF_RANGE_OF_DATA_TYPE for a day above `DateLutMaxExtendDayNum` |
| `MaxPrecision`, `DecimalBacking`, `ReadDecimalValues` | l. 247-285: the backing chosen by comparing the precision with each width's maximum, and the per-row copy writing 0 for a null |
| `DivTrunc`, `ToUInt32`, `ReadDate64` | l. 214-231: per value `static_cast<UInt32>(Value / 1000)`, C++ division truncating toward zero, the cast taken modulo `UInt32` (2^32, scaled to 4, with 1000 scaled to `MillisPerSecond` = 2) |
| `TimeUnitId`, `ReadTimestamp` | l. 233-248: scale `unit() * 3` from Arrow's TimeUnit enumerators, values copied as they are |
| `ReadMap` | l. 410-422: the LIST case over the entries struct; the key and item columns are split and paired again by `ColumnMap::create`, so the rows are the list rows of entries |
| `ReadBoolean` | l. 163-182: `Value(i)` of every row as a byte, empty chunks skipped |
| `IsNull`, `ReadByteMapFromArrowColumn` | l. 287-301: `IsNull(value_i)` of every row of every chunk |
| `ListResult`, `StringResult`, `NumericResult`, `DecimalResult`, `BooleanResult`, `ReadColumnFromArrowColumn` | the result of each case of the type switch (l. 375-432) |
| `Reading`, `ReadList` ... `ReadBooleanColumn` | a call on a field that is not nullable, one action per case |
| `ReadNullable` | l. 359-366: the same column read as not nullable, then the null byte map, wrapped by `ColumnNullable::create` |

A list chunk is its offsets and its child array; a string chunk its value
offsets, validity bits, value buffer and whether that buffer exists; a
numeric chunk its values (its buffer is their bytes, `ArrowByteWidth`
each); a Date32 chunk its value buffer, its offset
into it and its length; a decimal, Date64 or timestamp chunk its values
(`Null` for a null decimal); a boolean chunk its values and validity bits;
a map chunk a list chunk whose child holds key/item pairs. Each result is compared with a reference
definition of what the Arrow column holds (`ArrowLists`, `ArrowStrings`,
`FlattenSeq` of the numeric values).

Runs:

* `arrow_column_readers` (`MCArrowColumnReaders.cfg`, pass, about 327 000
  states, half a minute): every column of one or two chunks of up to two rows over a
  child array or buffer of up to two values, lists as the parquet reader
  builds them (offsets from 0 to the end of the child), every numeric type
  except HALF_FLOAT, Date32 days 1..3 around a maximum of 2, and decimals
  with or without a null at the precisions either side of each backing's
  maximum, maps of up to two entries, Date64 milliseconds -1, 1, 7 and 8
  (around 0 and the last second of the scaled DateTime range), and
  timestamps of every unit. Two chunks are what the running start and the per-chunk
  reservation need. `ListRowsCorrect`, `StringReserveSufficient`,
  `StringRowsCorrect`, `NumericRowsCorrect` (every numeric row is its
  Arrow value, across chunks of which some may be empty), `Date32BoundExact` (the
  maximum day converts, one beyond throws), `DecimalReadCorrect` (the
  narrowest covering backing, 0 for a null row) and `NullMapCorrect`:
  string, boolean and decimal columns, whose chunks carry null rows, are
  also read as nullable fields, and the null byte map has one byte per
  row of the nested column, set exactly on the Arrow null rows, across
  chunks of which some may be empty. `TemporalRowsCorrect`: a Date64
  value inside DateTime's range reads as the second it falls in (casting
  before dividing would not), a timestamp keeps its values with 3, 6 or 9
  digits of scale for milli-, micro- and nanoseconds. Values outside the
  range wrap silently; the spec leaves that open, so no property judges
  them. `ListRowsCorrect` covers map columns too.
* `list_sliced_chunks` (violation): list chunks whose offsets do not start
  at 0, and Date32 chunks at an offset into their buffer.
  `SlicedChunksReadCorrect` (`ListRowsCorrect` and `Date32BoundExact`)
  fails both ways: a chunk with offsets `<<1, 1>>` over the child `<<p>>`
  (one empty list) is read as the list `<<p>>`; a Date32 chunk of length
  1 at offset 1 of the buffer `<<1, 3>>` is read as day 1, so day 3,
  beyond the maximum, is accepted and misreported. The numeric bulk copy
  takes `buffers[1]->data()` the same way.
* `half_float_reinterpreted` (`MCArrowColumnReadersHalfFloat.cfg`,
  violation): the same inputs for HALF_FLOAT columns only, the type the
  passing run leaves out. `NumericRowsCorrect` fails: FOR_ARROW_NUMERIC_TYPES
  reads HALF_FLOAT as Float32 (l. 65), so each row takes 4 bytes of a
  buffer of 2-byte values: a one-value chunk is read past its buffer, and
  with two values the first row mixes the bytes of both. The spec says
  half-float is promoted to 32-bit float.

### MissingColumns / MCMissingColumns

`MissingColumns` extends `ConversionSession`. `getMissingColumns` and
`arrowSchemaToCHHeader` are const, so they are operators of the table whose
schema they are given: `EmptyColumn` is the empty array built per field
(l. 533-545), `SchemaHeaderError` the conversion of every field with a
fresh dictionary map (l. 530-554), `GetMissingColumns` the dry-run loop
(l. 664-691). `ConversionSession` records, in the history variable
`filled`, the header positions a call fills with defaults.
`MissingColumnsAgree`: after every successful conversion, the dry run on
that table's schema succeeds and reports exactly `filled`.

* `missing_columns` (pass, about 267 000 states): columns `a` and `n`
  whose readers all exist, over dictionaries `<<d, x>>` and `<<d, y>>` that
  differ between chunks and tables. `MissingColumnsAgree`, and the
  property of ConversionSession that needs differing dictionaries:
  `RowCountPreserved` (every returned column has the chunk's row count).
* Only tables whose columns all have readers are given: the dry run
  derives its header from every schema field, so a field the header never
  asks for, of a type with no reader, makes it throw while the conversion
  succeeds. Spec section 4.2 derives the header from every field and
  propagates conversion failures, so that difference is the documented
  design and is not checked.

### ByteSource / ByteStream / MCByteSource

`ByteStream` is the contract of a byte source as the decoder uses it
(spec section 6, `read(buffer) -> bytes_read`, 0 = end): `rest` the bytes
not yet exposed, `out` those exposed, `ended` once `next()` has returned
false. `Deliver(k)` exposes the next 1..capacity bytes; `End` is possible
only when `rest` is empty; weak fairness says a reader that keeps calling
sees the end.

`ByteSource` models both buffers of `src/unnamed/part_001`; one action is
one `ReadBuffer::next()` call (the library's `next()` exposes the working
buffer, or an empty one when `nextImpl` returns false: `Expose`,
`EndOfStream`).

| Model | Code |
|---|---|
| `source`, chosen in `Init` | which `ReadBuffer` the reader was built over |
| `java_rest` | the bytes the Java stream still holds |
| `array_`, `read_pos_` | `array_`/`array_size_`, `read_pos_` (l. 129-140) |
| `memory`, `working_buffer` | `memory` of `BufferWithOwnMemory` and `working_buffer` after `resize` |
| `JavaCounts` | what Java's `read(address, capacity)` may return (l. 111-118) |
| `JavaNextImpl` | l. 104-110: `count > 0` resizes and returns true, else false |
| `ArrayNextImpl` | l. 129-140: `read_pos_ >= array_size_` is the end, else `min(capacity, remaining)` bytes |

`ByteStreamSpec` (the `Stream` instance, with `rest` mapped to the
unread part of the array or of the Java stream) is checked as a
temporal property under `WF_vars(Next)`: the decoder pulls until
`next()` returns false, because `NativeReader::read` checks `eof()` before
each block and `ShuffleReader::read` pulls until an empty block.

* `byte_source` (pass, 440 states): every stream of up to four bytes over
  two byte values through a two-byte buffer, so that reads are full,
  partial and empty; Java returns -1 or 0 at the end. `TypeOK`, which
  also rejects a working buffer holding bytes nobody wrote, and
  `ByteStreamSpec`. The byte-source interface of spec section 6 defines
  a read of 0 bytes as end of stream, so the Java side returns 0 or -1
  only at the end (`JavaShortReads` is empty).

### VeloxInitializer / MCVeloxInitializer

`Init` of `src/cpp/velox/compute/VeloxInitializer.cc` runs once on one
thread; its steps are actions in order (`phase`), and every exception
ends it in `failed`. It is modelled for a build with HDFS and S3.

| Model | Code |
|---|---|
| `conf` | the `conf` map; `operator[]` inserts the empty string for the keys it reads (`Get`, and the `@@` updates) |
| `env_hdfs`, `env` | `getenv("VELOX_HDFS")`, `getenv("AWS_*")` |
| `ConfigureHdfs` | l. 52-75: `find(':') + 3`, `substr`, the host/port or HA split |
| `ConfigureS3` | l. 77-115: instance credentials, or keys with environment overrides |
| `InitCacheDisabled`, `InitCacheEnabled` | l. 141-193: odirect flag, sizes from conf over defaults, executors, SSD cache, free-space check, `AsyncDataCache` |
| `CreateConnector` | l. 117-131: the Hive connector with `ioExecutor_`, `FLAGS_split_preload_per_driver = 0` |
| `GetAsyncDataCache` | l. 134-139 |

Strings the code indexes are sequences of characters; `npos` is written
-1, for which size_t addition of 3 gives 2, as in the code. `uint64_t`
sizes are integers below the constant `UInt64` (16 in the MC module,
above every size and free space it uses, so every comparison comes out
as in the code); `stol`'s negative result wraps to `UInt64` plus it.
The conf keys are written `defaultFS`, `s3_access`, `cache_enabled`,
`mem_cache_size`, ... for `spark.hadoop.fs.defaultFS`,
`spark.hadoop.fs.s3a.access.key`, `kVeloxCacheEnabled`,
`kVeloxMemCacheSize`, ...; the defaults are constants, because
`GlutenConfig.h` is not in the source tree.

* `velox_initializer` (pass, about 31 000 states): every conf with or
  without `defaultFS` (an HA nameservice or host:port), VELOX_HDFS unset
  or set, S3 instance credentials or keys with or without the
  environment override, cache enabled ("TRUE"), disabled or absent,
  odirect, memory size -1, 2 or absent, SSD size 4, not a number or
  absent, and a path prefix with or without room. `TypeOK`;
  `HdfsConfigured` (host and port are the split of the URI's authority at
  its first ':', checked against a definition that locates "://");
  `CacheInstalledConsistently` (after `Init`, the cache is installed
  exactly when enabled, its SSD size fits the free space at its prefix,
  and the connector's IO executor and split preloading follow it).
* `ssd_space_error_ignored` (violation): `std::filesystem::space` fails
  for the prefix `p2`. The ignored error code leaves `available` at its
  maximum, so `CacheInstalledConsistently` fails: the cache is installed
  on a prefix whose free space was never measured.

## 4. Not modelled, and why

* Filesystem, connector-factory, reader-factory and function
  registration in `VeloxInitializer` (they only fill library registries),
  and the thread and shard counts of `InitCache` (they reach no property;
  their parse failure is the same throw as a size's).
* The HDFS-disabled and S3-disabled builds: the two blocks are skipped.
* The JNI environment handling of the byte sources and the destructor's
  `DeleteGlobalRef`.
* The build configuration.
* Nullable table fields and cast failures in `ConversionSession`: the
  cast does not touch the cache or the resolution order, and the null map
  of a nullable field is checked in `ArrowColumnReaders`. The nullable
  field `dict` of the DICTIONARY case is modelled, since it decides the
  layout of the cached dictionary. A nullable dictionary-encoded table
  field is not: its null-slot indices are whatever the writer left (a
  hazard).
* The unsupported-index-type `BAD_ARGUMENTS` path (l. 333): Arrow
  dictionary indices are always one of the eight integer types
  `FOR_ARROW_INDEXES_TYPES` dispatches, so no Arrow input reaches it.
* The `CHStringArray` shortcut (l. 367-373): its class is defined outside
  the repository, so what its column holds is unknown.
* Columns with no chunks: `chunk(0)` is read before the type switch
  (l. 367); the inputs give every column a chunk (listed as a hazard).
* The UINT16/UINT32 date reinterpretation (a type change only), and the
  timezone of a timestamp (carried as it is). Decimal values are small integers, not
  128- or 256-bit numbers: only the backing and the null row are checked.
* Column payloads: values are kept only where a property tells them
  apart (dictionary decoding, dates, offsets); only the numeric copy
  sees bytes, because it reinterprets them.
