---------------------------- MODULE ShuffleReader ----------------------------
(***************************************************************************)
(* local_engine::ShuffleReader (cpp-ch, src/unnamed/part_001): the pull-   *)
(* based reader that re-batches decoded shuffle blocks into larger chunks. *)
(*                                                                         *)
(* One read() call is split into the steps its loop takes: Start (seed     *)
(* from the look-ahead block), one Read* step per input_stream->read(),    *)
(* and Emit (concatenate and return).  The NativeReader decoding the byte  *)
(* stream is abstracted to the sequence of blocks it will still return;    *)
(* once it is exhausted it returns an empty block on every read.  A block  *)
(* is abstracted to its identity tags (is_overflows, bucket_num) and its   *)
(* rows() and bytes().  The consumer pulls until it receives an empty      *)
(* block and may pull again afterwards.                                    *)
(***************************************************************************)
EXTENDS Integers, Sequences, SequencesExt

CONSTANTS
  Overflows,      \* values of BlockInfo::is_overflows
  Buckets,        \* values of BlockInfo::bucket_num
  BlockRows,      \* rows() a decoded block may have
  BlockBytes,     \* bytes() a decoded block may have
  MaxStreamLen,   \* bound: blocks in one shuffle stream
  RowLimits,      \* values of max_shuffle_read_rows (negative: disabled)
  ByteLimits,     \* values of max_shuffle_read_bytes (negative: disabled)
  MaxFailures     \* bound: input_stream->read() calls that throw

ASSUME MaxStreamLen \in Nat /\ MaxFailures \in Nat /\ RowLimits \subseteq Int /\ ByteLimits \subseteq Int

VARIABLES
  input_stream,            \* blocks the NativeReader will still return
  pending_block,           \* <<>> or <<b>>: look-ahead kept across calls
  blocks,                  \* local of read(): blocks accumulated so far
  buffer_rows,             \* local of read()
  buffer_bytes,            \* local of read()
  max_shuffle_read_rows,   \* constructor argument
  max_shuffle_read_bytes,  \* constructor argument
  header_set,              \* header.columns() # 0
  pc,                      \* "idle", "loop" (in the while) or "emit"
  returned,                \* history: non-empty chunks returned, as blocks
  finished,                \* history: an empty block has been returned
  failures,                \* history: read() calls aborted by the decoder
  breaks                   \* history: Len(returned) at each aborted call

vars == <<input_stream, pending_block, blocks, buffer_rows, buffer_bytes,
          max_shuffle_read_rows, max_shuffle_read_bytes, header_set, pc,
          returned, finished, failures, breaks>>

Block == [is_overflows : Overflows, bucket_num : Buckets,
          rows : BlockRows, bytes : BlockBytes]

\* What NativeReader::read() returns at the end of the stream.
EmptyBlock == [is_overflows |-> FALSE, bucket_num |-> 0, rows |-> 0, bytes |-> 0]

RowsOf(s) == FoldSeq(LAMBDA b, acc : b.rows + acc, 0, s)
BytesOf(s) == FoldSeq(LAMBDA b, acc : b.bytes + acc, 0, s)

\* The block the next input_stream->read() returns, and the stream after it.
Decoded == IF input_stream = <<>> THEN EmptyBlock ELSE Head(input_stream)
StreamAfterRead == IF input_stream = <<>> THEN <<>> ELSE Tail(input_stream)

\* blocks[0].info != block.info in the code.
DifferentInfo(a, b) ==
  a.is_overflows # b.is_overflows \/ a.bucket_num # b.bucket_num

\* Variants of the loop condition: '<=' for '<'; a negative threshold read
\* as "reached" instead of "disabled"; the first-block clause left out.
BelowLimitsInclusive ==
  /\ max_shuffle_read_rows < 0 \/ buffer_rows <= max_shuffle_read_rows
  /\ max_shuffle_read_bytes < 0 \/ buffer_bytes <= max_shuffle_read_bytes
BelowLimitsEnabledOnly ==
  /\ max_shuffle_read_rows >= 0 /\ buffer_rows < max_shuffle_read_rows
  /\ max_shuffle_read_bytes >= 0 /\ buffer_bytes < max_shuffle_read_bytes
KeepReadingNoFirstBlock ==
  /\ max_shuffle_read_rows < 0 \/ buffer_rows < max_shuffle_read_rows
  /\ max_shuffle_read_bytes < 0 \/ buffer_bytes < max_shuffle_read_bytes

\* The condition of the while loop of read().
BelowLimits ==
  /\ max_shuffle_read_rows < 0 \/ buffer_rows < max_shuffle_read_rows
  /\ max_shuffle_read_bytes < 0 \/ buffer_bytes < max_shuffle_read_bytes

KeepReading == buffer_rows = 0 \/ BelowLimits

\* Variant comparing the bucket number only.
OtherPartitionBucketOnly ==
  blocks # <<>> /\ blocks[1].bucket_num # Decoded.bucket_num

\* The decoded block may not join the batch: its info differs from the
\* first accumulated block's.
OtherPartition ==
  blocks # <<>> /\ DifferentInfo(blocks[1], Decoded)

-----------------------------------------------------------------------------
\* ShuffleReader::ShuffleReader: the stream and the two thresholds are fixed
\* for the life of the reader.
Init ==
  /\ input_stream \in BoundedSeq(Block, MaxStreamLen)
  /\ max_shuffle_read_rows \in RowLimits
  /\ max_shuffle_read_bytes \in ByteLimits
  /\ pending_block = <<>>
  /\ blocks = <<>>
  /\ buffer_rows = 0
  /\ buffer_bytes = 0
  /\ header_set = FALSE
  /\ pc = "idle"
  /\ returned = <<>>
  /\ finished = FALSE
  /\ failures = 0
  /\ breaks = {}

\* read() is entered: a pending block seeds the batch and is cleared.
Start ==
  /\ pc = "idle"
  /\ blocks' = pending_block
  /\ buffer_rows' = RowsOf(pending_block)
  /\ buffer_bytes' = BytesOf(pending_block)
  /\ pending_block' = <<>>
  /\ pc' = "loop"
  /\ UNCHANGED <<input_stream, max_shuffle_read_rows, max_shuffle_read_bytes,
                 header_set, returned, finished, failures, breaks>>

\* The decoder returns a block without rows: the loop ends.
ReadEnd ==
  /\ pc = "loop" /\ KeepReading
  /\ Decoded.rows = 0
  /\ input_stream' = StreamAfterRead
  /\ pc' = "emit"
  /\ UNCHANGED <<pending_block, blocks, buffer_rows, buffer_bytes,
                 max_shuffle_read_rows, max_shuffle_read_bytes, header_set,
                 returned, finished, failures, breaks>>

\* Variant with the partition check made before the end-of-stream check.
ReadOtherPartitionFirst ==
  /\ pc = "loop" /\ KeepReading
  /\ OtherPartition
  /\ pending_block' = <<Decoded>>
  /\ input_stream' = StreamAfterRead
  /\ pc' = "emit"
  /\ UNCHANGED <<blocks, buffer_rows, buffer_bytes, max_shuffle_read_rows,
                 max_shuffle_read_bytes, header_set, returned, finished,
                 failures, breaks>>

\* The block belongs to another partition: keep it for the next call.
ReadOtherPartition ==
  /\ pc = "loop" /\ KeepReading
  /\ Decoded.rows # 0
  /\ OtherPartition
  /\ pending_block' = <<Decoded>>
  /\ input_stream' = StreamAfterRead
  /\ pc' = "emit"
  /\ UNCHANGED <<blocks, buffer_rows, buffer_bytes, max_shuffle_read_rows,
                 max_shuffle_read_bytes, header_set, returned, finished,
                 failures, breaks>>

\* The block joins the batch.
ReadAppend ==
  /\ pc = "loop" /\ KeepReading
  /\ Decoded.rows # 0
  /\ ~OtherPartition
  /\ buffer_rows' = buffer_rows + Decoded.rows
  /\ buffer_bytes' = buffer_bytes + Decoded.bytes
  /\ blocks' = Append(blocks, Decoded)
  /\ input_stream' = StreamAfterRead
  /\ UNCHANGED <<pending_block, max_shuffle_read_rows, max_shuffle_read_bytes,
                 header_set, pc, returned, finished, failures, breaks>>

\* input_stream->read() throws (a corrupt or truncated stream, or the Java
\* stream failing under ReadBufferFromJavaInputStream): the exception leaves
\* read() and its locals, among them the batch that the pending block
\* seeded, are gone; the decoder may or may not have consumed the block it
\* failed on.  The consumer may call read() again.
ReadFails ==
  /\ pc = "loop" /\ KeepReading
  /\ failures < MaxFailures
  /\ input_stream' \in {input_stream, StreamAfterRead}
  /\ blocks' = <<>>
  /\ buffer_rows' = 0
  /\ buffer_bytes' = 0
  /\ pc' = "idle"
  /\ failures' = failures + 1
  /\ breaks' = breaks \cup {Len(returned)}
  /\ UNCHANGED <<pending_block, max_shuffle_read_rows, max_shuffle_read_bytes,
                 header_set, returned, finished>>

\* The loop is left (by a break or by reaching a threshold): the batch is
\* concatenated under the first block's info and returned; an empty batch
\* is returned as an empty block; the header is taken from the first
\* non-empty result.
Emit ==
  /\ pc = "emit" \/ (pc = "loop" /\ ~KeepReading)
  /\ returned' = IF blocks = <<>> THEN returned ELSE Append(returned, blocks)
  /\ finished' = (finished \/ blocks = <<>>)
  /\ header_set' = (header_set \/ blocks # <<>>)
  /\ blocks' = <<>>
  /\ buffer_rows' = 0
  /\ buffer_bytes' = 0
  /\ pc' = "idle"
  /\ UNCHANGED <<input_stream, pending_block, max_shuffle_read_rows,
                 max_shuffle_read_bytes, failures, breaks>>

\* The steps of one read() call once it has started.
ReadStep == ReadEnd \/ ReadOtherPartition \/ ReadAppend \/ Emit

Next == Start \/ ReadStep \/ ReadFails

\* read() is synchronous and runs to completion unless the decoder throws;
\* the consumer keeps pulling until it is handed an empty block.  A failure
\* is never forced.
Fairness ==
  /\ WF_vars(ReadStep)
  /\ WF_vars(~finished /\ Start)

Spec == Init /\ [][Next]_vars /\ Fairness

-----------------------------------------------------------------------------
TypeOK ==
  /\ input_stream \in BoundedSeq(Block, MaxStreamLen)
  /\ pending_block \in BoundedSeq(Block, 1)
  /\ blocks \in Seq(Block)
  /\ buffer_rows \in Nat /\ buffer_bytes \in Nat
  /\ max_shuffle_read_rows \in RowLimits
  /\ max_shuffle_read_bytes \in ByteLimits
  /\ header_set \in BOOLEAN /\ finished \in BOOLEAN
  /\ pc \in {"idle", "loop", "emit"}
  /\ returned \in Seq(Seq(Block))
  /\ failures \in 0..MaxFailures
  /\ breaks \subseteq 0..Len(returned)

\* The reader refines ShuffleChunks: the blocks not yet returned are the
\* batch being built, then the pending block, then what the decoder still
\* holds.  This says no block is lost, duplicated or reordered across the
\* look-ahead, that no returned chunk mixes two partitions or overflow and
\* normal rows, and that every block is eventually returned; and that a
\* failed call exposes no partial chunk and loses only blocks it had taken
\* from the stream, the pending block among them.
Chunks == INSTANCE ShuffleChunks
            WITH rest <- blocks \o pending_block \o input_stream,
                 out <- returned,
                 aborts <- failures

ShuffleChunksSpec == Chunks!Spec

\* A threshold that is enabled is reached or exceeded.
LimitReached(c) ==
  \/ max_shuffle_read_rows >= 0 /\ RowsOf(c) >= max_shuffle_read_rows
  \/ max_shuffle_read_bytes >= 0 /\ BytesOf(c) >= max_shuffle_read_bytes

\* No block is added to a chunk once an enabled threshold has been reached
\* (the while condition of read()): a chunk overshoots by one block at most.
ThresholdRespected ==
  \A i \in 1..Len(returned) :
    Len(returned[i]) > 1 => ~LimitReached(Front(returned[i]))

\* Two consecutive chunks of the same partition are split only because the
\* first reached a threshold: read() never returns a small chunk while the
\* next block could have joined it (a disabled threshold never stops it),
\* unless a failed call came between them.
ChunksMaximal ==
  \A i \in (1..Len(returned) - 1) \ breaks :
    ~DifferentInfo(returned[i][1], returned[i + 1][1])
      => LimitReached(returned[i])

\* An empty block reaches the consumer only at the true end of the stream,
\* with no pending block left behind.
EmptyOnlyAtEnd ==
  finished => (input_stream = <<>> /\ pending_block = <<>> /\ blocks = <<>>)

=============================================================================
