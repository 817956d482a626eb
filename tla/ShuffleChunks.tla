---------------------------- MODULE ShuffleChunks ----------------------------
(***************************************************************************)
(* What the shuffle block reader promises its consumer, independent of how *)
(* it buffers: the decoded blocks are handed out, in stream order, as a    *)
(* sequence of non-empty chunks; every block goes into exactly one chunk;  *)
(* a chunk never holds blocks of two partitions (bucket number) or mixes   *)
(* overflow and non-overflow rows; and as long as blocks remain, another   *)
(* chunk is eventually handed out.                                         *)
(*                                                                         *)
(* A call that fails (the decoder throws) hands out nothing and may        *)
(* discard the blocks it had taken from the stream, never more than a      *)
(* prefix of what remains and never a block already handed out.  Each     *)
(* such call is counted in aborts, so a run without failures promises that *)
(* no block is lost.                                                       *)
(***************************************************************************)
EXTENDS Integers, Sequences

CONSTANT Block      \* the blocks a stream may carry

VARIABLES
  rest,             \* blocks of the stream not yet handed out, in order
  out,              \* chunks handed out so far, each a sequence of blocks
  aborts            \* calls that failed so far

avars == <<rest, out, aborts>>

\* The identity tags a chunk must not mix (Block::info in the code).
Info(b) == <<b.is_overflows, b.bucket_num>>

Init ==
  /\ rest \in Seq(Block)
  /\ out = <<>>
  /\ aborts = 0

\* Hand out the first k remaining blocks as one chunk.
EmitChunk(k) ==
  /\ \A i \in 1..k : Info(rest[i]) = Info(rest[1])
  /\ out' = Append(out, SubSeq(rest, 1, k))
  /\ rest' = SubSeq(rest, k + 1, Len(rest))
  /\ UNCHANGED aborts

\* A failed call: the first k remaining blocks are gone, nothing is handed out.
Discard(k) ==
  /\ rest' = SubSeq(rest, k + 1, Len(rest))
  /\ aborts' = aborts + 1
  /\ UNCHANGED out

Emit == \E k \in 1..Len(rest) : EmitChunk(k)

Next == Emit \/ \E k \in 0..Len(rest) : Discard(k)

Spec == Init /\ [][Next]_avars /\ WF_avars(Emit)

=============================================================================
