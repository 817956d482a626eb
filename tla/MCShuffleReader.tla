--------------------------- MODULE MCShuffleReader ---------------------------
(***************************************************************************)
(* Model-checking instance of ShuffleReader: two partitions, both overflow *)
(* tags, blocks of 1 or 2 rows and 1 or 2 bytes, streams of up to three    *)
(* blocks, and each threshold disabled (-1), zero, or small enough that    *)
(* two or three blocks reach it.                                           *)
(***************************************************************************)
EXTENDS ShuffleReader

MCOverflows == {FALSE, TRUE}
MCBuckets == {0, 1}
MCBlockRows == {1, 2}
MCBlockBytes == {1, 2}
MCMaxStreamLen == 3
MCRowLimits == {-1, 0, 3}
MCByteLimits == {-1, 3}

=============================================================================
