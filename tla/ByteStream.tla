------------------------------ MODULE ByteStream ------------------------------
(***************************************************************************)
(* What a byte-stream source promises the decoder that pulls from it (the  *)
(* ReadBuffer contract next() -> bool, spec section 6): each successful    *)
(* call exposes the next non-empty run of the stream's bytes, in order, at *)
(* most one buffer's capacity long; the end of the stream is reported only *)
(* once every byte has been exposed; and a reader that keeps calling       *)
(* eventually sees the end.                                                *)
(***************************************************************************)
EXTENDS Integers, Sequences, SequencesExt

CONSTANT Capacity     \* bytes one buffer holds

VARIABLES
  rest,               \* bytes of the stream not yet exposed, in order
  out,                \* bytes exposed so far, in order
  ended               \* next() has returned false

svars == <<rest, out, ended>>

Init ==
  /\ out = <<>>
  /\ ended = FALSE

\* A call exposes the next k bytes.
Deliver(k) ==
  /\ ~ended
  /\ out' = out \o SubSeq(rest, 1, k)
  /\ rest' = SubSeq(rest, k + 1, Len(rest))
  /\ UNCHANGED ended

\* A call reports the end of the stream.
End ==
  /\ ~ended /\ rest = <<>>
  /\ ended' = TRUE
  /\ UNCHANGED <<rest, out>>

Next == (\E k \in 1..Min({Capacity, Len(rest)}) : Deliver(k)) \/ End

Spec == Init /\ [][Next]_svars /\ WF_svars(Next)

=============================================================================
