------------------------------ MODULE ByteSource ------------------------------
(***************************************************************************)
(* The two byte sources of src/unnamed/part_001 that a ShuffleReader's     *)
(* NativeReader pulls from: ReadBufferFromJavaInputStream (each nextImpl   *)
(* calls the Java stream's read(address, capacity) through JNI) and        *)
(* ReadBufferFromByteArray (each nextImpl copies the next region of a Java *)
(* byte array).  Both fill the buffer memory of BufferWithOwnMemory and    *)
(* resize working_buffer to the bytes written.  One action is one call of  *)
(* ReadBuffer::next(): nextImpl, then, when it returns false, the empty    *)
(* working buffer that marks the end.                                      *)
(***************************************************************************)
EXTENDS Integers, Sequences, SequencesExt

CONSTANTS
  Bytes,          \* byte values
  Garbage,        \* what the buffer memory holds before anything is written
  Capacity,       \* memory.m_capacity
  MaxLen,         \* bound: bytes in one stream
  JavaEndCounts,  \* what the Java read returns once its stream is exhausted
  JavaShortReads  \* counts below 1 the Java read returns while bytes remain

ASSUME Capacity \in Nat \ {0} /\ JavaEndCounts \subseteq Int /\ JavaShortReads \subseteq Int

VARIABLES
  source,         \* "java" or "array": which ReadBuffer the reader was given
  array_,         \* ReadBufferFromByteArray: the Java array's bytes
  read_pos_,      \* ReadBufferFromByteArray: bytes copied so far
  java_rest,      \* ReadBufferFromJavaInputStream: bytes the Java stream holds
  memory,         \* the buffer memory, Capacity bytes
  working_buffer, \* the bytes the last next() exposed
  delivered,      \* history: every byte exposed, in order
  eof             \* history: next() has returned false

vars == <<source, array_, read_pos_, java_rest, memory, working_buffer,
          delivered, eof>>

\* Bytes written at the start of the buffer memory.
WriteMemory(bytes) == [i \in 1..Capacity |-> IF i <= Len(bytes) THEN bytes[i] ELSE memory[i]]

\* ReadBuffer::next() after nextImpl returned true with count bytes written.
Expose(bytes, count) ==
  /\ memory' = WriteMemory(bytes)
  /\ working_buffer' = SubSeq(memory', 1, count)
  /\ delivered' = delivered \o working_buffer'
  /\ UNCHANGED eof

\* ReadBuffer::next() after nextImpl returned false.
EndOfStream ==
  /\ working_buffer' = <<>>
  /\ eof' = TRUE
  /\ UNCHANGED <<memory, delivered>>

-----------------------------------------------------------------------------
Init ==
  /\ source \in {"java", "array"}
  /\ array_ \in IF source = "array" THEN BoundedSeq(Bytes, MaxLen) ELSE {<<>>}
  /\ java_rest \in IF source = "java" THEN BoundedSeq(Bytes, MaxLen) ELSE {<<>>}
  /\ read_pos_ = 0
  /\ memory = [i \in 1..Capacity |-> Garbage]
  /\ working_buffer = <<>>
  /\ delivered = <<>>
  /\ eof = FALSE

\* The count the Java read may return: up to capacity bytes while the
\* stream holds some, an end marker once it is exhausted.
JavaCounts ==
  IF java_rest = <<>> THEN JavaEndCounts
  ELSE (1..Min({Capacity, Len(java_rest)})) \cup JavaShortReads

\* Variant that leaves working_buffer at the full buffer instead of
\* resizing it to count.
JavaNextImplNoResize ==
  /\ source = "java"
  /\ \E count \in JavaCounts :
       IF count > 0
       THEN /\ Expose(SubSeq(java_rest, 1, count), Capacity)
            /\ java_rest' = SubSeq(java_rest, count + 1, Len(java_rest))
       ELSE /\ EndOfStream
            /\ UNCHANGED java_rest
  /\ UNCHANGED <<source, array_, read_pos_>>

\* ReadBufferFromJavaInputStream::nextImpl: count > 0 bytes are in the
\* buffer and working_buffer is resized to them; otherwise false.
JavaNextImpl ==
  /\ source = "java"
  /\ \E count \in JavaCounts :
       IF count > 0
       THEN /\ Expose(SubSeq(java_rest, 1, count), count)
            /\ java_rest' = SubSeq(java_rest, count + 1, Len(java_rest))
       ELSE /\ EndOfStream
            /\ UNCHANGED java_rest
  /\ UNCHANGED <<source, array_, read_pos_>>

\* Variant testing read_pos_ > array_size_ for the end.
ArrayNextImplPastEnd ==
  /\ source = "array"
  /\ IF read_pos_ > Len(array_)
     THEN /\ EndOfStream
          /\ UNCHANGED read_pos_
     ELSE LET read_size == Min({Capacity, Len(array_) - read_pos_})
          IN /\ Expose(SubSeq(array_, read_pos_ + 1, read_pos_ + read_size), read_size)
             /\ read_pos_' = read_pos_ + read_size
  /\ UNCHANGED <<source, array_, java_rest>>

\* ReadBufferFromByteArray::nextImpl: false once read_pos_ reaches the
\* array size; else min(capacity, remaining) bytes are copied and read_pos_
\* advances.
ArrayNextImpl ==
  /\ source = "array"
  /\ IF read_pos_ >= Len(array_)
     THEN /\ EndOfStream
          /\ UNCHANGED read_pos_
     ELSE LET read_size == Min({Capacity, Len(array_) - read_pos_})
          IN /\ Expose(SubSeq(array_, read_pos_ + 1, read_pos_ + read_size), read_size)
             /\ read_pos_' = read_pos_ + read_size
  /\ UNCHANGED <<source, array_, java_rest>>

Next == JavaNextImpl \/ ArrayNextImpl

\* The decoder keeps pulling until next() returns false: NativeReader::read
\* checks eof() before each block and ShuffleReader::read pulls until an
\* empty block.
Spec == Init /\ [][Next]_vars /\ WF_vars(Next)

-----------------------------------------------------------------------------
TypeOK ==
  /\ source \in {"java", "array"}
  /\ read_pos_ \in 0..Len(array_)
  /\ working_buffer \in BoundedSeq(Bytes, Capacity)
  /\ delivered \in Seq(Bytes)
  /\ eof \in BOOLEAN

\* Both sources implement the ByteStream contract: the bytes exposed are
\* the stream's bytes in order, each call exposes at least one and at most
\* Capacity of them, no byte is skipped or exposed twice, the end is
\* reported only after the last byte, and it is eventually reported.
Stream == INSTANCE ByteStream
            WITH rest <- IF source = "array"
                         THEN SubSeq(array_, read_pos_ + 1, Len(array_))
                         ELSE java_rest,
                 out <- delivered,
                 ended <- eof

ByteStreamSpec == Stream!Spec

=============================================================================
