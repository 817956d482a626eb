\* Both byte sources over every stream of up to four bytes, two-byte buffer.
CONSTANTS
  Bytes <- MCBytes
  Garbage = Garbage
  Capacity <- MCCapacity
  MaxLen <- MCMaxLen
  JavaEndCounts <- MCJavaEndCounts
  JavaShortReads = {}
SPECIFICATION Spec
INVARIANT TypeOK
PROPERTY ByteStreamSpec
