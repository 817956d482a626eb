CONSTANTS
  Overflows <- MCOverflows
  Buckets <- MCBuckets
  BlockRows <- MCBlockRows
  BlockBytes <- MCBlockBytes
  MaxStreamLen <- MCMaxStreamLen
  RowLimits <- MCRowLimits
  ByteLimits <- MCByteLimits
  MaxFailures = 1

SPECIFICATION Spec

INVARIANT TypeOK
INVARIANT ThresholdRespected
INVARIANT ChunksMaximal
INVARIANT EmptyOnlyAtEnd

PROPERTY ShuffleChunksSpec
