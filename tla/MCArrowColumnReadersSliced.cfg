\* List and Date32 columns whose chunks may be slices of larger arrays.
CONSTANTS
  Values <- MCValues
  Nul <- MCNul
  Columns <- MCSlicedColumns
  Null = Null
  DateLutMaxExtendDayNum = 2
  MillisPerSecond = 2
  UInt32 = 4
SPECIFICATION Spec
CHECK_DEADLOCK FALSE
INVARIANT SlicedChunksReadCorrect
