\* Every list, map, string, numeric (but HALF_FLOAT), boolean, temporal and decimal column of up to two chunks of two rows.
CONSTANTS
  Values <- MCValues
  Nul <- MCNul
  Columns <- MCColumns
  Null = Null
  DateLutMaxExtendDayNum = 2
  MillisPerSecond = 2
  UInt32 = 4
SPECIFICATION Spec
\* One call of the reader: nothing follows it.
CHECK_DEADLOCK FALSE
INVARIANT ListRowsCorrect
INVARIANT StringReserveSufficient
INVARIANT StringRowsCorrect
 
INVARIANT Date32BoundExact
INVARIANT DecimalReadCorrect
INVARIANT NullMapCorrect
INVARIANT TemporalRowsCorrect
