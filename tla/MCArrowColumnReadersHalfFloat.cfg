\* HALF_FLOAT columns of up to two chunks of two values.
CONSTANTS
  Values <- MCValues
  Nul <- MCNul
  Columns <- MCHalfFloatColumns
  Null = Null
  DateLutMaxExtendDayNum = 2
  MillisPerSecond = 2
  UInt32 = 4
SPECIFICATION Spec
\* One call of the reader: nothing follows it.
CHECK_DEADLOCK FALSE
INVARIANT NumericRowsCorrect
