\* Tables whose every column has a reader, over dictionaries that differ, on one converter.
CONSTANTS
  Header <- MCHeader
  Tables <- MCSupportedTables
  DictNames <- MCDictNames
  Default <- MCDefault
  Garbage <- MCGarbage
  Null <- MCNull
  MaxCalls = 2
SPECIFICATION Spec
\* The converter stops being called after its last row group.
CHECK_DEADLOCK FALSE
INVARIANT RowCountPreserved
INVARIANT MissingColumnsAgree
