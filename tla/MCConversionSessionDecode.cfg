\* One table whose columns share the dictionary <<d, x>>, in one chunk or a chunk per row.
CONSTANTS
  Header <- MCHeader
  Tables <- MCSharedTables
  DictNames <- MCDictNames
  Default <- MCDefault
  Garbage <- MCGarbage
  Null <- MCNull
  MaxCalls = 1
SPECIFICATION Spec
\* The converter stops being called after its last row group.
CHECK_DEADLOCK FALSE
INVARIANT DecodeCorrect
