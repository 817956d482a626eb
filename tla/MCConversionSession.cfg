\* Every column shares one dictionary that starts with the default value.
CONSTANTS
  Header <- MCHeader
  Tables <- MCSharedTables
  DictNames <- MCDictNames
  Default <- MCDefault
  Garbage <- MCGarbage
  Null <- MCNull
  MaxCalls = 2
SPECIFICATION Spec
\* The converter stops being called after its last row group.
CHECK_DEADLOCK FALSE
INVARIANT TypeOK
PROPERTY MaterializedFromReadValues
