\* Two tables on one converter, each with one dictionary column a whose dictionary may grow from <<d>> to <<d, x, y>>.
CONSTANTS
  Header <- MCHeader
  Tables <- MCGrowingTables
  DictNames <- MCDictNames
  Default <- MCDefault
  Garbage <- MCGarbage
  Null <- MCNull
  MaxCalls = 2
SPECIFICATION Spec
\* The converter stops being called after its last row group.
CHECK_DEADLOCK FALSE
INVARIANT IndexesWithinDictionary
