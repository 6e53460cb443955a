SPECIFICATION Spec
CONSTANTS
  len = 3
  U64 = 8
  U32 = 8
  Vals = {1, 2}
  Elapsed = {1, 3}
  MaxVal = 3
INVARIANTS
  AccumulatorsAreSums
  WindowIsRecent
