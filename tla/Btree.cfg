SPECIFICATION Spec
CONSTANTS
  NODE_SIZE = 18
  sizeof_node = 6
  sizeof_cell = 2
  sizeof_ptr = 1
  U32 = 256
  Tuples <- MCTuples
  MaxInserts = 8
CHECK_DEADLOCK FALSE
INVARIANTS
  LevelsUniform
  
  TwoLevelsSound
  PathNeverFails
  EqualTuplesNeverAbort
  RefusalsTrue
PROPERTIES
  ImplementsStore
