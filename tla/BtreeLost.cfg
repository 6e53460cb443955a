SPECIFICATION Spec
CONSTANTS
  NODE_SIZE = 18
  sizeof_node = 6
  sizeof_cell = 2
  sizeof_ptr = 1
  U32 = 256
  Tuples <- MCPairs
  MaxInserts = 7
CHECK_DEADLOCK FALSE
INVARIANTS
  TuplesReachable
