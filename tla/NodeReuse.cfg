SPECIFICATION Spec
CONSTANTS
  NODE_SIZE = 40
  sizeof_node = 6
  sizeof_cell = 4
  sizeof_ptr = 2
  U32 = 4096
  Keys <- MCEqualKeys
  ValueSizes = {3}
CHECK_DEADLOCK FALSE
INVARIANTS
  TuplesKept
