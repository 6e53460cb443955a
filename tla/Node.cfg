SPECIFICATION Spec
CONSTANTS
  NODE_SIZE = 40
  sizeof_node = 6
  sizeof_cell = 4
  sizeof_ptr = 2
  U32 = 4096
  Keys <- MCKeys
  ValueSizes = {1, 5}
CHECK_DEADLOCK FALSE
INVARIANTS
  SearchExact
  TombstonesCounted
PROPERTIES
  ImplementsStore
  DamageOrigin
