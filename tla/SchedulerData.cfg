SPECIFICATION Spec
CONSTANTS
  Pages = 4
  ENTRIES = 8
  INFLIGHT_LOW_RANGE = 0
  INFLIGHT_HIGH_RANGE = 1
  TRACING_BUF_LEN = 2
  U8 = 4
  U64 = 64
  Enabled = {"writer", "reader", "flusher", "status"}
  Ordered = TRUE
  MayFail = {}
CHECK_DEADLOCK FALSE
INVARIANTS
  FlushAccounting
  ReadsFollowWrites
  ReaderInflightModulo
  RunningIsArmed
  WritesCompleteInOrder
  InflightModulo
  AbortIsOverflow
  QueueBounded
PROPERTIES
  DurableLag
