SPECIFICATION FairSpec
CONSTANTS
  Pages = 1
  ENTRIES = 12
  INFLIGHT_LOW_RANGE = 1
  INFLIGHT_HIGH_RANGE = 2
  TRACING_BUF_LEN = 2
  U8 = 4
  U64 = 64
  Enabled = {"writer", "reader", "flusher", "tracing", "status"}
  Ordered = TRUE
  MayFail = {}
CHECK_DEADLOCK FALSE
PROPERTIES
  Termination
