SPECIFICATION FairSpec
CONSTANTS
  Pages = 3
  ENTRIES = 12
  INFLIGHT_LOW_RANGE = 0
  INFLIGHT_HIGH_RANGE = 2
  TRACING_BUF_LEN = 2
  U8 = 4
  U64 = 64
  Enabled = {"writer", "reader", "flusher", "status"}
  Ordered = FALSE
  MayFail = {"write", "read", "fsync"}
CHECK_DEADLOCK FALSE
INVARIANTS
  OneOwner
  Overshoot
  ExitComplete
PROPERTIES
  ImplementsPipeline
  FaultOutcome
