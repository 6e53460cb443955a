SPECIFICATION Spec
CONSTANTS
  len = 4
  item_size = 2
  PAGE_SZ = 4
  U32 = 8
  Items = {1, 2}
INVARIANTS
  CountsExact
  InMapping
  SinglePutRoundTrip
