SPECIFICATION UpstreamSpec
SYMMETRY Symmetry
CONSTANTS
  Calls = {c1, c2, c3, c4, c5}
  MaxConcurrent = 2
  MaxQueued = 2
  HasTokenProvider = TRUE
  \* Two pages of three names, one of which cannot be addressed; a budget that ends
  \* in the middle of a request.
  Readers = {u1, u2}
  N = 3
  Unsafe = {2}
  PageSize = 1
  MaxPages = 2
  Timeout = 2
  TokenTime = 1
  CancelTime = 1
  Budget = 3
  Ttl = 1
  NegativeTtl = 1
  PrefixTtl = 1
  MaxMoves = 1
  MaxEdits = 1
  MaxTime = 7
  \* Two callers, and runs that outlive them.
  Callers = {u1, u2}
  MaxConcurrentRuns = 2
  Required = {"cpu"}
  Optional = {"net"}
  MaxAge = 1
  Runs = {r1, r2, r3}
  MaxClock = 1
  k1 = k1
  k2 = k2
  k3 = k3
  e1 = e1
  e2 = e2
  e3 = e3
  u1 = u1
  u2 = u2
  None = None
INVARIANTS SlotsExact LineIsExact CatalogHonest FlinkHonest ClusterShownAsRead
PROPERTIES NoBarging MemoExact BulkheadHolds
CHECK_DEADLOCK FALSE
