SPECIFICATION ApiSpec
SYMMETRY Symmetry
CONSTANTS
  a = a
  b = b
  c1 = c1
  c2 = c2
  \* Two operations and the probe race with two changes of the CA.
  Ops = {c1, c2}
  Pools = {p1, p2, p3, p4}
  MaxCa = 2
  None = None
  \* Two readers, and a commit in the middle that does not parse.
  Callers = {c1, c2}
  Bad = {2}
  Ttl = 1
  StaleMax = 2
  Timeout = 1
  MaxBackoff = 1
  MaxCommits = 3
  MaxTime = 4
  \* A reader and a writer that share one token, through a revocation and a rate limit.
  Contexts = {a, b}
  Writers = {b}
  RequestTimeout = 1
  Budget = 2
  MinBackoff = 1
  BackoffLimit = 1
  TokenLife = 2
  MaxInstant = 4
  MaxTokens = 2
  \* Two requests around a rotation of the issuer's key, and one entry in the map of audited refusals.
  Requests = {c1, c2}
  MaxKid = 2
  Tokens <- Presented
  Subjects = {"s1", "s2"}
  Cooldown = 2
  MaxAge = 3
  FetchTimeout = 1
  Tolerance = 1
  HasStore = TRUE
  DeniedInterval = 2
  MaxSubjects = 1
  MaxNow = 5
  \* Every environment with at most one invalid variable.
  NodeEnvs = {"production", "development"}
  Sources = {"unset", "github", "file"}
  MaxBad = 1
INVARIANTS PoolOrderly SourceHonest StartupSound AuthSound ReadsExact LinksModest
PROPERTIES TransportOrderly EditsPrecise
CHECK_DEADLOCK FALSE
