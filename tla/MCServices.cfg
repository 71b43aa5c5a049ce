\* Each service on its small instance.
SPECIFICATION Spec
CONSTANTS
  Matrices <- SmallMatrices
  Padding = 100
  Infinity = Infinity
  Orders = {o1}
  Warehouses = {w1, w2}
  Skus = {x, y}
  Allocations = {a1, a2, a3}
  Upserts = {k1, k2}
  Quantities = {1}
  Distance <- NearAndFar
  Capacity <- NearIsSmall
  MaxFailures = 1
  Calls = {c1, c2}
  MaxAttempts = 2
  MaxTokens = 3
  MaxEpochs = 1
  MaxAuthFailures = 1
  Logins = {l1, l2}
  MaxFailed = 2
  TicksPerSecond = 2
  Expiry = 2
  MaxRedisFailures = 1
  Requests = {c1, c2}
  MaxRequests = 2
  Window = 2
  MaxTime = 4
  Subscriptions = {c1, c2}
  Events = {1, 2}
  Payments = {c1, c2}
  SuspendAt = 3
  MaxBillingFailures = 1
  Executions = {x1, x2, x3}
  Messages = {m1}
  MaxRetries = 1
  MaxRedisErrors = 1
  Sids = {i1, i2}
  Notices = {c1, c2}
  MaxSmsFailures = 2
  Managers = {g1, g2}
  Keys <- OneHasTheNewest
  Rows = {1, 2}
  MaxValue = 2
  None = None
SYMMETRY Symmetry
INVARIANTS
  ServicesTypeOK
  AssignmentIsOptimal
  OrdersConsistent
  SessionsEnd
  LimitsHold
  BillingFollowsStripe
  JobsExcludeEachOther
  MessagesLimited
  RotationKeepsAll
\* Calls and requests are bounded: a behaviour ends when they are used up.
CHECK_DEADLOCK FALSE
