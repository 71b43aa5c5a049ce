\* A worker of two slots and one of one, a failure, an expired hash, a retry.
SPECIFICATION Spec
CONSTANTS
  w1 = w1 w2 = w2 s1 = s1 s2 = s2 s3 = s3
  None = None
  Jobs = {j1, j2}
  Workers = {w1, w2}
  Slots = {s1, s2, s3}
  Home <- TwoAndOne
  Stoppable = {w1}
  EnqueuePriorities = {1}
  RequestedRetries = {2}
  MaxRetriesCap = 1
  DefaultRetries = 1
  DlqMaxSize = 1
  MaxFailures = 1
  MaxExpiries = 1
SYMMETRY Symmetry
INVARIANTS TypeOK NoDoubleDelivery RetryBudget NothingDropped
PROPERTIES ImplementsLifecycle
