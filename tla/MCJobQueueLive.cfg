\* Liveness: no symmetry, so one retry budget and fewer failures.
SPECIFICATION FairSpec
CONSTANTS
  w1 = w1 w2 = w2 s1 = s1 s2 = s2 s3 = s3
  None = None
  Jobs = {j1, j2}
  Workers = {w1, w2}
  Slots = {s1, s2, s3}
  Home <- TwoAndOne
  Stoppable = {w1}
  EnqueuePriorities = {3}
  RequestedRetries = {1}
  MaxRetriesCap = 2
  DefaultRetries = 1
  DlqMaxSize = 1
  MaxFailures = 1
  MaxExpiries = 0
PROPERTIES EveryJobComesToRest StopReturns
