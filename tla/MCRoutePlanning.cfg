SPECIFICATION FairSpec
CONSTANTS
  None = None
  Orders = {o1, o2}
  Jobs = {j1, j2}
  Workers = {v1, v2}
  MaxVehicles = 2
  MaxRoutes = 4
  MaxByHand = 0
  Calls = {}
  Drivers = {}
  MaxFailures = 2
INVARIANTS PlannedTwiceOnlyByRivals RoutedIffAllocated DoneIsTrue
PROPERTIES JobsEnd
CHECK_DEADLOCK FALSE
