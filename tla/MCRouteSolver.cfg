SPECIFICATION Spec
CONSTANTS
  MaxStops = 3
  MaxVehicles = 2
  Span = 2
  Places <- LinePlaces
  Warehouse = 0
  Distance <- LineDistance
  Demands = {1, 2}
  Capacities = {2, 3}
  ExactThreshold = 2
INVARIANTS SearchIsSound NeverWorseThanGreedy
PROPERTIES OnlyBoundLosesPlans
CHECK_DEADLOCK FALSE
