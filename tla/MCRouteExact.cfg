SPECIFICATION Spec
CONSTANTS
  MaxStops = 3
  MaxVehicles = 1
  Span = 2
  Places <- LinePlaces
  Warehouse = 0
  Distance <- LineDistance
  Demands = {1}
  Capacities = {3}
  ExactThreshold = 8
INVARIANTS ProvenOptimal

CHECK_DEADLOCK FALSE
