SPECIFICATION Spec
CONSTANTS
  None = None
  Orders = {o1, o2}
  Jobs = {j1}
  Workers = {v1}
  MaxVehicles = 1
  MaxRoutes = 1
  MaxByHand = 1
  Calls = {c1, c2, c3}
  Drivers = {d1, d2}
  MaxFailures = 2
SYMMETRY Symmetry
INVARIANTS CallsAreTruthful
PROPERTIES UncontestedMovesForward
CHECK_DEADLOCK FALSE
