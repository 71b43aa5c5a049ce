\* One shipment that is created and set in transit, then a location.
SPECIFICATION ShipSpec
CONSTANTS
  a1 = a1 a2 = a2 a3 = a3 a4 = a4 r1 = r1
  Appends = {a1, a2, a3}
  Readers = {}
  Kinds = {"created", "in_transit", "exception"}
  Posted = {"in_transit"}
  Created = "created"
  None = None
  MaxFailures = 0
  MaxEdits = 0
  MaxTrims = 0
PROPERTIES LocationIsTracked
CHECK_DEADLOCK FALSE
