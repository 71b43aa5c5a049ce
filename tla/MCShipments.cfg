\* Three requests, a reader, one failure, one edit, one deletion.
SPECIFICATION ShipSpec
CONSTANTS
  a1 = a1 a2 = a2 a3 = a3 a4 = a4 r1 = r1
  Appends = {a1, a2, a3}
  Readers = {r1}
  Kinds = {"created", "exception"}
  Posted = {"exception"}
  Created = "created"
  None = None
  MaxFailures = 1
  MaxEdits = 1
  MaxTrims = 1
INVARIANTS VerificationIsJust CachedIsCurrent RowAgreesWithLog
SYMMETRY AppendSymmetry
CHECK_DEADLOCK FALSE
