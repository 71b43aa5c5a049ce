\* The truck: one reading, two sockets, overlapping syncs, a fault of each kind, a restart.
\* The servers: two connections, one room, one message, one server that dies.
SPECIFICATION FairSpec
CONSTANTS
  Sockets = {s1, s2}
  Syncs = {c1, c2}
  Readings = {1}
  MaxRetries = 2
  BatchSize = 1
  MaxFaults = 1
  MaxStarts = 2
  Servers = {v1, v2}
  Conns = {k1, k2}
  Home <- OneServer
  Org <- OneOrg
  Names = {"shipment:1"}
  MaxMissed = 3
  MaxSent = 1
  MaxDeaths = 1
  None = None
INVARIANTS
  FleetTypeOK
  OneConnection
  ReadingsAccountedFor
  MapsAgree
PROPERTIES
  StopEnds
  QueueDrains
  DropsTheSilent
\* The truck's client may be switched off, and every connection may be gone.
CHECK_DEADLOCK FALSE
