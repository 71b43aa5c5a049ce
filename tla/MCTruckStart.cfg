\* A first connection that is refused, with a retry after it.
SPECIFICATION FairSpec
CONSTANTS
  s1 = s1 s2 = s2 s3 = s3 c1 = c1 c2 = c2
  Sockets = {s1, s2}
  Syncs = {c1}
  Readings = {1}
  MaxRetries = 1
  BatchSize = 1
  MaxFaults = 0
  MaxStarts = 1
  None = None
PROPERTIES StartsCollecting
CHECK_DEADLOCK FALSE
