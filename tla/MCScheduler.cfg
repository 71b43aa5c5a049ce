\* Two server instances, two entries of one name, a lapse of the lock and a failure.
SPECIFICATION FairSpec
CONSTANTS
  i1 = i1 i2 = i2 m1 = m1 m2 = m2
  None = None
  Instances = {i1, i2}
  Stoppable = {i2}
  Entries = {m1, m2}
  Names = {"job"}
  NameOf <- SameName
  MaxRuns <- TwiceAndOnce
  MaxLapses = 1
  MaxFailures = 1
INVARIANTS TypeOK OneScheduler ExactlyOncePerRun CancelledForGood
PROPERTIES DueIsServed
