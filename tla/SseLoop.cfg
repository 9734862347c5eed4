SPECIFICATION FairSpec
CONSTANTS
  MaxRequest = 13
  Poll = 2
  ExpPeriod = 3
  Work = 1
  Starts = {0, 5}
  MaxQueue = 2
INVARIANTS
  ClosedInTime
  CutOffInTime
  DeadClientNoticed
  ExptimeKept
PROPERTY Terminates
CHECK_DEADLOCK FALSE
