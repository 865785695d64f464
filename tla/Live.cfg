SPECIFICATION LiveSpec
CONSTANTS
  Wakes = {w1}
  Follows = {f1}
  Announces = {}
  MaxFaults = 1
  None = None
  Periods = 2
  Prime = 2
  Depth = 2
  MaxStreams = 2
  MaxCancels = 1
  MaxDrops = 1
INVARIANTS FlushIsSilent
PROPERTIES LifeHolds Freed LeaseEnds
CHECK_DEADLOCK FALSE
