SPECIFICATION PartsSpec
CONSTANTS
  None = None
  WakeCaps = {c1, c2}
  StopCaps = {}
  Names = {1, 2, 3}
  Conns = {1, 2}
  QueueCapacity = 1
  UntriagedCap = 1
  MaxEvents = 2
  Custom = {u}
  Piper = {p}
  Google = {g}
  Files = {f}
  Folders = {d}
  Streams = {s}
  Rows = 2
  Mixes = {x1, x2}
  MaxKills = 1
  MaxEdits = 1
  Wakes = {}
  Follows = {}
  Announces = {a1, a2}
  Builds = {11, 29}
  MaxFaults = 2
  MaxBoots = 2
SYMMETRY Symmetry
INVARIANTS
  KeptOnce
  OptOutKeepsNothing
  TrainsOnWhatIsThere
  EveryQueryRuns
  BackedUpFirst

  
CHECK_DEADLOCK FALSE
