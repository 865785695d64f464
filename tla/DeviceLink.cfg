SPECIFICATION ConnectionSpec
CONSTANTS
  Conns = {c1, c2}
  RequireTls = FALSE
  Posts = {p1, p2}
  Jobs = {j1, j2}
  MaxMints = 2
  Models = {m0, m1}
  Default = m0
  Slots = 1
  MaxTasks = 3
  MaxEdits = 1
  NoModel = NoModel
SYMMETRY Symmetry
INVARIANTS
  RegisteredIsShown
  NeverDeletedIsAdmitted
  ConfigReaches
  ReadyIsReal
  FollowsConfig
CHECK_DEADLOCK FALSE
