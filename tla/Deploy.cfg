SPECIFICATION FairSpec
CONSTANTS
  Jobs = {j1, j2}
  Versions = {v0, v1, v2, vBad}
  Releases = {v2, vBad}
  Good = {v0, v1, v2}
  Factory = v1
  Older = v0
  Kinds = {"update", "rollback", "secure"}
  MaxDrops = 1
  None = None
INVARIANTS Recoverable ShellPlaneFreed
PROPERTIES JobsEnd
CHECK_DEADLOCK FALSE
