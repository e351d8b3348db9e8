SPECIFICATION Spec
CONSTANTS
  Task = {t1, t2}
  Id = {i1, i2}
  Key = {}
  NoId = NoId
  NoKey = NoKey
  MaxInFlight = 2
  MaxPolls = 1
  SqliteStore = TRUE
  OauthTool = FALSE
  Policies = {"require"}
  Choices = {"none", "session", "always"}
  MaxCrashes = 0
SYMMETRY Symmetry
INVARIANT SingleUse
CHECK_DEADLOCK FALSE
