SPECIFICATION Spec
CONSTANTS
  Task = {t1, t2}
  Id = {i1, i2}
  Key = {k1}
  NoId = NoId
  NoKey = NoKey
  MaxInFlight = 2
  MaxPolls = 2
  SqliteStore = FALSE
  OauthTool = FALSE
  Policies = {"require"}
  Choices = {"none", "session", "always"}
  MaxCrashes = 0
SYMMETRY Symmetry
INVARIANT OneOutcomePerKey
CHECK_DEADLOCK FALSE
