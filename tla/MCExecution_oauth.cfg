SPECIFICATION Spec
CONSTANTS
  Task = {t1, t2}
  Id = {i1, i2}
  Key = {}
  NoId = NoId
  NoKey = NoKey
  MaxInFlight = 2
  MaxPolls = 1
  SqliteStore = FALSE
  OauthTool = TRUE
  Policies = {"require"}
  Choices = {"none", "session", "always"}
  MaxCrashes = 0
INVARIANT PausedReplyIsResumable
CHECK_DEADLOCK FALSE
