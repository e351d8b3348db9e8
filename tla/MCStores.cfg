SPECIFICATION StoresSpec
CONSTANTS
  Task = {t1, t2}
  Id = {i1, i2}
  Key = {k1}
  NoId = NoId
  NoKey = NoKey
  MaxInFlight = 2
  MaxPolls = 1
  SqliteStore = FALSE
  OauthTool = FALSE
  Policies = {"require", "block"}
  Choices = {"none", "always"}
  MaxCrashes = 0
SYMMETRY Symmetry
INVARIANTS PausesAreDecidedOnce NoRunUnderStandingBlock RunNeedsApproval OneOwnerPerKey
CHECK_DEADLOCK FALSE
