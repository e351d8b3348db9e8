SPECIFICATION LiveSpec
CONSTANTS
  Task = {t1, t2}
  Id = {i1}
  Key = {k1}
  NoId = NoId
  NoKey = NoKey
  MaxInFlight = 1
  MaxPolls = 2
  SqliteStore = TRUE
  OauthTool = TRUE
  Policies = {"approve", "require", "block"}
  Choices = {"none", "session", "always"}
  MaxCrashes = 1
  PipeSize = 2
  RequestSize = 2
  ReadTimeout = 2
  Resolver = {t1, t2}
  Caller = {t1, t2}
  MaxOutput = 2
  CommandTimeout = 1
  Subject = {s1}
  SignupGrant = 3
  MaxI64 = 100
  Endpoint = {"find"}
  Provider = {"hunter"}
  Catalog <- SeedCatalog
  NoPrice = NoPrice
  NoChild = NoChild
  NoReply = NoReply
  Amounts = {2}
  MaxIds = 3
  MaxOrdered = 0
INVARIANTS PermitAccounting RepliesAreDurable RepliesAreTheServers
PROPERTIES AdmittedCallsEnd RequestsEnd BackendCallsEnd ImplementsPrepaid HoldsEnd
CHECK_DEADLOCK FALSE
