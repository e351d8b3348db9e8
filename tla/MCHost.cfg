SPECIFICATION Spec
CONSTANTS
  c1 = c1
  c2 = c2
  home = home
  Cli = {a, b}
  Pid = {1, 2}
  Port = {d, x}
  DefaultPort = d
  MaxAttempts = 2
  None = None
  Neighbour = Neighbour
  Client = {c1, c2}
  Slug = {home}
  McpTool = {t1}
  Url <- MCUrls
  Nil = Nil
  MaxSessions = 2
  Device = {a, b}
  MaxGrants = 1
  GrantTtl = 3
  MaxMs = 3
  Editor = {a, b}
  NewRule <- MCNewRule
  Edit <- MCEdit
  Keep = Keep
  ToolPath <- MCToolPath
  Dynamic <- MCDynamic
  AsksByDefault <- MCAsks
  MaxClock = 1
  MaxEdits = 3
  OrgRequest = {a, b}
  Team = {local, team1, team2}
  LocalTeam = local
  Person = {me, guest}
  LocalSubject = me
  Role = {"owner", "viewer"}
  MaxOwnedOrgs = 2
  MaxOrgRequests = 3
  Command = {a, b}
  ProfileName = {n1, n2}
  Origin = {"o1", "o2"}
  NoProfile = NoProfile
  Missing = Missing
  Empty = Empty
  Torn = Torn
  MaxCommands = 3
  MaxExecutions = 3
  MaxRepeats = 1
  Writer = {a, b}
  Body = {d, x}
  Candidate = {n1, n2}
  NoDocument = NoDocument
  MaxVotes = 3
  MaxFrames = 3
  Caller = {a, b}
  Subject = {s1}
  SignupGrant = 3
  MaxI64 = 4
  Endpoint = {"find", "routed"}
  Provider = {"hunter", "treg"}
  Catalog <- SeedCatalog
  NoPrice = NoPrice
  NoChild = NoChild
  NoReply = NoReply
  Amounts = {2}
  MaxIds = 2
  MaxOrdered = 2
SYMMETRY Symmetry
INVARIANTS LoneCommandsGetTheirDaemon AnswersFollowTheUrl ApprovalDecides
  EditsStandInOrder AcceptedIsNotAskedAgain TeamsAreKept ProfilesAreKept
  AnswersAreHeard RetriesRunOnce UndisturbedEditsStand FramesAreAnswered
  MoneyConserved HoldsMatchCalls ReplyStatesTheCharge
PROPERTIES OuterBlockStands
CHECK_DEADLOCK FALSE
