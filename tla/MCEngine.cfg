SPECIFICATION Spec
CONSTANTS
  ToolCall = {c1, c2, c3}
  NoCall = NoCall
  MaxToolCalls = 2
  Timeout = 2
  OuterTimeout = 3
  MaxTime = 8
  OScope = {r, w}
  Candidates = 3
  Unnamed = Unnamed
  Operation <- MCOperation
  Presets <- MCPresets
  MaxTools = 2
  MaxOperations = 3
  Lexeme <- MCLexeme
  MaxLexemes = 4
  ErrorBody <- MCErrorBody
  Discoverable <- MCDiscoverable
  Query <- MCQuery
  Starts <- MCStarts
  Ends <- MCEnds
  Inside <- MCInside
  PageSize = 0
  MaxChanges = 1
  Field <- MCField
  MaxFields = 3
  Depth = 4
  github = github
  work = work
  home = home
  Task = {t1, t2}
  Slug = {github}
  Conn = {work, home}
  SlugOf <- MCSlugOf
  Name = {a, b}
  Record = {plugged, provider}
  Loaded = {plugged}
  Removable = {plugged, provider}
  ProviderRow = provider
  NoRow = NoRow
  MaxCatalogTools = 1
  MaxToolsPerConnection = 1
  Caller = {t1, t2}
  Value = {"red", "blue"}
  MaxId = 3
  Agent = {t1, t2}
  Plugin = {"openapi", "graphql", "mcp"}
  Stored <- MCStored
  StoredAsks <- MCStored
  Typed <- MCTyped
  MaxCoreMs = 1
  MaxCoreCalls = 2
  BuiltIn <- MCBuiltIn
  Installable <- MCInstallable
  OddSegment = {"say!"}
  Dashed = {"-v"}
  HelpWords <- MCHelpWords
  CallWords <- MCCallWords
  PricedId <- MCPricedId
  MaxCommandsTyped = 3
  Regular <- MCRegular
  Word <- MCWord
  Quoted <- MCQuoted
  MaxStatements = 2
  MaxWritten = 2
SYMMETRY Symmetry
INVARIANTS ScriptsAreReported RefusalIsFinal
  OperationsReachTheServer ScopeErrorsAreRead PagesAreTheRanking
  CatalogIsWhole MemoryKeepsTheLimit
  LoneRefsResolve AtomicReplace
  CallsRunWhatWasNamed ScriptsRunAsWritten
PROPERTIES UnaskedCallsChangeNothing AcceptedCallsRunAsShown
CHECK_DEADLOCK FALSE
