SPECIFICATION InputsSpec
CONSTANTS
  BuiltIn <- MCBuiltIn
  Installable <- MCInstallable
  OddSegment = {"say!"}
  Dashed = {"-v"}
  HelpWords <- MCHelpWords
  CallWords <- MCCallWords
  PricedId <- MCPricedId
  MaxCommandsTyped = 0
  Regular <- MCNone
  Word <- MCWord
  Quoted <- MCQuoted
  MaxStatements = 0
  MaxWritten = 1
INVARIANT CallsReturnTheUnion
CHECK_DEADLOCK FALSE
