SPECIFICATION SecretsSpec
CONSTANTS
  Caller = {c1, c2}
  Value = {"red", "blue"}
  MaxId = 2
INVARIANTS StoredSecretsSurvive
CHECK_DEADLOCK FALSE
