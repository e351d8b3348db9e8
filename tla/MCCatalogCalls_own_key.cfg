SPECIFICATION CallsSpec
CONSTANTS
  Caller = {t1}
  Subject = {s1}
  SignupGrant = 3
  MaxI64 = 100
  Endpoint = {"find", "routed", "echo", "private"}
  Provider = {"hunter", "treg"}
  Catalog <- SeedCatalog
  NoPrice = NoPrice
  NoChild = NoChild
  NoReply = NoReply
  Amounts = {2}
  MaxIds = 3
  MaxOrdered = 0
INVARIANT OwnKeyIsFree
CHECK_DEADLOCK FALSE
