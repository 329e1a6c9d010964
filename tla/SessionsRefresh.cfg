SPECIFICATION FairSpec
CONSTANTS
  Clients = {c1, c2}
  Kinds = {"signIn", "refresh", "reset", "logout"}
  MaxActive = 2
  MaxSessions = 6
  MaxExpired = 0
  MaxRollbacks = 0
INVARIANTS ExcessIsBounded
PROPERTIES RequestsEnd
CHECK_DEADLOCK FALSE
