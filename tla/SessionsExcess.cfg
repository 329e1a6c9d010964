SPECIFICATION FairSpec
CONSTANTS
  Clients = {c1, c2}
  Kinds = {"signIn", "refresh"}
  MaxActive = 3
  MaxSessions = 6
  MaxExpired = 0
  MaxRollbacks = 0
INVARIANTS AtMostMaxActive
CHECK_DEADLOCK FALSE
