SPECIFICATION Spec
CONSTANTS
  Clients = {c1, c2, c3}
  Kinds = {"signIn", "reset", "logout"}
  MaxActive = 2
  MaxSessions = 5
  MaxExpired = 1
  MaxRollbacks = 1
SYMMETRY Interchangeable
INVARIANTS TypeOK AtMostMaxActive
PROPERTIES ResetLeavesNone ImplementsSessionList
CHECK_DEADLOCK FALSE
