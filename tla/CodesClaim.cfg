SPECIFICATION Spec
CONSTANTS
  Clients = {c1}
  MaxCodes = 2
  MaxAtOnce = 2
  MaxCrashes = 0
INVARIANTS VerifiedUserPassesGuard
CHECK_DEADLOCK FALSE
