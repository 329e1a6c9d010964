SPECIFICATION Spec
CONSTANTS
  Clients = {c1, c2}
  MaxCodes = 4
  MaxAtOnce = 3
  MaxCrashes = 2
SYMMETRY Interchangeable
INVARIANTS TypeOK CodeAdmitsOnce BlockIsEarned MailedCodesWork
PROPERTIES BlockedGeneratesNothing
CHECK_DEADLOCK FALSE
