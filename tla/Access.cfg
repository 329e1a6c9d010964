SPECIFICATION Spec
CONSTANTS
  Users = {u1}
  Permissions = {p1}
  Clients = {c1, c2}
  MaxRoles = 4
  Names = {"editor", "Admin"}
  MaxRequests = 2
  MaxWanted = 2
SYMMETRY Interchangeable
INVARIANTS TypeOK ChangesNeedRole HoldersAreNotForbidden
PROPERTIES ReplacedWholesale
CHECK_DEADLOCK FALSE
