SPECIFICATION Spec
CONSTANTS
  root = root
  admin = admin
  manager = manager
  other = other
  c1 = c1
  c2 = c2
  User = {root, admin, manager, other}
  Company = {c1, c2}
  Request = {r1, r2}
  None = None
  Gone = Gone
  Idle = Idle
  Staff <- MCStaff
  Firms <- MCFirms
  Grant <- MCGrant
  MaxRequests = 3
INVARIANTS ClaimsAreCurrent ClosedIsQuiet
PROPERTIES AuthorityIsGiven
SYMMETRY RequestSymmetry
CHECK_DEADLOCK FALSE
