CONSTANTS
  None = None
  root = root
  t1 = t1
  r1 = r1
  Users = {root}
  Admin = root
  Tokens = {t1}
  SessionTimeout = 1
  MaxInstant = 100
  MaxParsed = 100
  MaxTime = 3
  ClockMayStepBack = FALSE
  EditRoles = {"operator"}
  Requests = {r1}
  RouterBuilds = TRUE
  Guarded = {"ManageTickets"}
INIT Init
NEXT Next
SYMMETRY Symmetry
INVARIANTS HigherRolesAreMorePrivileged
