CONSTANTS
  None = None
  root = root
  t1 = t1
  t2 = t2
  r1 = r1
  r2 = r2
  Users = {root}
  Admin = root
  Tokens = {t1, t2}
  SessionTimeout = 1
  MaxInstant = 2
  MaxParsed = 2
  MaxTime = 3
  ClockMayStepBack = FALSE
  EditRoles = {"operator"}
  Requests = {r1, r2}
  RouterBuilds = TRUE
  Guarded = {"ManageTickets"}
INIT Init
NEXT Next
SYMMETRY Symmetry
INVARIANTS TypeOK GrantedWithinRequest RefusedForCause LogoutIsFinal
PROPERTIES DeadTokensStayDead PoisonFailsClosed
