CONSTANTS
  None = None
  root = root
  ann = ann
  t1 = t1
  r1 = r1
  Users = {root, ann}
  Admin = root
  Tokens = {t1}
  SessionTimeout <- Wrapped
  MaxInstant = 2
  MaxParsed = 2
  MaxTime = 3
  ClockMayStepBack = TRUE
  EditRoles = {"operator"}
  Requests = {r1}
  RouterBuilds = TRUE
  Guarded = {"ManageTickets"}
SPECIFICATION Spec
INVARIANTS TokenNamesItsUser LogoutIsFinal GrantedWithinRequest
PROPERTIES DatabaseAnswers
