CONSTANTS
  None = None
  p1 = p1
  p2 = p2
  p3 = p3
  f1 = f1
  f2 = f2
  a1 = a1
  a2 = a2
  Procs = {p1, p2, p3}
  Files = {f1, f2}
  Ports = {a1, a2}
  Objects = 2
  Names = {}
  RouterBuilds = TRUE
INIT Init
NEXT Next
SYMMETRY Symmetry
INVARIANTS TypeOK ServersHaveTheSchema ToldPasswordWorks SomebodyServes
CHECK_DEADLOCK FALSE
