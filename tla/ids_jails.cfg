CONSTANTS
  None = None
  Failed = Failed
  Parts = {"ids"}
  c1 = c1
  c2 = c2
  c3 = c3
  Calls = {c1, c2, c3}
  MCVersions = 2
  Contents <- MCContents
  Fresh = 0
  Statements = 1
  After <- MCAfter
  Threads = 2
  r0 = r0
  r1 = r1
  r2 = r2
  Slots = {r1, r2}
  OneSlot = {r0}
  MonSlots = {r0}
  MaxSamples = 3
  MaxDue = 1
  MaxTime = 2
  Limit = 2
  Mon = Mon
  t1 = t1
  t2 = t2
  t3 = t3
  n1 = n1
  n2 = n2
  Tasks = {t1, t2, t3}
  Names = {n1, n2}
  Built = {n1}
  Late = {n2}
  w1 = w1
  x1 = x1
  x2 = x2
  Junk = Junk
  Clients = {w1}
  Rules = {x1, x2}
  MaxNumber = 2
  a4 = a4
  a6 = a6
  Head6 = Head6
  Jails = {x1, x2}
  V4 = {a4}
  V6 = {a6}
  Directory = {x1, x2}
  MaxSize = 2
  Paths = {x1, x2}
  u1 = u1
  u2 = u2
  Units = {u1, u2}
  Loose = {u2}
  Absent = Absent
  Option = Option
  ListAtSecondColon = FALSE
  BareList = FALSE
  DashesFirst = TRUE
INIT MCInit
NEXT MCNext
SYMMETRY Symmetry
INVARIANTS OverviewsAreComplete
