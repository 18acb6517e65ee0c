SPECIFICATION Spec
CONSTANTS
  s1 = s1
  s2 = s2
  o1 = o1
  o2 = o2
  d1 = d1
  t1 = t1
  x1 = x1
  x2 = x2
  x3 = x3
  m1 = m1
  m2 = m2
  j1 = j1
  j2 = j2
  NULL = NULL
  Stop = {s1, s2}
  Order = {o1, o2}
  Driver = {d1}
  Day = {t1}
  OrderOf <- OrderOfStop
  DriverOf <- DriverOfStop
  DayOf <- DayOfStop
  Windowed = {o2}
  Report = {"DELIVERED", "FAILED"}
  Warning = {x1, x2, x3}
  Scanner = {m1, m2}
  Etl = {j1, j2}
  MaxRuns = 2
SYMMETRY Symmetry
CHECK_DEADLOCK FALSE
INVARIANT TypeOK
INVARIANT WarningsBounded
INVARIANT CountedOnce
INVARIANT ScoresBacked
