SPECIFICATION Spec
CONSTANTS
  w1 = w1
  w2 = w2
  a1 = a1
  a2 = a2
  a3 = a3
  e1 = e1
  e2 = e2
  n1 = n1
  n2 = n2
  r1 = r1
  r2 = r2
  r3 = r3
  NULL = NULL
  Worker = {w1, w2}
  Account = {a1, a2, a3}
  Founder = a1
  Email = {e1, e2}
  Name = {n1, n2}
  Row = {r1, r2, r3}
SYMMETRY Symmetry
INVARIANT TypeOK
INVARIANT SettingsBounded
PROPERTY LastAdmin
