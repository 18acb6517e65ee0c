SPECIFICATION Spec
CONSTANTS
  o1 = o1
  o2 = o2
  o3 = o3
  w1 = w1
  w2 = w2
  ra = ra
  NULL = NULL
  Ref = {ra}
  Order = {o1, o2, o3}
  Worker = {w1, w2}
  SweepColumns = TRUE
  File <- Files
  MaxSends = 3
  MaxRows = 2
SYMMETRY Symmetry
CHECK_DEADLOCK FALSE
INVARIANT TypeOK
INVARIANT LogsBounded
INVARIANT OrdersAccounted
INVARIANT LinksBounded
