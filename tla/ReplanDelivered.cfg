SPECIFICATION Spec
CONSTANTS
  o1 = o1
  o2 = o2
  d1 = d1
  d2 = d2
  p1 = p1
  p2 = p2
  p3 = p3
  w1 = w1
  w2 = w2
  NULL = NULL
  Order = {o1}
  Driver = {d1}
  Plan = {p1, p2}
  Worker = {w1, w2}
  Days = 1
  OrtoolsPlanner = FALSE
  Uuid4Imported = FALSE
  NModes = 2
  Jobs = {"day", "replan", "report"}
  OrderDates = {1}
  PatchStatuses = {"CANCELLED"}
  StopInputs = {"DELIVERED"}
  DutyInputs = {}
  ActiveInputs = {}
  Removable = {}
  Crashes = FALSE
  OnLeave <- NoLeave
SYMMETRY Symmetry
PROPERTY DeliveredLockedIn
