SPECIFICATION Spec
CONSTANTS
  o1 = o1
  o2 = o2
  d1 = d1
  d2 = d2
  p1 = p1
  p2 = p2
  p3 = p3
  w1 = w1
  w2 = w2
  NULL = NULL
  Order = {o1}
  Driver = {d1, d2}
  Plan = {p1, p2}
  Worker = {w1, w2}
  Days = 2
  OrtoolsPlanner = TRUE
  Uuid4Imported = TRUE
  NModes = 2
  Jobs = {"options", "multiday", "replan", "confirm", "delete"}
  OrderDates = {2}
  PatchStatuses = {"PENDING"}
  StopInputs = {}
  DutyInputs = {}
  ActiveInputs = {FALSE}
  Removable = {d1, d2}
  Crashes = TRUE
  OnLeave <- NoLeave
SYMMETRY Symmetry
INVARIANT ForeignKeysHold
INVARIANT DriverBackedByStop
INVARIANT RecordedIsPublished
INVARIANT PendingIsPlannable
PROPERTY DryRunLeavesOrders
