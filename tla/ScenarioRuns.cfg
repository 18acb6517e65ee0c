SPECIFICATION FairSpec
CONSTANTS
  r1 = r1
  k1 = k1
  k2 = k2
  NoTask = NoTask
  Run = {r1}
  Uuid4Imported = FALSE
  ApiFails = TRUE
  Worker = {k1, k2}
  MaxFaults = 3
CHECK_DEADLOCK FALSE
INVARIANT TypeOK
INVARIANT StatusTells
INVARIANT OneResultSet
INVARIANT DeletedLeavesNothing
PROPERTY RunsEnd
