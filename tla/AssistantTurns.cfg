SPECIFICATION Spec
CONSTANTS
  w1 = w1
  w2 = w2
  ga = ga
  gb = gb
  gc = gc
  p1 = p1
  c1 = c1
  q1 = q1
  q2 = q2
  NULL = NULL
  Worker = {w1, w2}
  PlannerOf <- Planners
  Provider = {ga, gb, gc}
  Usable = {ga, gb}
  EnvProvider = gc
  Context <- Contexts
  MaxOrders = 1
  Plan = {p1}
  Conversation = {c1}
  Question = {q1, q2}
  MaxConfigs = 2
SYMMETRY Symmetry
CHECK_DEADLOCK FALSE
INVARIANT TypeOK
INVARIANT LogsTell
INVARIANT ProviderNamed
INVARIANT RepliesFollow
