SPECIFICATION Spec
CONSTANTS
  oa = oa ob = ob
  ra = ra rb = rb
  ta = ta tb = tb tc = tc
  slot = slot
  Offer = {oa, ob}
  Request = {ra, rb}
  OfferTenant <- MCOfferTenant
  RequestTenant <- MCRequestTenant
  OfferSlot <- MCOfferSlot
  RequestSlot <- MCRequestSlot
  DriverCount <- MCDriverCount
  OrdersPerDriver = 12
  OrderCount <- MCOrderCount
  Match = {m1, m2}
  Engine = {e1}
  High = {ra}
  Withdrawals = {oa}
  Lapsing = {oa, ob, ra, rb}
  Answers = {"ACCEPTED", "REJECTED"}
  Crashes = TRUE
INVARIANT TypeOK
INVARIANT CapacityCovers
PROPERTY ImplementsExchange
INVARIANT SoldNotReopened
