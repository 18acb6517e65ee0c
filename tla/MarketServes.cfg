SPECIFICATION FairSpec
CONSTANTS
  oa = oa ob = ob
  ra = ra rb = rb
  ta = ta tb = tb tc = tc
  slot = slot
  Offer = {oa, ob}
  Request = {ra, rb}
  OfferTenant <- MCOfferTenant
  RequestTenant <- MCRequestTenant
  OfferSlot <- MCOfferSlot
  RequestSlot <- MCRequestSlot
  DriverCount <- MCDriverCount
  OrdersPerDriver = 12
  OrderCount <- MCOrderCount
  Match = {m1, m2, m3}
  Engine = {e1, e2}
  High = {ra}
  Withdrawals = {oa}
  Lapsing = {oa, rb}
  Answers = {}
  Crashes = FALSE
INVARIANT SalesBounded
PROPERTY PairsServed
PROPERTY RequestsArchived
