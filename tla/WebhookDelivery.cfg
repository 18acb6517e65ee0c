SPECIFICATION FairSpec
CONSTANTS
  wb = wb
  delivered = delivered
  ping = ping
  k1 = k1
  k2 = k2
  NoTask = NoTask
  Webhook = {wb}
  Event = {delivered, ping}
  Ping = {ping}
  Hears <- MCHears
  MaxRetries = 2
  Worker = {k1, k2}
  MaxFaults = 1
CHECK_DEADLOCK FALSE
INVARIANT TypeOK
INVARIANT PostsBounded
INVARIANT AcceptedOnce
INVARIANT FailureShown
PROPERTY ImplementsCourier
PROPERTY Settles
