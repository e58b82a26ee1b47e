SPECIFICATION FairSpec
CONSTANTS
  Conns = {c1}
  Ids = {i1}
  Events = {e1}
  Pumps = {p1}
  Deliverers = {d1}
  svc = svc
  NoSub = NoSub
  Limit = 1
  BindMayFail = FALSE
  MayStop = TRUE
  GuardReenters = TRUE
  MaxSids = 2
  MaxLosses = 1
  MaxEvents = 1
INVARIANT OnlyDeliveriesRemain
INVARIANT RegisteredIsHeld
PROPERTY SubscribeAnswered
