SPECIFICATION Spec
SYMMETRY Symmetry
CONSTANTS
  Conns = {c1}
  Ids = {i1, i2}
  Events = {e1}
  Pumps = {p1, p2}
  Deliverers = {d1}
  svc = svc
  NoSub = NoSub
  Limit = 2
  BindMayFail = TRUE
  MayStop = FALSE
  GuardReenters = TRUE
  MaxSids = 2
  MaxLosses = 1
  MaxEvents = 1
INVARIANT OneOwnerPerId
INVARIANT TerminatedFreesId
INVARIANT ClosedOwnsNothing
INVARIANT NoIdLeaks
INVARIANT NeverResumed
INVARIANT FreshGeneration
PROPERTY KeepsContract
