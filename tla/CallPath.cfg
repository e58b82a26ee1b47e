SPECIFICATION FairSpec
CONSTANTS
  svc = svc
  Pumps = {p1, p2}
  Upstreams = {u1}
  MaxInFlight = 2
  MaxBodies = 2
INVARIANT AnsweredOnceAndWhole
INVARIANT NoFlushWithoutServer
INVARIANT NothingForgotten
PROPERTY Answered
