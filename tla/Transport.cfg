SPECIFICATION FairSpec
CONSTANTS
  Sockets = {w1, w2}
  Senders = {t1}
  NoSocket = NoSocket
  MaxQueue = 1
  MaxConnections = 1
  MaxPerPeer = 1
  MaxConns = 2
  MaxFrames = 3
  MaxHttpFrames = 2
INVARIANT NoGap
INVARIANT NoLostWakeup
INVARIANT SlotsMatch
INVARIANT ClosedOnce
PROPERTY Delivered
