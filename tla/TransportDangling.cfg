SPECIFICATION Spec
CONSTANTS
  Sockets = {w1, w2}
  Senders = {t1}
  NoSocket = NoSocket
  MaxQueue = 1
  MaxConnections = 1
  MaxPerPeer = 1
  MaxConns = 2
  MaxFrames = 2
  MaxHttpFrames = 1
INVARIANT PendingIsOpen
