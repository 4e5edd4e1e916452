SPECIFICATION FairSpec
CONSTANTS
  Workers = {w1, w2}
  Acceptor = acceptor
  NoFrame = noFrame
  Sessions = {s1}
  NoSession = noSession
  Conns = {c1}
  NoConn = noConn
  MaxMsgs = 3
  SendCap = 2
CHECK_DEADLOCK FALSE
PROPERTIES
  PeerCloseReleases
  QueuedIsSent
