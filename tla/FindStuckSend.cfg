SPECIFICATION Spec
CONSTANTS
  Workers = {w1}
  Acceptor = acceptor
  NoFrame = noFrame
  Sessions = {s1}
  NoSession = noSession
  Conns = {c1, c2}
  NoConn = noConn
  MaxMsgs = 2
  SendCap = 2
CHECK_DEADLOCK FALSE
INVARIANT SendingIsReal
