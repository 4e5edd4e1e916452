SPECIFICATION Spec
CONSTANTS
  Workers = {w1}
  Acceptor = acceptor
  NoFrame = noFrame
  Sessions = {s1, s2}
  NoSession = noSession
  Conns = {c1, c2}
  NoConn = noConn
  MaxMsgs = 3
  SendCap = 2
CHECK_DEADLOCK FALSE
SYMMETRY Symmetry
INVARIANTS
  TypeOK
  RefCountExact
  InUseIsActive
  IdsConserved
  RoutedToOwnSession
  AnswersOwn
  EchoInOrder
  InFlightIsKept
  OneRecv
  NoEmptySend
PROPERTY ImplementsService
