SPECIFICATION ShutdownSpec
CONSTANTS
  Workers = {w1, w2}
  Conns = {c1, c2}
  NoSession = noSession
  MaxOps = 2
  MaxStops = 2
CHECK_DEADLOCK FALSE
INVARIANTS
  ShutdownTypeOK
  OnePillPerWorker
PROPERTY StopReturns
