SPECIFICATION LockedSpec
CONSTANTS
  Producers = {p1, p2}
  Consumers = {c1}
  NoThread = noThread
  BufferSize = 2
  MaxCall = 2
  MaxBytes = 4
CHECK_DEADLOCK FALSE
INVARIANT ThreadSafe
