SPECIFICATION LockedSpec
CONSTANTS
  Producers = {p1}
  Consumers = {c1}
  NoThread = noThread
  BufferSize = 3
  MaxCall = 4
  MaxBytes = 9
CHECK_DEADLOCK FALSE
INVARIANT ThreadSafe
