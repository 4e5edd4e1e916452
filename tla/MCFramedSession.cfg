SPECIFICATION MCFramedSpec
CONSTANTS
  MsgSize = 3
  MaxFrames = 6
  RecvQSize = 12
  SendQSize = 11
  Bytes <- MCBytes
  Msgs <- MCMsgs
CHECK_DEADLOCK FALSE
INVARIANTS
  FramedTypeOK
  HandledAsSent
  NothingWholeWaits
  EchoedAsQueued
  PartsAreKept
PROPERTY AllServed
