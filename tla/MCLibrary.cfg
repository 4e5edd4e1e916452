SPECIFICATION LibrarySpec
CONSTANTS
  Bytes = {b1, b2}
  BufferSize = 4
  Pools = {p1, p2}
  Nodes = {n1, n2, n3}
  Null = null
  Packets = {q1, q2}
  Octets = {b1, b2}
  Sizes = {1, 2}
  MaxSize = 2
  Files <- MCFiles
  Again <- MCAgain
  Names <- MCNames
  MaxTextSize = 3
  Cases = {c1, c2}
  Types = {"char", "short"}
  FieldNames = {f, g}
  NoText = notext
  Width <- MCWidth
  Units = {b1, b2}
  Room = 3
  MaxRows = 3
  Threads = {t1}
  Tags = {g1, g2}
  Elapsed = {0, 1, 3}
  LongLongMax = 9
  ProfileMax = 1
  MaxCalls = 5
  MaxNest = 2
  MaxCount = 2
INVARIANTS
  LibraryTypeOK
  RecvPartsAreFree
  PoolExact
  FindsWhatIsWritten
  GeneratedAgree
  ProfileExact
PROPERTIES
  ImplementsFifo
  ImplementsStore
  ImplementsStream
CHECK_DEADLOCK FALSE
