SPECIFICATION Spec
CONSTANTS
  Keys = {1, 2, 3, 4, 5, 6, 7}
  Nil = nil
  MaxSpare = 1
  MaxSame = 2
  DemoKeys = {1, 2, 3, 4, 5}
  Centers = {400, 640}
  Erased = erased
INVARIANTS
  TreeTypeOK
  ParentsAgree
  Sorted
  RedBlack
  PictureIsTree
PROPERTIES
  ImplementsCountedSet
  BalancingReturns
