CONSTANTS
  p1 = p1
  p2 = p2
  n1 = n1
  n2 = n2
  n3 = n3
  n4 = n4
  NULL = NULL
  Producers = {p1, p2}
  Nodes = {n1, n2, n3, n4}
  PerThread = 2
SPECIFICATION TestSpec
INVARIANTS
  Inv
  NoUseAfterFree
  FalseOnlyWhenDrained
  AllCounted
PROPERTIES
  QueueSpec
  EveryPushIsPopped
