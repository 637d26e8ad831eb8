CONSTANTS
  p1 = p1
  p2 = p2
  c1 = c1
  n1 = n1
  n2 = n2
  n3 = n3
  n4 = n4
  NULL = NULL
  Pushers = {p1, p2}
  Poppers = {c1}
  Nodes = {n1, n2, n3, n4}
  NumItems = 2
SPECIFICATION FairSpec
INVARIANTS
  Inv
  AllCounted
PROPERTIES
  StackSpec
  PushesComplete
