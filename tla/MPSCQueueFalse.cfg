CONSTANTS
  p1 = p1
  p2 = p2
  p3 = p3
  n1 = n1
  n2 = n2
  n3 = n3
  n4 = n4
  n5 = n5
  NULL = NULL
  Producers = {p1, p2, p3}
  Nodes = {n1, n2, n3, n4, n5}
  PerThread = 2
SPECIFICATION Spec
SYMMETRY Symmetry
INVARIANT
  FalseMeansEmpty
