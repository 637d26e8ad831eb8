CONSTANTS
  w1 = w1
  w2 = w2
  w3 = w3
  Workers = {w1, w2, w3}
  NumTasks = 3
  Child <- Chain
SPECIFICATION Spec
INVARIANTS
  Inv
PROPERTIES
  QueueSpec
  EveryFutureReady
  MainReturns
