CONSTANTS
  Strings = {s1, s2}
  Optionals = {o1, o2}
  Temp = tmp
  Slots = {s1, s2, o1, o2, tmp}
  Addrs = {a1, a2, a3}
  Texts <- TwoTexts
  NULL = NULL
  Raw = Raw
  Free = Free
  Files = {f1, f2, f3}
  NoStream = NoStream
  NoFile = NoFile
  NoWorker = NoWorker
  Streams = {h1, h2, h3}
  Ptrs = {p1, p2, p3, p4}
  Workers = {w1, w2}
  Tasks = {1, 2, 3}
  Garbage = Garbage
  Default = Default
  Oids = {i1, i2}
  Locators = {l1, i1}
  MaxListed = 3
SPECIFICATION Spec
CHECK_DEADLOCK FALSE
INVARIANTS
  NothingLost
  StreamsOwned
  PtrInv
  SemaphoreInv
  IndexInv
PROPERTIES
  ValueSemantics
  EveryCallServed
