CONSTANTS
  o1 = o1
  o2 = o2
  l1 = l1
  l2 = l2
  Default = Default
  Oids = {o1, o2}
  Locators = {l1, l2, o1}
  MaxListed = 3
SPECIFICATION IndexSpec
INVARIANT
  ListsByLocator
