SPECIFICATION Spec
CONSTANTS
  c1 = c1
  c2 = c2
  a1 = a1
  a2 = a2
  Customers <- TwoCustomers
  Assets <- MCAssets
  MaxLevel = 1
  Hierarchies <- AllLevels
  MaxFaults = 0
  NoRequest = NoRequest
SYMMETRY SymmetricBoth
INVARIANTS
  TreeIntact
CHECK_DEADLOCK FALSE
