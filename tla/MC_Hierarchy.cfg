SPECIFICATION Spec
CONSTANTS
  c1 = c1
  c2 = c2
  a1 = a1
  a2 = a2
  Customers <- OneCustomer
  Assets <- MCAssets
  MaxLevel = 1
  Hierarchies <- AnyLevels
  MaxFaults = 3
  NoRequest = NoRequest
SYMMETRY SymmetricAssets
INVARIANTS
  TypeOK
  StoresAgree
  RowLosesLevelOnlyByOverlap
  TreeIntact
CHECK_DEADLOCK FALSE
