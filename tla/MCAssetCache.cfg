SPECIFICATION Spec
CONSTANTS
  NULL = NULL
  a1 = a1
  a2 = a2
  a3 = a3
  a4 = a4
  Units = 11
  CacheN = 3
  Assets <- MCAssets
  SizeOf <- MCSizeOf
INVARIANTS
  TypeOK
  MemoryOwned
PROPERTIES
  KeepsRecent
CHECK_DEADLOCK FALSE
