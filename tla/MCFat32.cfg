CONSTANTS
  a = a
  b = b
  d = d
  other = other
  SectorSize = 2
  SectorsPerCluster = 2
  FatPerSector = 2
  CacheSize = 2
  MaxHandles = 2
  Word = 64
  Reserved = 1
  DataLba = 7
  LbaOffset = 1
  PartSize = 27
  RootLba = 7
  EndOfChain = 60
  Fat <- MCFat
  Sectors <- MCSectors
  Chains <- MCChains
  Paths <- MCPaths
  ShortNames <- MCShortNames
  Lengths = {5}
SPECIFICATION Spec
INVARIANTS
  TypeOK
  BytesInOrder
  HandlesAccounted
  CasheHolds
CHECK_DEADLOCK FALSE
