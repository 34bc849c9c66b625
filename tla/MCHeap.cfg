CONSTANTS
  MemoryMaps <- MCMaps
  BitsPerByte = 2
  BytesPerPage = 5
  PageCount = 2
  MajorHeader = 2
  MinorHeader = 1
  Overhead = 1
  Requests = {1, 2}
  MaxBlocks = 5
  MaxTables = 1
  MayExhaust = FALSE
SPECIFICATION Spec
INVARIANTS
  BlocksApart
  Accounting
  BestBetListed
  PagesAccounted
PROPERTIES
  GrowsOnlyWhenFull
  UsesAllocator
