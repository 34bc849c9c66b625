\* The heap is driven to where no run of pages is left.
CONSTANTS
  MemoryMaps <- MCMaps
  BitsPerByte = 2
  BytesPerPage = 5
  PageCount = 2
  MajorHeader = 2
  MinorHeader = 1
  Overhead = 1
  Requests = {4}
  MaxBlocks = 4
  MaxTables = 1
  MayExhaust = TRUE
SPECIFICATION Spec
INVARIANT MajorsOwnPages
