CONSTANTS
  c1 = c1
  c2 = c2
  Callers = {c1, c2}
  MemoryMaps <- MCMaps
  BitsPerByte = 2
  BytesPerPage = 4
  RunLengths = {1, 2, 3}
SPECIFICATION Spec
SYMMETRY Symmetry
INVARIANTS
  HeldApart
  OnlyMemory
  NothingLost
