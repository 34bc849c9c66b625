CONSTANTS
  root = root
  fs = fs
  n1 = n1
  n2 = n2
  n3 = n3
  Nodes <- MCNodes
  Root = root
  FsRoot = fs
  NoNode = NoNode
  NoName = NoName
  a = a
  b = b
  Names <- MCNames
  Bytes = {1}
  MaxDepth = 2
  MaxSize = 2
SYMMETRY Interchangeable
SPECIFICATION Spec
INVARIANT ListsEnd
CHECK_DEADLOCK FALSE
