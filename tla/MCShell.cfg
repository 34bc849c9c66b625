CONSTANTS
  root = root
  n1 = n1
  n2 = n2
  Nodes <- MCNodes
  Root = root
  FsRoot = n2
  NoNode = NoNode
  NoName = NoName
  a = a
  b = b
  gap = gap
  Names <- MCNames
  Bytes <- MCBytes
  MaxDepth = 2
  MaxSize = 3
  Args <- MCArgs
  Says <- MCSays
  HelpLines <- MCHelpLines
  Newline = gap
  Space = gap
  ErrorText = gap
  MaxTyped = 2
SYMMETRY Interchangeable
SPECIFICATION ShellSpec
INVARIANTS
  ShellTypeOK
  TruncateShows
  AppendKeeps
PROPERTIES
  SavedIsTyped
  PwdStays
CHECK_DEADLOCK FALSE
