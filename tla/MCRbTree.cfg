CONSTANTS
  n1 = n1
  n2 = n2
  n3 = n3
  n4 = n4
  n5 = n5
  n6 = n6
  Nodes <- MCNodes
  nullptr = nullptr
  Keys = {1, 2, 3}
SYMMETRY Interchangeable
SPECIFICATION Spec
INVARIANTS
  LinksSound
  SearchFinds
  RedBlack
  FixupEnds
PROPERTY ImplementsBag
CHECK_DEADLOCK FALSE
