\* A kernel panic stops everything, so a behaviour may end.
CONSTANTS
  N = 2
  MaxKeys = 5
SPECIFICATION FairSpec
CHECK_DEADLOCK FALSE
INVARIANTS
  TypeOK
  UnreadIntact
  InOrderUnlessOverrun
  LosslessUnlessRaced
PROPERTY GetCharReturns
