CONSTANTS
  Node = {n1, n2, n3}
  Other = other
  NULL = NULL
  MaxIndex = 4
SPECIFICATION FairSpec
INVARIANT ListAsSequence
PROPERTY CallsReturn
