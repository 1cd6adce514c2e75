CONSTANTS
  l1 = l1
  l2 = l2
  l3 = l3
  l4 = l4
  i1 = i1
  i2 = i2
  Launches = {l1, l2, l3, l4}
  Id = {i1, i2}
  None = None
  CommandLines <- MCCommandLines
  Words <- MCWords
  MaxWords = 4
  MaxUInt = 7
  MaxThreads = 3
SPECIFICATION FairSpec
PROPERTY LaunchReturns
CHECK_DEADLOCK FALSE
