SPECIFICATION FairSpec
CONSTANTS
  Names <- MCTwoNames
  DepLists <- MCTwoDepLists
  Threads = 2
  MayWedge = {2}
  Exceptions = {}
  MaxAccesses = 0
  CounterMod = 1
CHECK_DEADLOCK FALSE
PROPERTIES
  SuiteSurvivesHang
