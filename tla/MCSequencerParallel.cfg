SPECIFICATION FairSpec
CONSTANTS
  Names <- MCNames
  DepLists <- MCDepLists
  Threads = 2
  MayWedge = {2}
  Exceptions = {"std"}
  MaxAccesses = 0
  CounterMod = 1
INVARIANTS
  DependenciesFinished
  NoOrphanThreads
  BoundedParallelism
  CompleteOrderedResults
CHECK_DEADLOCK FALSE
PROPERTIES
  ImplementsOrder
  RunReturns
