SPECIFICATION Spec
CONSTANTS
  Names <- MCNames
  DepLists <- MCDepLists
  Threads = 2
  MayWedge = {}
  Exceptions = {}
  MaxAccesses = 1
  CounterMod = 4
INVARIANTS
  TrafficOfBatch
