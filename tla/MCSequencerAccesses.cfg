SPECIFICATION Spec
CONSTANTS
  Names <- MCTwoNames
  DepLists <- MCTwoDepLists
  Threads = 2
  MayWedge = {}
  Exceptions = {}
  MaxAccesses = 1
  CounterMod = 4
INVARIANTS
  ExactAccounting
