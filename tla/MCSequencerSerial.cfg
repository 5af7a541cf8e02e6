SPECIFICATION Spec
CONSTANTS
  Names <- MCTwoNames
  DepLists <- MCTwoDepLists
  Threads = 1
  MayWedge = {}
  Exceptions = {"std", "other"}
  MaxAccesses = 1
  CounterMod = 4
INVARIANTS
  TypeOK
  HonestVerdict
  ExactAccounting
