SPECIFICATION FairPySpec
CONSTANTS
  Names = {1, 2, 3}
  DepLists <- MCDepLists
  Threads = 2
  MayWedge = {}
  Exceptions = {"std"}
  MaxAccesses = 0
  CounterMod = 1
  TickMod = 32
  Script <- MCScript
  Latency = 2
  Polls = 2
  Labelling = {2, 3}
  MaxRuns = 2
INVARIANTS
  LogIsBusOrder
  LabelOfBatch
  BringUpVerdicts
  NoDanglingAccess
  GilHolderGoesOn
PROPERTIES
  PyRunReturns
CHECK_DEADLOCK FALSE
