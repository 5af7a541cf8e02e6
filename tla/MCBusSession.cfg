SPECIFICATION FairSessionSpec
CONSTANTS
  Links = {"a", "b", "c"}
  Kinds <- MCKinds
  TestNames <- MCTestNames
  Unlabelled = "<none>"
  Requests <- MCRequests
  Budgets <- MCBudgets
  MaxNow = 1
  Slots = {"s", "u"}
  Buffers = {"x", "y"}
  Sizes = {0, 1}
  Mappers = {"c"}
INVARIANTS
  BusTypeOK
  LogMatchesBus
  StampsOrdered
  NoHolesInFile
  EveryCallBilled
  OneOwner
  ReadsInBounds
PROPERTIES
  ImplementsLog
  MappingsEnd
