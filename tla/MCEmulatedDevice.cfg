SPECIFICATION FairBlockSpec
CONSTANTS
  Inputs <- MCInputs
  Latencies = {0, 2, 3}
  TickMod = 32
  MaxTicks = 4
  MaxBlock = 2
INVARIANTS
  DeviceTypeOK
  StatusCoherent
  LatencyHonoured
  BlockIsItsWords
PROPERTIES
  InterruptsSurvive
  ImplementsDma
  PollingCompletes
