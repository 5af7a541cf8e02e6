SPECIFICATION BlockSpec
CONSTANTS
  Inputs <- MCInputs
  Latencies = {2, 31}
  TickMod = 32
  MaxTicks = 4
  MaxBlock = 2
INVARIANTS
  NeverEarly
