SPECIFICATION AccessorSpec
CONSTANTS
  Inputs <- MCInputs
  Edits <- MCEdits
  Latencies = {2}
  TickMod = 32
  MaxTicks = 5
  MaxBlock = 1
INVARIANTS
  ClearsOnlyKnown
  FieldUpdateWhenAlone
