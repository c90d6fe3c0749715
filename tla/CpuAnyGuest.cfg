SPECIFICATION Spec
CONSTANTS
  Quarter = 1
  Vectors = {"2HZ", "ALARM"}
  Sources = {"TIMER"}
  Instructions <- MCAll
  Disciplined = FALSE
  CommandKinds = {"gated", "warm_reset", "cold_reset"}
  MaxBatch = 2
  MaxTicks = 2
  MaxFrames = 2
  MaxCommands = 1
INVARIANTS WakeIsSafe
PROPERTIES VectorsKept
