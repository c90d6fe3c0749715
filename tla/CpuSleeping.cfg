SPECIFICATION LiveSpec
CONSTANTS
  Quarter = 1
  Vectors = {"2HZ", "ALARM"}
  Sources = {"TIMER"}
  Instructions <- MCSleeping
  Disciplined = TRUE
  CommandKinds = {"gated"}
  MaxBatch = 1
  MaxTicks = 1
  MaxFrames = 2
  MaxCommands = 1
PROPERTIES StatusSignalled VectorsServed TransfersInterruptNothing
