SPECIFICATION DriverSpec
CONSTANTS
  Base = 2
  Half = 1
  Spare = 1
  BlockPages = 2
  ExtraPages = 2
  ForcedErase = TRUE
  Builds = {"debug", "release"}
  UsedPages <- MCUsedPages
  UsedBlocks <- MCUsedBlocks
  Images <- MCImages
  AddrBytes <- MCAddrBytes
  OtherCommands = {33}
  MaxCmd = 2
  MaxData = 1
  MaxReads = 2
INVARIANTS OperationsWork
CHECK_DEADLOCK FALSE
