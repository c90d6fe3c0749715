SPECIFICATION NandSpec
CONSTANTS
  Base = 4
  Half = 2
  Spare = 1
  BlockPages = 4
  ExtraPages = 4
  ForcedErase = FALSE
  Builds = {"debug"}
  Images <- MCImages
  AddrBytes <- MCAddrBytes
  OtherCommands = {33}
  MaxCmd = 3
  MaxData = 6
  MaxReads = 7
PROPERTIES FlashPromise
CHECK_DEADLOCK FALSE
