SPECIFICATION FairSpec
CONSTANTS
  BaseBlock = 2
  LogHeader = 1
  SigLen = 1
  EntryHeader = 2
  RefLen = 1
  U32 = 64
  HiveLen = 7
  LogInputs <- Inputs
  RefSet <- OverlappingRefs
  SizeSlack = {0, 1}
  ZeroSizes = FALSE
PROPERTY ShowsEveryPage
CHECK_DEADLOCK FALSE
