SPECIFICATION FairSpec
CONSTANTS
  BaseBlock = 2
  LogHeader = 1
  SigLen = 1
  EntryHeader = 2
  RefLen = 1
  U32 = 64
  HiveLen = 7
  LogInputs <- Inputs
  RefSet <- TiledRefs
  SizeSlack = {0, 1}
  ZeroSizes = FALSE
INVARIANTS TypeOK PagesComeFromLogs BaseBlockPreserved
PROPERTIES ShowsEveryPage Returns
CHECK_DEADLOCK FALSE
