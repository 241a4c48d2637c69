SPECIFICATION FairSpec
CONSTANTS
  BaseBlock = 1
  BinAlign = 8
  HbinHeader = 1
  SizeField = 1
  SigLen = 2
  MinCell = 3
  MAX_RECOVERIES = 3
  MAX_SCAN_BYTES = 8
  Chains <- MCChains
  Cuts = {0, 2, 6}
  Files <- MCFiles
INVARIANT NamesItsCell
CHECK_DEADLOCK FALSE
