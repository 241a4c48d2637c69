SPECIFICATION Spec
CONSTANTS
  BaseBlock = 1
  SizeField = 2
  DbHeader = 2
  DbLink = 1
  LinkLen = 1
  InlineLen = 2
  BIG_DATA_THRESHOLD = 2
  BIG_DATA_SEGMENT_SIZE = 2
  NULL = NULL
  Inputs <- MCInputs
INVARIANT NoPanic
CHECK_DEADLOCK FALSE
