SPECIFICATION MCSpec
CONSTANTS
  Ids = {0, 1, 2, 3}
  Root = 0
  Depth = 4
  MaxJoins = 6
  NoData = NoData
  Names <- MCNames
  Pairs <- MCPairs
INVARIANTS TypeOK StatsAgree DiffIsExact EveryKeyAccounted
PROPERTY DiffReturns
CHECK_DEADLOCK FALSE
