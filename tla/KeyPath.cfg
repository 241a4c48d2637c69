SPECIFICATION MCSpec
CONSTANTS
  Offsets = {1, 2, 3, 4, 5}
  NULL = 99
  Root = 1
  MaxHops = 2
  Components <- MCComponents
  Hives <- MCHives
  RootName <- MCRootName
  NameLen <- MCNameLen
  KeyCalls <- MCKeyCalls
  ValueCalls <- MCValueCalls
  MaxCalls = 3
INVARIANTS TypeOK RoundTrip CellsTile BuiltIsTree
PROPERTY CallsReturn
CHECK_DEADLOCK FALSE
