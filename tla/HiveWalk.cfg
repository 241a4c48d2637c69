SPECIFICATION MCSpec
CONSTANTS
  Offsets = {1, 2, 3, 4, 11, 12, 13}
  NULL = 99
  Root = 1
  Hives <- MCHives
  Depth = 4
  MaxItems = 5
  MaxLists = 3
INVARIANTS TypeOK ReachesExactly WalkFollowsOrder
PROPERTY WalkEnds
CHECK_DEADLOCK FALSE
