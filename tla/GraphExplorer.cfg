SPECIFICATION BoundedSpec
CONSTANTS
  Unconditional = {}
  MaxVersion = 2
  MaxChanges = 1
  MaxClicks = 3
  MaxEdges = 1
  GraphAt <- MCGraphAt
  Matches <- MCMatches
INVARIANTS
  ViewIsTrue
  CanvasIsCurrent
  RefreshReachesView
CHECK_DEADLOCK FALSE
