SPECIFICATION GraphSpec
CONSTANTS
  Unconditional = {}
  MaxVersion = 1
  MaxChanges = 2
  MaxClicks = 2
  MaxEdges = 1
  GraphAt <- MCGraphAt
  Matches <- MCMatches
PROPERTY
  ComebackRefetches
CHECK_DEADLOCK FALSE
