SPECIFICATION FairSpec
CONSTANTS
  Local = {l1, l2}
  Server = {s1}
  NoDecision = nodecision
  NoData = nodata
  UndoWindow = 1
  MaxInFlight = 2
INVARIANTS
  TypeOK
  LastDecisionStands
PROPERTIES
  ImplementsLifecycle
  OverdueIsSwept
  DecidedLeavesQueue
