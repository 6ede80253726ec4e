SPECIFICATION BoundedSpec
CONSTANTS
  Unconditional = {"obs-summary", "obs-hitl", "obs-inference"}
  MaxVersion = 2
  MaxChanges = 2
  Texts = {"x", "y"}
  Tools = {"t", "u"}
  EmptyAt = {0, 2}
  MaxCalls = 2
  MaxPolls = 2
PROPERTIES
  PagesTellTheTruth
  ShownCatchesUp
CHECK_DEADLOCK FALSE
