SPECIFICATION MCSpec
CONSTANTS
  r1 = r1
  r2 = r2
  r3 = r3
  i1 = i1
  i2 = i2
  Runs <- MCRuns
  Autonomous = {r3}
  Ids <- MCIds
  Nobody = nobody
CHECK_DEADLOCK FALSE
INVARIANTS
  TypeOK
  ExclusiveUntilUnlink
  ProposedIsRegistered
  ProposedOnce
  ReturnedIsProposed
PROPERTY
  RunsEnd
