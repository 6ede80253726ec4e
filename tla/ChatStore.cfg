SPECIFICATION FairSpec
CONSTANTS
  Conversations = {c1, c2}
  Sends = {s1, s2, s3}
  Null = null
INVARIANTS
  TypeOK
  ShownIsStoppable
  AloneIsShown
  UnsettledIsUnfinished
PROPERTIES
  StopTakesEffect
