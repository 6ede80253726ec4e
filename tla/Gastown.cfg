SPECIFICATION Spec
CONSTANTS
  WS = {w1, w2}
  Poller = poller
  DoneWord = {w1}
  ErrWord = {w2}
  MaxFaults = 1
INVARIANTS
  TypeOK
  OutcomeHasEvidence
  RunningIsStarted
  CleanIsDurable
PROPERTY
  CleanIsFinal
