SPECIFICATION BoundedSpec
CONSTANTS
  WS = {w1, w2}
  Poller = poller
  DoneWord = {}
  ErrWord = {}
  MaxFaults = 2
PROPERTIES
  PostsEnd
  OutcomesSurface
