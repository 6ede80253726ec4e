SPECIFICATION Spec
CONSTANTS
  Local = {l1, l2}
  Server = {s1, s2}
  NoWorkflow = none
  NoData = nodata
  MaxRuns = 1
  MaxInFlight = 1
SYMMETRY Symmetry
INVARIANTS
  TypeOK
  SavesAreOfOneWorkflow
PROPERTY
  BrowserIsKept
