SPECIFICATION BoundedSpec
CONSTANTS
  StepIds = {a, b, c, d}
  InitialSteps <- MCInitialSteps
  NoSteps = null
  NoText = notext
  MaxEdits = 1
  MaxSelected = 2
SYMMETRY Symmetry
INVARIANTS
  CanvasIsLinear
  
  RunOrderIsTheCanvas
PROPERTIES
  NoStepLosesItsGate
