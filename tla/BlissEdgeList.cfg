CONSTANTS
  Labels <- MCLabels
  Inputs <- SmallInputs
SPECIFICATION Spec
INVARIANT BlissGetsEdges
