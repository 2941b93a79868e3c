\* Every native call on every query graph with at most three nodes and two
\* edges, with every order of the colour classes, and every pair of them.
CONSTANTS
  Labels <- MCLabels
  Inputs <- SmallInputs
SPECIFICATION Spec
INVARIANTS
  SameColoring
  SameGraph
  TransformsReflect
