\* One warm-up call and two measured ones, a pipe of two lines, one Python process that dies.
CONSTANTS
  Graphs <- MCGraphs
  Warmups = 1
  Calls = 3
  Capacity = 2
  MaxDeaths = 1
SPECIFICATION FairSpec
INVARIANTS
  WholeGraph
  TimesAreReal
  CanonizesAlone
PROPERTIES
  CallEnds
  NoOrphan
