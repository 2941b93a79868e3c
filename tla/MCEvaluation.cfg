\* Two algorithms, data sets of three graphs, three sizes; the program is started
\* twice and one file operation fails.
CONSTANTS
  NumAlgos = 2
  WarmupSize = 1
  DatasetSize = 3
  MinRules = 1
  MaxRules = 4
  GrowthFactor = 2
  MaxRuns = 2
  MaxFaults = 1
SPECIFICATION FairSpec
INVARIANTS
  MeasuredAlone
  ResultsArePrefix
  LogsComparable
  AllAccountedFor
  LateWork
PROPERTIES
  LogsFrozen
  SummaryCloses
  KeepsContract
  RunEnds
