\* One run of the program, in which one file operation fails.
CONSTANTS
  NumAlgos = 2
  WarmupSize = 1
  DatasetSize = 2
  MinRules = 1
  MaxRules = 2
  GrowthFactor = 2
  MaxRuns = 1
  MaxFaults = 1
SPECIFICATION Spec
INVARIANT SaveErrorsReported
