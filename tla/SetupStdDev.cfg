\* Two reports.
CONSTANTS
  Algorithms <- MCAlgorithms
  Times <- MCTimes
  Totals <- MCTotals
  MaxReports = 2
  Million = 2
  Thousand = 3
  Sixty = 4
SPECIFICATION Spec
INVARIANT
  ColumnsAsAnnounced
