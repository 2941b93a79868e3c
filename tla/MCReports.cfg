\* Two reports of two algorithms; units small enough for the minutes to show.
CONSTANTS
  Algorithms <- MCAlgorithms
  Times <- MCTimes
  Totals <- MCTotals
  MaxReports = 2
  Million = 2
  Thousand = 3
  Sixty = 4
SPECIFICATION Spec
INVARIANTS
  StatsMatchReports
  FormatReadsBack
