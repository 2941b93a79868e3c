----------------------------- MODULE MCReports -----------------------------
EXTENDS Reports

MCAlgorithms == {"A", "B"}
\* With units of 2, 3 and 4 a time of 24 is a minute.
MCTotals == {0, 1, 2, 5, 6, 23, 24, 31}
MCTimes == {0, 3}
=============================================================================
