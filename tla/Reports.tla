------------------------------ MODULE Reports ------------------------------
(***************************************************************************)
(* The measurements of one data set: RuntimeReport, the running statistics *)
(* ReportSummaryStatistics keeps next to the reports, the line of the      *)
(* closing table it writes, and the formatting of a time.                  *)
(*                                                                         *)
(* Times are natural numbers of nanoseconds.  An average is the fraction   *)
(* <<sum, count>>; a sample standard deviation stands for its square, the  *)
(* fraction <<sum of the squares of (count * x - sum), count^2 (count-1)>>.*)
(***************************************************************************)
EXTENDS Sums, SequencesExt, FiniteSetsExt

CONSTANTS
  Algorithms,  \* algorithms a report can be of
  Times,       \* the times a binding returns
  Totals,      \* the total times Algorithm.time measures
  MaxReports,  \* bound: reports added
  Million, Thousand, Sixty  \* the units of formatNanos

ASSUME ReportsAssumption ==
  /\ Times \subseteq Nat /\ Totals \subseteq Nat /\ MaxReports \in Nat
  /\ {Million, Thousand, Sixty} \subseteq Nat \ {0}

NoAlgo == "null"

VARIABLES
  algo,     \* the algorithm of the first report
  stats,    \* the statistics of each field: their count and sum
  reports,  \* the reports themselves
  thrown    \* addReport threw an IllegalArgumentException

vars == <<algo, stats, reports, thrown>>

Fields == {"setup", "native", "canon", "other", "total"}

Init ==
  /\ algo = NoAlgo
  /\ stats = [f \in Fields |-> [count |-> 0, sum |-> 0]]
  /\ reports = << >> /\ thrown = FALSE

\* getOtherTime: never negative, although timers vary.
OtherTime(times, total) ==
  Max({0, total - times.setup - times.native - times.canon})

Report(a, times, total) ==
  [algo |-> a, setup |-> times.setup, native |-> times.native,
   canon |-> times.canon, other |-> OtherTime(times, total), total |-> total]

Accept(r) ==
  stats' = [f \in Fields |-> [count |-> stats[f].count + 1,
                              sum |-> stats[f].sum + r[f]]]

\* Mutant: the algorithms are compared after the statistics have been updated.
AddReportUnchecked(r) ==
  /\ Accept(r)
  /\ IF algo \in {NoAlgo, r.algo}
     THEN algo' = r.algo /\ reports' = Append(reports, r) /\ UNCHANGED thrown
     ELSE thrown' = TRUE /\ UNCHANGED <<algo, reports>>

AddReport(r) ==
  IF algo \in {NoAlgo, r.algo}
  THEN /\ algo' = r.algo
       /\ Accept(r)
       /\ reports' = Append(reports, r)
       /\ UNCHANGED thrown
  ELSE thrown' = TRUE /\ UNCHANGED <<algo, stats, reports>>

Add ==
  /\ Len(reports) < MaxReports
  /\ \E a \in Algorithms, total \in Totals,
        times \in [setup : Times, native : Times, canon : Times] :
       AddReport(Report(a, times, total))

Full == Len(reports) = MaxReports /\ UNCHANGED vars

Next == Add \/ Full

Spec == Init /\ [][Next]_vars

-----------------------------------------------------------------------------
Column(f) == [k \in DOMAIN reports |-> reports[k][f]]

Average(f) == <<stats[f].sum, stats[f].count>>

StdDev(f) ==
  LET n == stats[f].count
      deviation(x) == n * x - stats[f].sum
  IN <<SumOf([k \in DOMAIN reports |-> deviation(reports[k][f]) ^ 2]),
       n * n * (n - 1)>>

\* The columns of writeData, in the order in which it prints them.
WriteData ==
  <<Average("setup"), StdDev("native"), Average("native"), StdDev("native"),
    Average("canon"), StdDev("canon"), Average("other"), StdDev("other"),
    Average("total"), StdDev("total")>>

\* Mutant: the units are taken off in the wrong order.
FormatNanosSwapped(nanos) ==
  LET ms == nanos \div Million
      s == ms \div Sixty
  IN <<nanos % Million>> \o (IF ms > 0 THEN <<ms % Sixty>> ELSE << >>)
       \o (IF s > 0 THEN <<s % Thousand>> ELSE << >>)
       \o (IF s \div Thousand > 0 THEN <<s \div Thousand>> ELSE << >>)

\* The numbers formatNanos prints, last one first: ns, ms, s, m.
FormatNanos(nanos) ==
  LET ms == nanos \div Million
      s == ms \div Thousand
      m == s \div Sixty
  IN <<nanos % Million>> \o (IF ms > 0 THEN <<ms % Thousand>> ELSE << >>)
       \o (IF s > 0 THEN <<s % Sixty>> ELSE << >>)
       \o (IF m > 0 THEN <<m>> ELSE << >>)

-----------------------------------------------------------------------------
\* The statistics and the list of reports never disagree, also after a report
\* of another algorithm was refused: the averages in the log are those of its
\* raw data.
StatsMatchReports ==
  \A f \in Fields :
    /\ stats[f].count = Len(reports)
    /\ stats[f].sum = SumOf(Column(f))

\* A printed time reads back as the time it was.
FormatReadsBack ==
  \A r \in ToSet(reports) :
    LET units == <<1, Million, Million * Thousand, Million * Thousand * Sixty>>
        printed == FormatNanos(r.total)
    IN r.total = SumOf([k \in DOMAIN printed |-> printed[k] * units[k]])

\* The columns announced above the table (EvaluationResults.java:66) and by
\* writeData's own documentation: "setup avg, setup stddev, native setup avg,
\* native setup stddev, ...".
ColumnsAsAnnounced ==
  WriteData = <<Average("setup"), StdDev("setup"),
                Average("native"), StdDev("native"),
                Average("canon"), StdDev("canon"),
                Average("other"), StdDev("other"),
                Average("total"), StdDev("total")>>
=============================================================================
