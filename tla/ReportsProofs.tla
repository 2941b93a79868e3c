---------------------------- MODULE ReportsProofs ----------------------------
(***************************************************************************)
(* Theorems of module Reports, for any number of reports, any times and    *)
(* any units.                                                              *)
(***************************************************************************)
EXTENDS Reports, NumberLemmas, SequenceTheorems

-----------------------------------------------------------------------------
(***************************************************************************)
(* The statistics.                                                         *)
(***************************************************************************)
Reported == [algo : Algorithms, setup : Nat, native : Nat, canon : Nat,
             other : Nat, total : Totals]

\* The types of what is kept: every report is one of Report's.
Kept ==
  /\ reports \in Seq(Reported)
  /\ stats \in [Fields -> [count : Nat, sum : Nat]]

LEMMA ReportReported ==
  ASSUME NEW a \in Algorithms, NEW total \in Totals,
         NEW times \in [setup : Times, native : Times, canon : Times]
  PROVE  Report(a, times, total) \in Reported
<1>1. /\ times.setup \in Nat /\ times.native \in Nat /\ times.canon \in Nat
      /\ total \in Nat
  BY ReportsAssumption
<1>2. OtherTime(times, total) \in Nat
  <2> DEFINE d == total - times.setup - times.native - times.canon
  <2>1. d \in Int
    BY <1>1
  <2> HIDE DEF d
  <2>2. Max({0, d}) \in Nat
    BY <2>1 DEF Max
  <2> QED
    BY <2>2 DEF OtherTime, d
<1> QED
  BY <1>1, <1>2 DEF Report, Reported

LEMMA FieldOfReport ==
  ASSUME NEW r \in Reported, NEW f \in Fields
  PROVE  r[f] \in Nat
<1>1. r.total \in Nat
  BY ReportsAssumption DEF Reported
<1> QED
  BY <1>1 DEF Reported, Fields

LEMMA ColumnType ==
  ASSUME Kept, NEW f \in Fields
  PROVE  Column(f) \in Seq(Nat)
<1>1. \A k \in 1 .. Len(reports) : reports[k][f] \in Nat
  BY FieldOfReport DEF Kept
<1>2. DOMAIN reports = 1 .. Len(reports) /\ Len(reports) \in Nat
  BY DEF Kept
<1> QED
  BY <1>1, <1>2 DEF Column

LEMMA KeptStep ==
  ASSUME Kept, [Next]_vars
  PROVE  Kept'
<1>1. CASE UNCHANGED vars
  BY <1>1 DEF vars, Kept
<1>2. ASSUME NEW a \in Algorithms, NEW total \in Totals,
             NEW times \in [setup : Times, native : Times, canon : Times],
             AddReport(Report(a, times, total))
      PROVE  Kept'
  <2> DEFINE r == Report(a, times, total)
  <2>1. r \in Reported
    BY ReportReported
  <2> HIDE DEF r
  <2>2. CASE UNCHANGED <<stats, reports>>
    BY <2>2 DEF Kept
  <2>3. CASE Accept(r) /\ reports' = Append(reports, r)
    <3>1. \A f \in Fields : /\ stats[f].count + 1 \in Nat
                            /\ stats[f].sum + r[f] \in Nat
      BY <2>1, FieldOfReport DEF Kept
    <3>2. stats' \in [Fields -> [count : Nat, sum : Nat]]
      BY <2>3, <3>1 DEF Accept
    <3>3. reports' \in Seq(Reported)
      BY <2>1, <2>3 DEF Kept
    <3> QED
      BY <3>2, <3>3 DEF Kept
  <2> QED
    BY <1>2, <2>2, <2>3 DEF AddReport, r
<1> QED
  BY <1>1, <1>2 DEF Next, Add, Full

LEMMA InitKept == Init => Kept /\ StatsMatchReports
<1> SUFFICES ASSUME Init PROVE Kept /\ StatsMatchReports
  OBVIOUS
<1>1. Kept
  BY DEF Init, Kept
<1>2. ASSUME NEW f \in Fields
      PROVE  stats[f].count = Len(reports) /\ stats[f].sum = SumOf(Column(f))
  <2>1. Column(f) = << >> /\ Len(Column(f)) = 0
    BY DEF Init, Column
  <2>2. PICK g : SumsUpTo(g, Column(f), 0) /\ SumOf(Column(f)) = g[0]
    BY <2>1, SumIsLast
  <2>3. g[0] = 0
    BY <2>2, SumsAt
  <2> QED
    BY <2>2, <2>3 DEF Init
<1> QED
  BY <1>1, <1>2 DEF StatsMatchReports

LEMMA MatchStep ==
  ASSUME Kept, StatsMatchReports, [Next]_vars
  PROVE  StatsMatchReports'
<1>1. CASE UNCHANGED vars
  BY <1>1 DEF vars, StatsMatchReports, Column
<1>2. ASSUME NEW a \in Algorithms, NEW total \in Totals,
             NEW times \in [setup : Times, native : Times, canon : Times],
             AddReport(Report(a, times, total))
      PROVE  StatsMatchReports'
  <2> DEFINE r == Report(a, times, total)
  <2>1. r \in Reported
    BY ReportReported
  <2> HIDE DEF r
  <2>2. CASE UNCHANGED <<stats, reports>>
    BY <2>2 DEF StatsMatchReports, Column
  <2>3. CASE Accept(r) /\ reports' = Append(reports, r)
    <3> SUFFICES ASSUME NEW f \in Fields
                 PROVE  /\ stats'[f].count = Len(reports')
                        /\ stats'[f].sum = SumOf(Column(f)')
      BY DEF StatsMatchReports
    <3>1. /\ stats'[f].count = stats[f].count + 1
          /\ stats'[f].sum = stats[f].sum + r[f]
      BY <2>3 DEF Accept
    <3>2. Len(reports') = Len(reports) + 1 /\ reports \in Seq(Reported)
      BY <2>1, <2>3 DEF Kept
    <3>3. Column(f)' = Append(Column(f), r[f])
      BY <2>1, <2>3, <3>2, ColumnType DEF Column
    <3>4. SumOf(Column(f)') = SumOf(Column(f)) + r[f]
      BY <2>1, <3>3, ColumnType, FieldOfReport, SumAppend
    <3> QED
      BY <3>1, <3>2, <3>4 DEF StatsMatchReports
  <2> QED
    BY <1>2, <2>2, <2>3 DEF AddReport, r
<1> QED
  BY <1>1, <1>2 DEF Next, Add, Full

\* The averages that are logged are those of the raw data.
THEOREM StatsMatchTheorem == Spec => []StatsMatchReports
<1>1. Kept /\ StatsMatchReports /\ [Next]_vars => (Kept /\ StatsMatchReports)'
  BY KeptStep, MatchStep
<1> QED
  BY InitKept, <1>1, PTL DEF Spec

-----------------------------------------------------------------------------
(***************************************************************************)
(* The formatting of a time.                                               *)
(***************************************************************************)
LEMMA DivMod ==
  ASSUME NEW n \in Nat, NEW d \in Nat \ {0}
  PROVE  \E q \in Nat, r \in Nat : q = n \div d /\ r = n % d /\ n = d * q + r
<1>1. n \div d \in Int /\ n % d \in 0 .. d - 1
  OBVIOUS
<1>2. PICK q \in Int, r \in Int : q = n \div d /\ r = n % d
  BY <1>1
<1>3. n = d * q + r
  BY <1>2
<1>4. n \div d >= 0
  BY <1>1
<1>5. q \in Nat
  <2>1. q >= 0
    BY <1>2, <1>4
  <2> QED
    BY <2>1
<1>6. r \in Nat
  <2>1. r \in 0 .. d - 1
    BY <1>1, <1>2
  <2> QED
    BY <2>1
<1> QED
  BY <1>2, <1>3, <1>5, <1>6, Zenon

\* The first sums of up to four numbers.
LEMMA SumOfFew ==
  ASSUME NEW s \in Seq(Nat), Len(s) \in 1 .. 4
  PROVE  /\ Len(s) = 1 => SumOf(s) = s[1]
         /\ Len(s) = 2 => SumOf(s) = s[1] + s[2]
         /\ Len(s) = 3 => SumOf(s) = s[1] + s[2] + s[3]
         /\ Len(s) = 4 => SumOf(s) = s[1] + s[2] + s[3] + s[4]
<1>1. PICK f : SumsUpTo(f, s, Len(s)) /\ SumOf(s) = f[Len(s)]
  BY SumIsLast
<1>2. \A k \in 1 .. Len(s) : f[k] = f[k - 1] + s[k]
  BY <1>1, SumsAt
<1>3. f[0] = 0
  BY <1>1, SumsAt
<1>4. \A k \in 1 .. Len(s) : s[k] \in Nat
  OBVIOUS
<1>5. f[1] = s[1]
  BY <1>2, <1>3, <1>4
<1>6. ASSUME Len(s) >= 2 PROVE f[2] = s[1] + s[2]
  <2>1. 2 \in 1 .. Len(s) /\ 2 - 1 = 1
    BY <1>6
  <2> QED
    BY <2>1, <1>2, <1>5
<1>7. ASSUME Len(s) >= 3 PROVE f[3] = s[1] + s[2] + s[3]
  <2>1. 3 \in 1 .. Len(s) /\ 3 - 1 = 2
    BY <1>7
  <2> QED
    BY <2>1, <1>2, <1>6
<1>8. ASSUME Len(s) >= 4 PROVE f[4] = s[1] + s[2] + s[3] + s[4]
  <2>1. 4 \in 1 .. Len(s) /\ 4 - 1 = 3
    BY <1>8
  <2> QED
    BY <2>1, <1>2, <1>7
<1>9. ASSUME Len(s) = 1 PROVE SumOf(s) = s[1]
  BY <1>1, <1>5, <1>9
<1>10. ASSUME Len(s) = 2 PROVE SumOf(s) = s[1] + s[2]
  BY <1>1, <1>6, <1>10
<1>11. ASSUME Len(s) = 3 PROVE SumOf(s) = s[1] + s[2] + s[3]
  BY <1>1, <1>7, <1>11
<1>12. ASSUME Len(s) = 4 PROVE SumOf(s) = s[1] + s[2] + s[3] + s[4]
  BY <1>1, <1>8, <1>12
<1> QED
  BY <1>9, <1>10, <1>11, <1>12

\* A number of nanoseconds from its parts.
LEMMA FromUnits ==
  ASSUME NEW M \in Nat, NEW T \in Nat, NEW S \in Nat,
         NEW ms \in Nat, NEW s \in Nat, NEW m \in Nat,
         NEW a \in Nat, NEW b \in Nat, NEW c \in Nat,
         ms = T * s + b, s = S * m + c
  PROVE  M * ms + a = a * 1 + b * M + c * (M * T) + m * (M * T * S)
<1>1. M * ms = M * (T * s) + M * b
  OBVIOUS
<1>2. T * s = T * (S * m) + T * c
  OBVIOUS
<1>3. M * (T * s) = M * (T * (S * m)) + M * (T * c)
  BY <1>2
<1>4. M * (T * (S * m)) = m * (M * T * S) /\ M * (T * c) = c * (M * T) /\ M * b = b * M
  OBVIOUS
<1> QED
  BY <1>1, <1>3, <1>4

LEMMA NoParts ==
  ASSUME NEW d \in Nat \ {0}, NEW q \in Nat, NEW r \in Nat, NEW n, n = d * q + r
  PROVE  n = 0 => q = 0 /\ r = 0
<1> SUFFICES ASSUME n = 0 PROVE q = 0 /\ r = 0
  OBVIOUS
<1>1. d * q >= q
  <2>1. (d - 1) * q >= 0 /\ d * q = (d - 1) * q + q
    OBVIOUS
  <2> QED
    BY <2>1
<1> QED
  BY <1>1

\* What formatNanos prints adds up to the time it was given.
LEMMA PrintedAddsUp ==
  ASSUME NEW n \in Nat
  PROVE  LET units == <<1, Million, Million * Thousand, Million * Thousand * Sixty>>
             printed == FormatNanos(n)
         IN n = SumOf([k \in DOMAIN printed |-> printed[k] * units[k]])
<1> DEFINE units == <<1, Million, Million * Thousand, Million * Thousand * Sixty>>
<1>1. Million \in Nat \ {0} /\ Thousand \in Nat \ {0} /\ Sixty \in Nat \ {0}
  BY ReportsAssumption
<1>2. PICK ms \in Nat, a \in Nat :
        ms = n \div Million /\ a = n % Million /\ n = Million * ms + a
  BY <1>1, DivMod
<1>3. PICK s \in Nat, b \in Nat :
        s = ms \div Thousand /\ b = ms % Thousand /\ ms = Thousand * s + b
  BY <1>1, DivMod
<1>4. PICK m \in Nat, c \in Nat :
        m = s \div Sixty /\ c = s % Sixty /\ s = Sixty * m + c
  BY <1>1, DivMod
<1>5. FormatNanos(n) = <<a>> \o (IF ms > 0 THEN <<b>> ELSE << >>)
                         \o (IF s > 0 THEN <<c>> ELSE << >>)
                         \o (IF m > 0 THEN <<m>> ELSE << >>)
  BY <1>2, <1>3, <1>4 DEF FormatNanos
<1>6. n = a * 1 + b * Million + c * (Million * Thousand)
            + m * (Million * Thousand * Sixty)
  <2>1. Million \in Nat /\ Thousand \in Nat /\ Sixty \in Nat
    BY <1>1
  <2>2. ms = Thousand * s + b /\ s = Sixty * m + c
    BY <1>3, <1>4
  <2>3. Million * ms + a = a * 1 + b * Million + c * (Million * Thousand)
                             + m * (Million * Thousand * Sixty)
    BY <2>1, <2>2, FromUnits
  <2> QED
    BY <2>3, <1>2
<1> DEFINE p == FormatNanos(n)
           t == [k \in DOMAIN p |-> p[k] * units[k]]
<1>7. /\ ms = 0 => s = 0 /\ b = 0
      /\ s = 0 => m = 0 /\ c = 0
  BY <1>1, <1>3, <1>4, NoParts
<1>8. CASE ms = 0
  <2>1. p = <<a>>
    BY <1>5, <1>7, <1>8
  <2>2. n = a * 1
    BY <1>1, <1>6, <1>7, <1>8
  <2> HIDE DEF p
  <2>3. t \in Seq(Nat) /\ Len(t) = 1 /\ t[1] = a * 1
    BY <2>1
  <2> HIDE DEF t
  <2>4. SumOf(t) = a * 1
    BY <2>3, SumOfFew
  <2> QED
    BY <2>2, <2>4 DEF t, p
<1>9. CASE ms > 0 /\ s = 0
  <2>1. /\ p \in Seq(Nat) /\ Len(p) = 2
        /\ p[1] = a /\ p[2] = b
    <3>1. p = <<a>> \o <<b>> \o << >> \o << >>
      BY <1>5, <1>7, <1>9
    <3> HIDE DEF p
    <3> QED
      BY <3>1
  <2>2. n = a * 1 + b * Million
    BY <1>1, <1>6, <1>7, <1>9
  <2> HIDE DEF p
  <2>3. t \in Seq(Nat) /\ Len(t) = 2 /\ t[1] = a * 1 /\ t[2] = b * Million
    BY <1>1, <2>1
  <2> HIDE DEF t
  <2>4. SumOf(t) = a * 1 + b * Million
    BY <2>3, SumOfFew
  <2> QED
    BY <2>2, <2>4 DEF t, p
<1>10. CASE ms > 0 /\ s > 0 /\ m = 0
  <2>1. /\ p \in Seq(Nat) /\ Len(p) = 3
        /\ p[1] = a /\ p[2] = b /\ p[3] = c
    <3>1. p = <<a>> \o <<b>> \o <<c>> \o << >>
      BY <1>5, <1>10
    <3> HIDE DEF p
    <3> QED
      BY <3>1
  <2>2. n = a * 1 + b * Million + c * (Million * Thousand)
    BY <1>1, <1>6, <1>10
  <2> HIDE DEF p
  <2>3. /\ t \in Seq(Nat) /\ Len(t) = 3 /\ t[1] = a * 1 /\ t[2] = b * Million
        /\ t[3] = c * (Million * Thousand)
    BY <1>1, <2>1
  <2> HIDE DEF t
  <2>4. SumOf(t) = a * 1 + b * Million + c * (Million * Thousand)
    BY <2>3, SumOfFew
  <2> QED
    BY <2>2, <2>4 DEF t, p
<1>11. CASE ms > 0 /\ s > 0 /\ m > 0
  <2>1. /\ p \in Seq(Nat) /\ Len(p) = 4
        /\ p[1] = a /\ p[2] = b /\ p[3] = c /\ p[4] = m
    <3>1. p = <<a>> \o <<b>> \o <<c>> \o <<m>>
      BY <1>5, <1>11
    <3> DEFINE u == <<a>> \o <<b>> \o <<c>>
    <3>2. u \in Seq(Nat) /\ Len(u) = 3 /\ u[1] = a /\ u[2] = b /\ u[3] = c
      OBVIOUS
    <3>3. p = u \o <<m>>
      BY <3>1
    <3> HIDE DEF p, u
    <3>4. <<m>> \in Seq(Nat) /\ Len(<<m>>) = 1 /\ <<m>>[1] = m
      OBVIOUS
    <3>5. /\ p \in Seq(Nat) /\ Len(p) = Len(u) + Len(<<m>>)
          /\ \A i \in 1 .. Len(u) + Len(<<m>>) :
               p[i] = IF i <= Len(u) THEN u[i] ELSE <<m>>[i - Len(u)]
      BY <3>2, <3>3, <3>4, ConcatProperties
    <3>6. Len(p) = 4 /\ p[1] = u[1] /\ p[2] = u[2] /\ p[3] = u[3]
      BY <3>2, <3>4, <3>5
    <3>7. p[4] = m
      BY <3>2, <3>4, <3>5
    <3> QED
      BY <3>2, <3>5, <3>6, <3>7, Zenon
  <2> HIDE DEF p
  <2>2. /\ t \in Seq(Nat) /\ Len(t) = 4 /\ t[1] = a * 1 /\ t[2] = b * Million
        /\ t[3] = c * (Million * Thousand) /\ t[4] = m * (Million * Thousand * Sixty)
    BY <1>1, <2>1
  <2> HIDE DEF t
  <2>3. SumOf(t) = a * 1 + b * Million + c * (Million * Thousand)
                   + m * (Million * Thousand * Sixty)
    BY <2>2, SumOfFew
  <2> QED
    BY <1>6, <2>3 DEF t, p
<1> QED
  BY <1>7, <1>8, <1>9, <1>10, <1>11

\* Whatever the units, and however large the time: what is printed reads back
\* as the time that was reported.
THEOREM FormatReadsBackTheorem == Spec => []FormatReadsBack
<1>1. Kept => FormatReadsBack
  <2> SUFFICES ASSUME Kept, NEW r \in ToSet(reports)
               PROVE  r.total \in Nat
    BY PrintedAddsUp DEF FormatReadsBack
  <2>1. PICK k \in 1 .. Len(reports) : r = reports[k]
    BY DEF ToSet, Kept
  <2>2. r \in Reported
    BY <2>1 DEF Kept
  <2> QED
    BY <2>2, ReportsAssumption DEF Reported
<1>2. Kept /\ [Next]_vars => Kept'
  BY KeptStep
<1> QED
  BY InitKept, <1>1, <1>2, PTL DEF Spec
=============================================================================
