------------------------- MODULE EvaluationContract -------------------------
(***************************************************************************)
(* What the program promises about its log files, without its threads,     *)
(* time limits and crashes: a file is created once and has one writer; it  *)
(* grows by whole measurements of its algorithm, on the data sets of one   *)
(* schedule in their order, of which a failing disk may swallow some; and  *)
(* once its writer lets go of it it never changes again, closing table or  *)
(* not.                                                                    *)
(***************************************************************************)
EXTENDS Integers, Sequences

CONSTANTS NumAlgos, DatasetSize, MinRules, MaxRules, GrowthFactor

VARIABLES
  logs,    \* the log files, one per algorithm
  writer,  \* the algorithm whose file is open, or 0
  turn,    \* the data set whose measurement is to be written next
  holes    \* the algorithms with a write that was swallowed

vars == <<logs, writer, turn, holes>>

Algos == 1 .. NumAlgos

NoLog == [exists |-> FALSE, sections |-> << >>, summary |-> FALSE]
NewLog == [exists |-> TRUE, sections |-> << >>, summary |-> FALSE]

FirstData == [rng |-> [origin |-> 0, draws |-> 0], rules |-> MinRules]
NextData(d) == [rng |-> [d.rng EXCEPT !.draws = @ + DatasetSize],
                rules |-> d.rules * GrowthFactor]

Init ==
  /\ logs = [a \in Algos |-> NoLog]
  /\ writer = 0 /\ turn = FirstData /\ holes = {}

Create(a) ==
  /\ writer = 0 /\ ~ logs[a].exists
  /\ logs' = [logs EXCEPT ![a] = NewLog]
  /\ writer' = a /\ turn' = FirstData
  /\ UNCHANGED holes

\* The measurement of the next data set is written, or swallowed.
Measured(a) == [algo |-> a, data |-> turn, reports |-> DatasetSize]

Report ==
  /\ writer # 0 /\ turn.rules <= MaxRules
  /\ logs' = [logs EXCEPT ![writer].sections = Append(@, Measured(writer))]
  /\ turn' = NextData(turn)
  /\ UNCHANGED <<writer, holes>>

Swallow ==
  /\ writer # 0
  /\ turn' = NextData(turn) /\ holes' = holes \union {writer}
  /\ UNCHANGED <<logs, writer>>

\* The closing table is written.
Close ==
  /\ writer # 0
  /\ logs' = [logs EXCEPT ![writer].summary = TRUE]
  /\ writer' = 0 /\ turn' = FirstData
  /\ UNCHANGED holes

\* The writer stops without it: it was swallowed, or the program ended.
LetGo ==
  /\ writer # 0
  /\ writer' = 0 /\ turn' = FirstData
  /\ holes' \in {holes, holes \union {writer}}
  /\ UNCHANGED logs

Next == (\E a \in Algos : Create(a)) \/ Report \/ Swallow \/ Close \/ LetGo

Spec == Init /\ [][Next]_vars

-----------------------------------------------------------------------------
\* The files without a hole hold an initial part of the schedule.
OnSchedule(s, a) ==
  \A k \in 1 .. Len(s) :
    /\ s[k].algo = a
    /\ s[k].reports = DatasetSize
    /\ s[k].data.rules <= MaxRules
    /\ s[k].data = IF k = 1 THEN FirstData ELSE NextData(s[k - 1].data)

WholeMeasurements ==
  \A a \in Algos \ holes : OnSchedule(logs[a].sections, a)

\* Any two files without a hole measured the same data sets.
Comparable ==
  \A a, b \in Algos \ holes :
    \A k \in 1 .. Len(logs[a].sections) :
      k <= Len(logs[b].sections) =>
        logs[a].sections[k].data = logs[b].sections[k].data

\* A file that exists and is not open never changes.
Frozen ==
  [][\A a \in Algos : logs[a].exists /\ a # writer => logs'[a] = logs[a]]_vars
=============================================================================
