-------------------------- MODULE EvaluationProofs --------------------------
(***************************************************************************)
(* Theorems of module Evaluation, for every number of algorithms, size and *)
(* schedule of data sets, number of restarts and number of failing writes. *)
(***************************************************************************)
EXTENDS Evaluation, TLAPS

(***************************************************************************)
(* Who may run when: the conjuncts MeasuredAlone needs to be inductive.    *)
(* Outside the try block of evaluateAlgorithm there is no worker thread or *)
(* it has ended; inside it the worker is at work only on a task that main  *)
(* submitted, and has not yet taken the answer of.                         *)
(***************************************************************************)
InTry == {"submit", "wait", "cancel", "shutdown", "await"}

NoStrayWorker == pc \notin InTry => worker.pc \in {"none", "terminated"}
AnsweredIsIdle ==
  task.state \in {"none", "normal", "exceptional"} => worker.pc \notin Busy
SubmitIsIdle == pc = "submit" => task.state # "new" /\ worker.pc \notin Busy
WorksForMain == worker.pc \in Busy => worker.algo = algo

Ownership == /\ TypeOK
             /\ NoStrayWorker /\ AnsweredIsIdle /\ SubmitIsIdle /\ WorksForMain

-----------------------------------------------------------------------------
\* The reset at the end of the process leaves values of the right types.
LEMMA ResetTypes ==
  /\ NoTask \in [state : TaskStates, data : Data, stats : Stats]
  /\ NoWorker \in [pc : WorkerPcs, algo : Algos, data : Data, reports : Nat,
                   interrupted : BOOLEAN]
  /\ NoStats \in Stats /\ NoLog \in Logs /\ NoRng \in Rng
  /\ MinRules \in Nat /\ 1 \in Algos /\ << >> \in Seq(Stats)
<1>1. 1 \in Algos
  BY ConstantsAssumption DEF Algos
<1>2. NoRng \in Rng /\ NoData \in Data
  BY DEF NoRng, Rng, NoData, Data
<1>3. NoStats \in Stats
  BY <1>1, <1>2 DEF NoStats, Stats
<1>4. NoTask \in [state : TaskStates, data : Data, stats : Stats]
  BY <1>2, <1>3 DEF NoTask, TaskStates
<1>5. NoWorker \in [pc : WorkerPcs, algo : Algos, data : Data, reports : Nat,
                    interrupted : BOOLEAN]
  BY <1>1, <1>2 DEF NoWorker, WorkerPcs
<1>6. NoLog \in Logs
  BY DEF NoLog, Logs
<1> QED
  BY <1>1, <1>2, <1>3, <1>4, <1>5, <1>6, ConstantsAssumption

\* The end of the JVM re-establishes everything but the types of the files.
LEMMA ExitOwnership ==
  ASSUME Ownership, NEW why \in {"natives", "uncaught", "normal", "killed"},
         JvmExit(why), UNCHANGED <<fileVars, runs>>
  PROVE  Ownership'
<1>1. MainTypes'
  BY ResetTypes, ConstantsAssumption DEF JvmExit, MainTypes, Pcs
<1>2. ExecTypes'
  BY ResetTypes DEF JvmExit, ExecTypes
<1>3. FileTypes' /\ HistoryTypes'
  BY DEF Ownership, TypeOK, FileTypes, HistoryTypes, JvmExit, fileVars
<1>4. worker'.pc = "none" /\ task'.state = "none" /\ pc' = "down"
  BY DEF JvmExit, NoWorker, NoTask
<1> QED
  BY <1>1, <1>2, <1>3, <1>4 DEF Ownership, TypeOK, NoStrayWorker,
     AnsweredIsIdle, SubmitIsIdle, WorksForMain, Busy, InTry

LEMMA InitOwnership == Init => Ownership
<1> SUFFICES ASSUME Init PROVE Ownership
  OBVIOUS
<1>1. MainTypes
  BY ResetTypes, ConstantsAssumption DEF Init, MainTypes, Pcs
<1>2. ExecTypes
  BY ResetTypes DEF Init, ExecTypes
<1>3. FileTypes /\ HistoryTypes
  BY ResetTypes DEF Init, FileTypes, HistoryTypes
<1>4. worker.pc = "none" /\ task.state = "none" /\ pc = "down"
  BY DEF Init, NoWorker, NoTask
<1> QED
  BY <1>1, <1>2, <1>3, <1>4 DEF Ownership, TypeOK, NoStrayWorker,
     AnsweredIsIdle, SubmitIsIdle, WorksForMain, Busy, InTry

\* Drawing graphs keeps the generator a generator.
LEMMA DrawTypes ==
  ASSUME rng \in Rng, NEW n \in Nat
  PROVE  Draw(n) \in Rng
  BY DEF Draw, Rng

\* Writing to a log file keeps it a log file.
LEMMA WriteTypes ==
  ASSUME logs \in [Algos -> Logs], NEW a \in Algos, NEW s \in Stats
  PROVE  [logs EXCEPT ![a].sections = Append(@, s)] \in [Algos -> Logs]
<1>1. logs[a] \in Logs
  OBVIOUS
<1>2. Append(logs[a].sections, s) \in Seq(Stats)
  BY <1>1 DEF Logs
<1>3. [logs[a] EXCEPT !.sections = Append(@, s)] \in Logs
  BY <1>1, <1>2 DEF Logs
<1> QED
  BY <1>3

LEMMA CloseTypes ==
  ASSUME logs \in [Algos -> Logs], NEW a \in Algos
  PROVE  [logs EXCEPT ![a].summary = TRUE] \in [Algos -> Logs]
<1>1. logs[a] \in Logs
  OBVIOUS
<1>2. [logs[a] EXCEPT !.summary = TRUE] \in Logs
  BY <1>1 DEF Logs
<1> QED
  BY <1>2

\* Every step of main keeps it.
LEMMA MainKeepsOwnership ==
  ASSUME Ownership, MainNext PROVE Ownership'
<1> USE DEF Ownership, TypeOK, MainTypes, ExecTypes, FileTypes, HistoryTypes,
        NoStrayWorker, AnsweredIsIdle, SubmitIsIdle, WorksForMain,
        InTry, Busy, Pcs, TaskStates, WorkerPcs, Algos,
        mainVars, execVars, fileVars
<1>1. CASE LoadFails
  BY <1>1, ExitOwnership DEF LoadFails
<1>2. CASE LoadNatives
  BY <1>2 DEF LoadNatives
<1>3. CASE PickSkip
  BY <1>3, ConstantsAssumption DEF PickSkip
<1>4. CASE PickEvaluate
  <2>1. rng' \in Rng
    BY <1>4, DrawTypes, ConstantsAssumption DEF PickEvaluate
  <2> QED
    BY <1>4, <2>1 DEF PickEvaluate
<1>5. CASE PickDone
  BY <1>5, ExitOwnership DEF PickDone
<1>6. CASE WarmupCanonize
  BY <1>6 DEF WarmupCanonize
<1>7. CASE WarmupFails
  BY <1>7, ExitOwnership DEF WarmupFails
<1>8. CASE WarmupDone
  BY <1>8, ResetTypes DEF WarmupDone, NoTask, NoWorker, Rng
<1>9. CASE SubmitDataset
  <2>1. rng' \in Rng
    BY <1>9, DrawTypes, ConstantsAssumption DEF SubmitDataset
  <2>2. task' \in [state : TaskStates, data : Data, stats : Stats]
    BY <1>9, ResetTypes DEF SubmitDataset, Data
  <2>3. /\ worker.pc \in {"none", "idle", "terminated"}
        /\ worker' = [worker EXCEPT !.pc = worker'.pc]
        /\ worker'.pc \in {"idle", "terminated"}
    BY <1>9 DEF SubmitDataset
  <2>4. ExecTypes'
    BY <1>9, <2>2, <2>3 DEF SubmitDataset
  <2>5. task'.state = "new" /\ pc' = "wait"
    BY <1>9 DEF SubmitDataset
  <2> QED
    BY <1>9, <2>1, <2>3, <2>4, <2>5 DEF SubmitDataset
<1>10. CASE SizeLimitReached
  BY <1>10 DEF SizeLimitReached
<1>11. CASE GetStats
  BY <1>11, ConstantsAssumption DEF GetStats
<1>12. CASE GetFails
  BY <1>12 DEF GetFails
<1>13. CASE GetTimesOut
  BY <1>13 DEF GetTimesOut
<1>14. CASE CancelTask
  BY <1>14 DEF CancelTask
<1>15. CASE ShutdownExecutor
  BY <1>15 DEF ShutdownExecutor
<1>16. CASE AwaitTermination
  BY <1>16 DEF AwaitTermination
<1>17. CASE OpenLog
  BY <1>17, ResetTypes DEF OpenLog, Logs
<1>18. CASE OpenFails
  BY <1>18, ConstantsAssumption DEF OpenFails, NextAlgorithm
<1>19. CASE WriteSection
  <2>1. results[saved + 1] \in Stats
    BY <1>19 DEF WriteSection
  <2>2. logs' \in [Algos -> Logs]
    BY <1>19, <2>1, WriteTypes DEF WriteSection
  <2> QED
    BY <1>19, <2>2 DEF WriteSection
<1>20. CASE LoseSection
  BY <1>20 DEF LoseSection
<1>21. CASE WriteSummary
  <2>1. logs' \in [Algos -> Logs]
    <3>1. logs \in [Algos -> Logs] /\ algo \in Algos
      BY <1>21 DEF WriteSummary
    <3>2. [logs EXCEPT ![algo].summary = TRUE] \in [Algos -> Logs]
      BY <3>1, CloseTypes
    <3>3. logs' = [logs EXCEPT ![algo].summary = TRUE]
      BY <1>21, Zenon DEF WriteSummary
    <3> QED
      BY <3>2, <3>3, Zenon
  <2>2. /\ pc = "write" /\ pc' = "pick" /\ algo' = algo + 1
        /\ UNCHANGED <<rules, warm, rng, results, saved, execVars, failed,
                       unseen, faults, lost, runs, exit, late>>
    BY <1>21, Zenon DEF WriteSummary, NextAlgorithm
  <2> QED
    BY <2>1, <2>2, ConstantsAssumption
<1>22. CASE LoseSummary
  BY <1>22, ConstantsAssumption DEF LoseSummary, NextAlgorithm
<1>23. CASE PickUndetermined
  BY <1>23, ConstantsAssumption DEF PickUndetermined
<1> QED
  BY <1>1, <1>2, <1>3, <1>4, <1>5, <1>6, <1>7, <1>8, <1>9, <1>10, <1>11,
     <1>12, <1>13, <1>14, <1>15, <1>16, <1>17, <1>18, <1>19, <1>20, <1>21,
     <1>22, <1>23
     DEF MainNext

\* Every step of the worker thread keeps it.
LEMMA WorkerKeepsOwnership ==
  ASSUME Ownership, WorkerNext PROVE Ownership'
<1> USE DEF Ownership, TypeOK, MainTypes, ExecTypes, FileTypes, HistoryTypes,
        NoStrayWorker, AnsweredIsIdle, SubmitIsIdle, WorksForMain,
        InTry, Busy, Pcs, TaskStates, WorkerPcs, Algos,
        mainVars, execVars, fileVars
<1>1. CASE TakeTask
  BY <1>1 DEF TakeTask
<1>2. CASE StartGraph
  BY <1>2 DEF StartGraph, WorkerGoes
<1>3. CASE CheckInterrupt
  BY <1>3 DEF CheckInterrupt
<1>4. CASE SummaryBuilt
  BY <1>4 DEF SummaryBuilt, WorkerGoes
<1>5. CASE SetResult
  BY <1>5 DEF SetResult, WorkerGoes, Stats
<1>6. CASE SetException
  BY <1>6 DEF SetException, WorkerGoes
<1>7. CASE WorkerExits
  BY <1>7 DEF WorkerExits, WorkerGoes
<1>8. CASE CanonizeReturns
  <2>1. /\ worker.pc \in Busy
        /\ worker'.pc = "check" /\ worker'.algo = worker.algo
    BY <1>8 DEF CanonizeReturns
  <2>2. ExecTypes'
    <3>1. /\ worker.algo \in Algos /\ worker.data \in Data
          /\ worker.reports + 1 \in Nat /\ worker.interrupted \in BOOLEAN
      OBVIOUS
    <3>2. worker' = [pc |-> "check", algo |-> worker.algo,
                     data |-> worker.data, reports |-> worker.reports + 1,
                     interrupted |-> worker.interrupted]
      BY <1>8 DEF CanonizeReturns
    <3> QED
      BY <1>8, <3>1, <3>2 DEF CanonizeReturns
  <2>3. MainTypes' /\ FileTypes' /\ HistoryTypes'
    BY <1>8 DEF CanonizeReturns
  <2> QED
    BY <1>8, <2>1, <2>2, <2>3 DEF CanonizeReturns
<1>9. CASE CanonizeFails
  BY <1>9 DEF CanonizeFails, WorkerGoes
<1> QED
  BY <1>1, <1>2, <1>3, <1>4, <1>5, <1>6, <1>7, <1>8, <1>9
     DEF WorkerNext, WorkerRuns, CallReturns

\* A start, a kill and a stutter keep it too.
LEMMA NextKeepsOwnership == Ownership /\ [Next]_vars => Ownership'
<1> SUFFICES ASSUME Ownership, [Next]_vars PROVE Ownership'
  OBVIOUS
<1>1. CASE Start
  BY <1>1 DEF Start, Ownership, TypeOK, MainTypes, ExecTypes, FileTypes,
     HistoryTypes, NoStrayWorker, AnsweredIsIdle, SubmitIsIdle, WorksForMain,
     InTry, Busy, Pcs, Rng, execVars
<1>2. CASE Kill
  BY <1>2, ExitOwnership DEF Kill
<1>3. CASE UNCHANGED vars
  BY <1>3 DEF vars, mainVars, execVars, fileVars, Ownership, TypeOK, MainTypes,
     ExecTypes, FileTypes, HistoryTypes, NoStrayWorker, AnsweredIsIdle,
     SubmitIsIdle, WorksForMain
<1> QED
  BY <1>1, <1>2, <1>3, MainKeepsOwnership, WorkerKeepsOwnership
     DEF Next, Finished

\* Who waits for whom, at every step of every thread.
THEOREM OwnershipInvariant == Spec => []Ownership
<1> QED
  BY InitOwnership, NextKeepsOwnership, PTL DEF Spec

\* Type correctness.
THEOREM TypeCorrect == Spec => []TypeOK
<1>1. Ownership => TypeOK
  BY DEF Ownership
<1> QED
  BY <1>1, OwnershipInvariant, PTL

\* No measurement overlaps the warm-up or the measurements of another
\* algorithm, or the save, however long a cancelled call takes to return
\* (Main.java:150, 191-199).
THEOREM Exclusive == Spec => []MeasuredAlone
<1>1. Ownership => MeasuredAlone
  BY DEF Ownership, NoStrayWorker, SubmitIsIdle, WorksForMain, MeasuredAlone,
     InTry, Busy
<1> QED
  BY <1>1, OwnershipInvariant, PTL

-----------------------------------------------------------------------------
(***************************************************************************)
(* What an evaluation has measured when it is saved, and how long a        *)
(* cancelled measurement goes on, on top of the ownership of the worker    *)
(* thread.                                                                 *)
(***************************************************************************)

\* The data set that follows the measurements of s.
Upcoming(s) == IF s = << >> THEN FirstData ELSE NextData(s[Len(s)].data)

(***************************************************************************)
(* The conjuncts ResultsArePrefix needs: where main is about to submit,    *)
(* the generator and the loop variable are at the next data set of the     *)
(* schedule; while it waits, that data set is with the task, and what the  *)
(* worker works on and may answer is the whole of it.                      *)
(***************************************************************************)
SubmitsUpcoming ==
  pc = "submit" => [rng |-> rng, rules |-> rules] = Upcoming(results)
WaitsForUpcoming ==
  pc = "wait" =>
    /\ task.data = Upcoming(results) /\ task.data.rules <= MaxRules
    /\ [rng |-> rng, rules |-> rules * GrowthFactor] = NextData(task.data)
WorksOnTask == worker.pc \in Busy => worker.data = task.data
ReturnsWhole == worker.pc = "return" => worker.reports = DatasetSize
AnswersWhole ==
  pc = "wait" /\ task.state = "normal" =>
    task.stats = [algo |-> algo, data |-> task.data, reports |-> DatasetSize]

Schedule == /\ SubmitsUpcoming /\ WaitsForUpcoming /\ WorksOnTask
            /\ ReturnsWhole /\ AnswersWhole /\ ResultsArePrefix

-----------------------------------------------------------------------------
LEMMA NothingMeasured ==
  Upcoming(<< >>) = FirstData /\ \A a : OnSchedule(<< >>, a)
  BY DEF Upcoming, OnSchedule

\* The schedule is continued by a whole measurement of the upcoming data set.
LEMMA MeasureUpcoming ==
  ASSUME NEW s \in Seq(Stats), NEW a, NEW m \in Stats, OnSchedule(s, a),
         m = [algo |-> a, data |-> Upcoming(s), reports |-> DatasetSize],
         Upcoming(s).rules <= MaxRules
  PROVE  /\ OnSchedule(Append(s, m), a)
         /\ Upcoming(Append(s, m)) = NextData(m.data)
<1> DEFINE t == Append(s, m)
<1>1. /\ Len(t) = Len(s) + 1 /\ Len(s) \in Nat
      /\ t[Len(t)] = m
      /\ \A k \in 1 .. Len(s) : t[k] = s[k]
      /\ t # << >>
  OBVIOUS
<1>2. Upcoming(t) = NextData(m.data)
  BY <1>1 DEF Upcoming
<1>3. ASSUME NEW k \in 1 .. Len(t)
      PROVE  /\ t[k].algo = a /\ t[k].reports = DatasetSize
             /\ t[k].data.rules <= MaxRules
             /\ t[k].data = IF k = 1 THEN FirstData ELSE NextData(t[k - 1].data)
  <2>1. CASE k \in 1 .. Len(s)
    BY <1>1, <2>1 DEF OnSchedule
  <2>2. CASE k = Len(s) + 1
    <3>1. t[k] = m
      BY <1>1, <2>2
    <3>2. k = 1 => s = << >>
      BY <1>1, <2>2
    <3>3. k # 1 => s # << >> /\ t[k - 1] = s[Len(s)]
      BY <1>1, <2>2
    <3> QED
      BY <3>1, <3>2, <3>3 DEF Upcoming
  <2> QED
    BY <1>1, <2>1, <2>2
<1> QED
  BY <1>2, <1>3 DEF OnSchedule

\* Drawing a data set moves the generator to the next one of the schedule.
LEMMA DrawNext ==
  ASSUME rng \in Rng
  PROVE  [rng |-> Draw(DatasetSize), rules |-> rules * GrowthFactor]
           = NextData([rng |-> rng, rules |-> rules])
  BY DEF Draw, NextData

-----------------------------------------------------------------------------
LEMMA InitSchedule == Init => Schedule
  BY DEF Init, NoWorker, Schedule, SubmitsUpcoming, WaitsForUpcoming,
     WorksOnTask, ReturnsWhole, AnswersWhole, ResultsArePrefix, Evaluating,
     Busy

LEMMA ExitSchedule ==
  ASSUME NEW why, JvmExit(why) PROVE Schedule'
  BY DEF JvmExit, NoWorker, Schedule, SubmitsUpcoming, WaitsForUpcoming,
     WorksOnTask, ReturnsWhole, AnswersWhole, ResultsArePrefix, Evaluating,
     Busy

\* Every step of main keeps it.
LEMMA MainKeepsSchedule ==
  ASSUME Ownership, Schedule, MainNext PROVE Schedule'
<1> USE DEF Schedule, SubmitsUpcoming, WaitsForUpcoming, WorksOnTask,
        ReturnsWhole, AnswersWhole, ResultsArePrefix, Evaluating,
        mainVars, execVars, fileVars
<1>a. /\ rng \in Rng /\ results \in Seq(Stats)
      /\ pc \notin {"down", "load", "pick"} => algo \in Algos
      /\ task \in [state : TaskStates, data : Data, stats : Stats]
      /\ worker \in [pc : WorkerPcs, algo : Algos, data : Data, reports : Nat,
                     interrupted : BOOLEAN]
  BY DEF Ownership, TypeOK, MainTypes, ExecTypes
<1>1. CASE LoadFails
  BY <1>1, ExitSchedule DEF LoadFails
<1>2. CASE LoadNatives
  BY <1>2 DEF LoadNatives
<1>3. CASE PickSkip
  BY <1>3 DEF PickSkip
<1>4. CASE PickEvaluate
  BY <1>4 DEF PickEvaluate
<1>5. CASE PickDone
  BY <1>5, ExitSchedule DEF PickDone
<1>6. CASE WarmupCanonize
  BY <1>6 DEF WarmupCanonize
<1>7. CASE WarmupFails
  BY <1>7, ExitSchedule DEF WarmupFails
<1>8. CASE WarmupDone
  <2>1. /\ pc' = "submit" /\ results' = << >> /\ worker'.pc = "none"
        /\ [rng |-> rng', rules |-> rules'] = FirstData
    BY <1>8 DEF WarmupDone, NoWorker, FirstData, NoRng
  <2> QED
    BY <2>1, NothingMeasured DEF Busy
<1>9. CASE SubmitDataset
  <2>1. /\ pc = "submit" /\ pc' = "wait" /\ rules <= MaxRules
        /\ task' = [state |-> "new", data |-> [rng |-> rng, rules |-> rules],
                    stats |-> NoStats]
        /\ rng' = Draw(DatasetSize)
        /\ UNCHANGED <<algo, rules, results>>
    BY <1>9 DEF SubmitDataset
  <2>2. [rng |-> rng', rules |-> rules' * GrowthFactor] = NextData(task'.data)
    BY <2>1, <1>a, DrawNext
  <2>3. worker'.pc \notin Busy
    BY <1>9, <2>1, <1>a DEF SubmitDataset, Ownership, SubmitIsIdle, Busy
  <2>4. task'.data = Upcoming(results') /\ task'.data.rules <= MaxRules
    BY <2>1
  <2> QED
    BY <2>1, <2>2, <2>3, <2>4 DEF Busy
<1>10. CASE SizeLimitReached
  BY <1>10 DEF SizeLimitReached
<1>11. CASE GetStats
  <2>1. /\ pc = "wait" /\ task.state = "normal" /\ pc' = "submit"
        /\ results' = Append(results, task.stats)
        /\ rules' = rules * GrowthFactor
        /\ UNCHANGED <<algo, rng, worker, task>>
    BY <1>11 DEF GetStats
  <2>2. /\ OnSchedule(results', algo)
        /\ Upcoming(results') = NextData(task.stats.data)
    <3>1. task.stats \in Stats /\ OnSchedule(results, algo)
      BY <2>1, <1>a
    <3>2. task.stats = [algo |-> algo, data |-> Upcoming(results),
                        reports |-> DatasetSize]
          /\ Upcoming(results).rules <= MaxRules
      BY <2>1
    <3> QED
      BY <3>1, <3>2, <2>1, <1>a, MeasureUpcoming
  <2>3. [rng |-> rng', rules |-> rules'] = Upcoming(results')
    BY <2>1, <2>2
  <2> QED
    BY <2>1, <2>2, <2>3
<1>12. CASE GetFails
  BY <1>12 DEF GetFails
<1>13. CASE GetTimesOut
  BY <1>13 DEF GetTimesOut
<1>14. CASE CancelTask
  <2>1. /\ pc = "cancel" /\ pc' = "shutdown" /\ task'.data = task.data
        /\ worker'.pc = worker.pc /\ worker'.data = worker.data
        /\ worker'.reports = worker.reports
        /\ UNCHANGED <<algo, results>>
    BY <1>14, <1>a DEF CancelTask
  <2> QED
    BY <2>1
<1>15. CASE ShutdownExecutor
  BY <1>15 DEF ShutdownExecutor
<1>16. CASE AwaitTermination
  BY <1>16 DEF AwaitTermination
<1>17. CASE OpenLog
  BY <1>17 DEF OpenLog
<1>18. CASE OpenFails
  BY <1>18 DEF OpenFails, NextAlgorithm
<1>19. CASE WriteSection
  BY <1>19 DEF WriteSection
<1>20. CASE LoseSection
  BY <1>20 DEF LoseSection
<1>21. CASE WriteSummary
  BY <1>21 DEF WriteSummary, NextAlgorithm
<1>22. CASE LoseSummary
  BY <1>22 DEF LoseSummary, NextAlgorithm
<1>23. CASE PickUndetermined
  BY <1>23 DEF PickUndetermined
<1> QED
  BY <1>1, <1>2, <1>3, <1>4, <1>5, <1>6, <1>7, <1>8, <1>9, <1>10, <1>11,
     <1>12, <1>13, <1>14, <1>15, <1>16, <1>17, <1>18, <1>19, <1>20, <1>21,
     <1>22, <1>23
     DEF MainNext

\* Every step of the worker thread keeps it.
LEMMA WorkerKeepsSchedule ==
  ASSUME Ownership, Schedule, WorkerNext PROVE Schedule'
<1> USE DEF Schedule, SubmitsUpcoming, WaitsForUpcoming, WorksOnTask,
        ReturnsWhole, AnswersWhole, ResultsArePrefix, Evaluating,
        mainVars, Busy
<1>a. /\ task \in [state : TaskStates, data : Data, stats : Stats]
      /\ worker \in [pc : WorkerPcs, algo : Algos, data : Data, reports : Nat,
                     interrupted : BOOLEAN]
      /\ AnsweredIsIdle /\ WorksForMain
  BY DEF Ownership, TypeOK, ExecTypes
<1>1. CASE TakeTask
  BY <1>1, <1>a DEF TakeTask
<1>2. CASE StartGraph
  BY <1>2, <1>a DEF StartGraph, WorkerGoes
<1>3. CASE CheckInterrupt
  BY <1>3, <1>a DEF CheckInterrupt
<1>4. CASE SummaryBuilt
  BY <1>4, <1>a DEF SummaryBuilt, WorkerGoes
<1>5. CASE SetResult
  <2>1. /\ worker.pc = "return" /\ worker'.pc = "idle"
        /\ worker.algo = algo /\ worker.data = task.data
        /\ worker.reports = DatasetSize
        /\ task'.data = task.data
        /\ UNCHANGED mainVars
    BY <1>5, <1>a DEF SetResult, WorkerGoes, WorksForMain
  <2>2. task.state # "normal"
    BY <2>1, <1>a DEF AnsweredIsIdle
  <2>3. task'.state = "normal" =>
          task'.stats = [algo |-> algo, data |-> task.data,
                         reports |-> DatasetSize]
    BY <1>5, <1>a, <2>1, <2>2 DEF SetResult
  <2> QED
    BY <2>1, <2>3
<1>6. CASE SetException
  <2>1. /\ worker.pc = "throw" /\ worker'.pc = "idle"
        /\ task'.data = task.data
        /\ UNCHANGED mainVars
    BY <1>6, <1>a DEF SetException, WorkerGoes
  <2>2. task'.state # "normal"
    BY <1>6, <2>1, <1>a DEF SetException, AnsweredIsIdle
  <2> QED
    BY <2>1, <2>2
<1>7. CASE WorkerExits
  BY <1>7, <1>a DEF WorkerExits, WorkerGoes
<1>8. CASE CanonizeReturns
  <2>1. /\ worker.pc = "canonize" /\ worker'.pc = "check"
        /\ worker'.data = worker.data
        /\ UNCHANGED <<mainVars, task>>
    BY <1>8, <1>a DEF CanonizeReturns
  <2> QED
    BY <2>1
<1>9. CASE CanonizeFails
  BY <1>9, <1>a DEF CanonizeFails, WorkerGoes
<1> QED
  BY <1>1, <1>2, <1>3, <1>4, <1>5, <1>6, <1>7, <1>8, <1>9
     DEF WorkerNext, WorkerRuns, CallReturns

LEMMA NextKeepsSchedule == Ownership /\ Schedule /\ [Next]_vars => Schedule'
<1> SUFFICES ASSUME Ownership, Schedule, [Next]_vars PROVE Schedule'
  OBVIOUS
<1>1. CASE Start
  BY <1>1 DEF Start, Schedule, SubmitsUpcoming, WaitsForUpcoming, WorksOnTask,
     ReturnsWhole, AnswersWhole, ResultsArePrefix, Evaluating, execVars
<1>2. CASE Kill
  BY <1>2, ExitSchedule DEF Kill
<1>3. CASE UNCHANGED vars
  BY <1>3 DEF vars, mainVars, execVars, Schedule, SubmitsUpcoming,
     WaitsForUpcoming, WorksOnTask, ReturnsWhole, AnswersWhole,
     ResultsArePrefix, Evaluating
<1> QED
  BY <1>1, <1>2, <1>3, MainKeepsSchedule, WorkerKeepsSchedule
     DEF Next, Finished

\* What is measured is what the schedule says comes next, at every step.
THEOREM ScheduleInvariant == Spec => []Schedule
<1> QED
  BY InitSchedule, OwnershipInvariant, NextKeepsSchedule, PTL DEF Spec

\* Whichever data set timed out, failed or was finished while it was being
\* cancelled, an evaluation holds the whole measurements of the first data
\* sets of the schedule (Main.java:166-190).
THEOREM WholeResults == Spec => []ResultsArePrefix
<1>1. Schedule => ResultsArePrefix
  BY DEF Schedule
<1> QED
  BY <1>1, ScheduleInvariant, PTL

-----------------------------------------------------------------------------
(***************************************************************************)
(* LateWork: once the task is cancelled the interrupt flag stays up until  *)
(* the worker looks at it, which it does before it fetches another graph.  *)
(***************************************************************************)
FlagUp == task.state = "cancelled" /\ worker.pc \in {"next", "canonize", "check"}
            => worker.interrupted
OneMore == /\ late <= 1
           /\ late # 0 => task.state = "cancelled" /\ worker.pc # "next"
SubmitsNotCancelled == pc = "submit" => task.state # "cancelled"

Stopping == FlagUp /\ OneMore /\ SubmitsNotCancelled

LEMMA ExitStopping ==
  ASSUME NEW why, JvmExit(why) PROVE Stopping'
  BY DEF JvmExit, NoTask, NoWorker, Stopping, FlagUp, OneMore,
     SubmitsNotCancelled

LEMMA NextKeepsStopping == Ownership /\ Stopping /\ [Next]_vars => Stopping'
<1> SUFFICES ASSUME Ownership, Stopping, [Next]_vars PROVE Stopping'
  OBVIOUS
<1> USE DEF Stopping, FlagUp, OneMore, SubmitsNotCancelled, vars, mainVars,
        execVars, fileVars
<1>a. /\ late \in Nat
      /\ task \in [state : TaskStates, data : Data, stats : Stats]
      /\ worker \in [pc : WorkerPcs, algo : Algos, data : Data, reports : Nat,
                     interrupted : BOOLEAN]
      /\ SubmitIsIdle
  BY DEF Ownership, TypeOK, ExecTypes, HistoryTypes
<1>1. CASE UNCHANGED <<task, worker, late>> /\ pc' # "submit"
  BY <1>1
<1>2. CASE LoadFails \/ PickDone \/ WarmupFails \/ Kill
  BY <1>2, ExitStopping DEF LoadFails, PickDone, WarmupFails, Kill
<1>3. CASE WarmupDone
  BY <1>3 DEF WarmupDone, NoTask, NoWorker
<1>4. CASE SubmitDataset
  <2>1. /\ late = 0 /\ late' = 0
        /\ task' = [state |-> "new", data |-> [rng |-> rng, rules |-> rules],
                    stats |-> NoStats]
    BY <1>4, <1>a DEF SubmitDataset
  <2> QED
    BY <1>4, <2>1 DEF SubmitDataset
<1>5. CASE GetStats
  BY <1>5 DEF GetStats
<1>6. CASE CancelTask
  <2>1. CASE task.state = "new"
    <3>1. late = 0 /\ late' = 0 /\ pc' = "shutdown"
      BY <1>6, <2>1, <1>a DEF CancelTask
    <3>2. worker' = [worker EXCEPT !.interrupted = @ \/ worker.pc \in Busy]
      BY <1>6, <2>1, Zenon DEF CancelTask
    <3>3. worker'.pc = worker.pc
          /\ (worker.pc \in Busy => worker'.interrupted = TRUE)
      BY <3>2, <1>a
    <3> QED
      BY <3>1, <3>3 DEF Busy
  <2>2. CASE task.state # "new"
    BY <1>6, <2>2 DEF CancelTask
  <2> QED
    BY <2>1, <2>2
<1>7. CASE TakeTask
  BY <1>7, <1>a DEF TakeTask
<1>8. CASE StartGraph
  <2>1. /\ worker.pc = "next" /\ worker'.pc = "canonize"
        /\ worker'.interrupted = worker.interrupted
    BY <1>8, <1>a DEF StartGraph, WorkerGoes
  <2> QED
    BY <1>8, <1>a, <2>1 DEF StartGraph
<1>9. CASE CheckInterrupt
  BY <1>9, <1>a DEF CheckInterrupt
<1>10. CASE SummaryBuilt
  BY <1>10, <1>a DEF SummaryBuilt, WorkerGoes
<1>11. CASE SetResult
  BY <1>11, <1>a DEF SetResult, WorkerGoes
<1>12. CASE SetException
  BY <1>12, <1>a DEF SetException, WorkerGoes
<1>13. CASE WorkerExits
  BY <1>13, <1>a DEF WorkerExits, WorkerGoes
<1>14. CASE CanonizeReturns
  <2>1. /\ worker.pc = "canonize" /\ worker'.pc = "check"
        /\ worker'.interrupted = worker.interrupted
    BY <1>14, <1>a DEF CanonizeReturns
  <2> QED
    BY <1>14, <2>1 DEF CanonizeReturns
<1>15. CASE CanonizeFails
  BY <1>15, <1>a DEF CanonizeFails, WorkerGoes
<1>16. CASE UNCHANGED vars
  BY <1>16
<1>17. CASE LoadNatives \/ PickSkip \/ PickUndetermined \/ PickEvaluate
              \/ WarmupCanonize
              \/ SizeLimitReached \/ GetFails \/ GetTimesOut
              \/ ShutdownExecutor \/ AwaitTermination
  BY <1>17, <1>1 DEF LoadNatives, PickSkip, PickUndetermined, PickEvaluate,
     WarmupCanonize,
     SizeLimitReached, GetFails, GetTimesOut, ShutdownExecutor,
     AwaitTermination
<1>18. CASE OpenLog \/ OpenFails \/ WriteSection \/ LoseSection
              \/ WriteSummary \/ LoseSummary
  BY <1>18, <1>1 DEF OpenLog, OpenFails, WriteSection, LoseSection,
     WriteSummary, LoseSummary, NextAlgorithm
<1>19. CASE Start
  BY <1>19, <1>1 DEF Start
<1> QED
  BY <1>2, <1>3, <1>4, <1>5, <1>6, <1>7, <1>8, <1>9, <1>10, <1>11, <1>12,
     <1>13, <1>14, <1>15, <1>16, <1>17, <1>18, <1>19
     DEF Next, Finished, MainNext, WorkerNext, WorkerRuns, CallReturns

\* After task.cancel(true) at most one more graph is begun, however main and
\* the worker interleave (Main.java:188, ReportSummaryStatistics.java:58-64).
THEOREM CancelStops == Spec => []LateWork
<1>1. Init => Stopping
  BY DEF Init, NoTask, NoWorker, Stopping, FlagUp, OneMore,
     SubmitsNotCancelled
<1>2. Stopping => LateWork
  BY DEF Stopping, OneMore, LateWork
<1> QED
  BY <1>1, <1>2, OwnershipInvariant, NextKeepsStopping, PTL DEF Spec

-----------------------------------------------------------------------------
(***************************************************************************)
(* The log files: what a save writes, that every algorithm is accounted    *)
(* for, and that the program keeps its contract.                           *)
(***************************************************************************)

(***************************************************************************)
(* An algorithm is evaluated only while it has no log file; the file that  *)
(* is being written holds the results written so far, unless a write to it *)
(* was lost; and main has left no algorithm behind without a file or a     *)
(* reported error, unless it could not tell whether there is a file.       *)
(***************************************************************************)
FreshLog ==
  pc \in InTry \union {"warmup", "open"} => ~ logs[algo].exists
OpenLogMirrors ==
  pc = "write" =>
    /\ logs[algo].exists /\ saved \in 0 .. Len(results)
    /\ algo \in lost \/ logs[algo].sections = SubSeq(results, 1, saved)
NoneLeftBehind ==
  /\ pc = "down" => algo = 1
  /\ pc # "down" =>
       /\ exit = "none"
       /\ \A a \in 1 .. algo - 1 : logs[a].exists \/ a \in failed \union unseen
  /\ AllAccountedFor

Files == FreshLog /\ OpenLogMirrors /\ NoneLeftBehind

-----------------------------------------------------------------------------
LEMMA NothingWritten ==
  ASSUME NEW s \in Seq(Stats)
  PROVE  SubSeq(s, 1, 0) = << >>
  OBVIOUS

LEMMA WriteNext ==
  ASSUME NEW s \in Seq(Stats), NEW n \in Nat, n < Len(s)
  PROVE  SubSeq(s, 1, n + 1) = Append(SubSeq(s, 1, n), s[n + 1])
  OBVIOUS

LEMMA WriteAll ==
  ASSUME NEW s \in Seq(Stats)
  PROVE  SubSeq(s, 1, Len(s)) = s
  OBVIOUS

LEMMA InitFiles == Init => Files
  BY DEF Init, Files, FreshLog, OpenLogMirrors, NoneLeftBehind,
     AllAccountedFor, InTry

\* The end of the JVM keeps the files; only PickDone calls it normal.
LEMMA ExitFiles ==
  ASSUME Files, NEW why, JvmExit(why), UNCHANGED fileVars,
         why = "normal" => \A a \in Algos : logs[a].exists \/ a \in failed \union unseen
  PROVE  Files'
  BY DEF JvmExit, Files, FreshLog, OpenLogMirrors, NoneLeftBehind,
     AllAccountedFor, InTry, fileVars

\* Every step of main keeps it.
LEMMA MainKeepsFiles ==
  ASSUME Ownership, Files, MainNext PROVE Files'
<1> USE DEF Files, FreshLog, OpenLogMirrors, NoneLeftBehind, AllAccountedFor,
        InTry, mainVars, execVars, fileVars, Algos
<1>a. /\ logs \in [Algos -> Logs] /\ results \in Seq(Stats) /\ saved \in Nat
      /\ algo \in 1 .. NumAlgos + 1 /\ NumAlgos \in Nat
      /\ pc \notin {"down", "load", "pick"} => algo \in Algos
      /\ failed \subseteq Algos /\ unseen \subseteq Algos
  BY ConstantsAssumption DEF Ownership, TypeOK, MainTypes, FileTypes
<1>1. CASE LoadFails
  BY <1>1, ExitFiles DEF LoadFails
<1>2. CASE LoadNatives
  BY <1>2 DEF LoadNatives
<1>3. CASE PickSkip
  BY <1>3, <1>a DEF PickSkip
<1>4. CASE PickEvaluate
  BY <1>4 DEF PickEvaluate
<1>5. CASE PickDone
  <2>1. \A a \in Algos : logs[a].exists \/ a \in failed \union unseen
    BY <1>5, <1>a DEF PickDone
  <2> QED
    BY <1>5, <2>1, ExitFiles DEF PickDone
<1>6. CASE WarmupCanonize
  BY <1>6 DEF WarmupCanonize
<1>7. CASE WarmupFails
  BY <1>7, ExitFiles DEF WarmupFails
<1>8. CASE WarmupDone
  BY <1>8 DEF WarmupDone
<1>9. CASE SubmitDataset
  BY <1>9 DEF SubmitDataset
<1>10. CASE SizeLimitReached
  BY <1>10 DEF SizeLimitReached
<1>11. CASE GetStats
  BY <1>11 DEF GetStats
<1>12. CASE GetFails
  BY <1>12 DEF GetFails
<1>13. CASE GetTimesOut
  BY <1>13 DEF GetTimesOut
<1>14. CASE CancelTask
  BY <1>14 DEF CancelTask
<1>15. CASE ShutdownExecutor
  BY <1>15 DEF ShutdownExecutor
<1>16. CASE AwaitTermination
  BY <1>16 DEF AwaitTermination
<1>17. CASE OpenLog
  <2>1. /\ pc' = "write" /\ saved' = 0 /\ algo \in Algos
        /\ logs' = [logs EXCEPT ![algo] = [exists |-> TRUE, sections |-> << >>,
                                          summary |-> FALSE]]
        /\ UNCHANGED <<algo, results, failed, unseen, lost, exit>>
    BY <1>17, <1>a DEF OpenLog
  <2>2. /\ logs'[algo].exists /\ logs'[algo].sections = SubSeq(results, 1, 0)
        /\ \A a \in Algos : logs[a].exists => logs'[a].exists
    BY <2>1, <1>a, NothingWritten
  <2> QED
    BY <1>17, <2>1, <2>2, <1>a DEF OpenLog
<1>18. CASE OpenFails
  BY <1>18, <1>a DEF OpenFails, NextAlgorithm
<1>19. CASE WriteSection
  <2>1. /\ pc = "write" /\ saved < Len(results) /\ algo \in Algos
        /\ pc' = "write" /\ saved' = saved + 1
        /\ logs' = [logs EXCEPT ![algo].sections =
                                  Append(@, results[saved + 1])]
        /\ UNCHANGED <<algo, results, failed, unseen, lost, exit>>
    BY <1>19, <1>a DEF WriteSection
  <2>2. /\ logs'[algo].sections = Append(logs[algo].sections, results[saved + 1])
        /\ \A a \in Algos : logs'[a].exists = logs[a].exists
    BY <2>1, <1>a DEF Logs
  <2>3. algo \in lost \/ logs'[algo].sections = SubSeq(results', 1, saved')
    BY <2>1, <2>2, <1>a, WriteNext
  <2>4. saved' \in 0 .. Len(results')
    BY <2>1, <1>a
  <2> QED
    BY <2>1, <2>2, <2>3, <2>4, <1>a
<1>20. CASE LoseSection
  BY <1>20, <1>a DEF LoseSection
<1>21. CASE WriteSummary
  <2>1. /\ pc = "write" /\ pc' = "pick" /\ algo' = algo + 1 /\ algo \in Algos
        /\ logs' = [logs EXCEPT ![algo].summary = TRUE]
        /\ UNCHANGED <<failed, unseen, exit>>
    BY <1>21, <1>a DEF WriteSummary, NextAlgorithm
  <2>2. \A a \in Algos : logs'[a].exists = logs[a].exists
    BY <2>1, <1>a DEF Logs
  <2> QED
    BY <2>1, <2>2, <1>a
<1>22. CASE LoseSummary
  BY <1>22, <1>a DEF LoseSummary, NextAlgorithm
<1>23. CASE PickUndetermined
  BY <1>23, <1>a DEF PickUndetermined
<1> QED
  BY <1>1, <1>2, <1>3, <1>4, <1>5, <1>6, <1>7, <1>8, <1>9, <1>10, <1>11,
     <1>12, <1>13, <1>14, <1>15, <1>16, <1>17, <1>18, <1>19, <1>20, <1>21,
     <1>22, <1>23
     DEF MainNext

LEMMA NextKeepsFiles == Ownership /\ Files /\ [Next]_vars => Files'
<1> SUFFICES ASSUME Ownership, Files, [Next]_vars PROVE Files'
  OBVIOUS
<1>1. CASE Start
  BY <1>1 DEF Start, Files, FreshLog, OpenLogMirrors, NoneLeftBehind,
     AllAccountedFor, InTry
<1>2. CASE Kill
  BY <1>2, ExitFiles DEF Kill
<1>3. CASE UNCHANGED vars \/ WorkerNext
  <2>1. UNCHANGED <<mainVars, fileVars, exit>>
    BY <1>3 DEF vars, WorkerNext, WorkerRuns, CallReturns, TakeTask,
       StartGraph, CheckInterrupt, SummaryBuilt, SetResult, SetException,
       WorkerExits, CanonizeReturns, CanonizeFails
  <2> QED
    BY <2>1 DEF Files, FreshLog, OpenLogMirrors, NoneLeftBehind,
       AllAccountedFor, InTry, mainVars, fileVars
<1> QED
  BY <1>1, <1>2, <1>3, MainKeepsFiles DEF Next, Finished

\* The log files, at every step of every run of the program.
THEOREM FilesInvariant == Spec => []Files
<1> QED
  BY InitFiles, OwnershipInvariant, NextKeepsFiles, PTL DEF Spec

\* A run that returns from main has left a log file for every algorithm, or
\* has reported the error that kept it from being created, or could not tell
\* whether there is one (Main.java:127-140).
THEOREM Accounted == Spec => []AllAccountedFor
<1>1. Files => AllAccountedFor
  BY DEF Files, NoneLeftBehind
<1> QED
  BY <1>1, FilesInvariant, PTL

\* The closing table of a file is preceded by a section for each result,
\* unless a write to it was lost (EvaluationResults.java:55-70).
THEOREM TableCloses == Spec => SummaryCloses
<1>1. Ownership /\ Files /\ [Next]_vars =>
        [\A a \in Algos : logs'[a].summary /\ ~ logs[a].summary =>
           a \in lost \/ logs'[a].sections = results]_vars
  <2> SUFFICES ASSUME Ownership, Files, Next, NEW a \in Algos,
                      logs'[a].summary, ~ logs[a].summary
               PROVE  a \in lost \/ logs'[a].sections = results
    OBVIOUS
  <2>1. logs \in [Algos -> Logs] /\ results \in Seq(Stats)
    BY DEF Ownership, TypeOK, MainTypes, FileTypes
  <2>2. logs' # logs
    OBVIOUS
  <2>3. OpenLog \/ WriteSection \/ WriteSummary
    BY <2>2 DEF Next, Start, Kill, Finished, vars, MainNext, WorkerNext,
       WorkerRuns, CallReturns, LoadFails, LoadNatives, PickSkip,
       PickUndetermined, PickEvaluate, PickDone, WarmupCanonize, WarmupFails, WarmupDone,
       SubmitDataset, SizeLimitReached, GetStats, GetFails, GetTimesOut,
       CancelTask, ShutdownExecutor, AwaitTermination, OpenFails, LoseSection,
       LoseSummary, TakeTask, StartGraph, CheckInterrupt, SummaryBuilt,
       SetResult, SetException, WorkerExits, CanonizeReturns, CanonizeFails,
       fileVars
  <2>4. CASE OpenLog
    BY <2>1, <2>4 DEF OpenLog
  <2>5. CASE WriteSection
    BY <2>1, <2>5 DEF WriteSection, Logs
  <2>6. CASE WriteSummary
    <3>1. /\ pc = "write" /\ saved = Len(results)
          /\ logs' = [logs EXCEPT ![algo].summary = TRUE]
      BY <2>6 DEF WriteSummary
    <3>2. a = algo /\ logs'[a].sections = logs[a].sections
      BY <2>1, <3>1 DEF Logs
    <3>3. a \in lost \/ logs[a].sections = SubSeq(results, 1, Len(results))
      BY <3>1, <3>2 DEF Files, OpenLogMirrors
    <3> QED
      BY <2>1, <3>2, <3>3, WriteAll
  <2> QED
    BY <2>3, <2>4, <2>5, <2>6
<1> QED
  BY <1>1, OwnershipInvariant, FilesInvariant, PTL DEF Spec, SummaryCloses

-----------------------------------------------------------------------------
(***************************************************************************)
(* The program keeps its contract.                                         *)
(***************************************************************************)
writerBar == IF pc = "write" THEN algo ELSE 0
turnBar == IF pc = "write" /\ saved > 0
           THEN NextData(results[saved].data) ELSE FirstData

\* Steps that do not touch the files, outside a save.
LEMMA StaysOutside ==
  ASSUME pc # "write", pc' # "write", UNCHANGED fileVars
  PROVE  UNCHANGED Contract!vars
  BY DEF Contract!vars, fileVars

LEMMA ContractInit == Init => Contract!Init
  BY DEF Init, Contract!Init, Contract!Algos, Algos, NoLog, Contract!NoLog,
     FirstData, Contract!FirstData, NoRng

LEMMA CreateInContract ==
  ASSUME Ownership, Files, OpenLog PROVE Contract!Create(algo)
<1>1. algo \in Algos /\ pc = "open" /\ ~ logs[algo].exists /\ 0 \notin Algos
  BY DEF OpenLog, Ownership, TypeOK, MainTypes, Files, FreshLog, Algos
<1> QED
  BY <1>1 DEF OpenLog, Contract!Create, Contract!NewLog, FirstData,
     Contract!FirstData, NoRng

LEMMA ReportInContract ==
  ASSUME Ownership, Schedule, Files, WriteSection PROVE Contract!Report
<1> DEFINE next == results[saved + 1]
<1>1. /\ pc = "write" /\ pc' = "write" /\ saved' = saved + 1
      /\ saved + 1 \in 1 .. Len(results) /\ saved \in Nat
      /\ algo \in Algos /\ algo # 0 /\ results \in Seq(Stats)
      /\ logs' = [logs EXCEPT ![algo].sections = Append(@, next)]
      /\ UNCHANGED <<algo, results, lost>>
  BY DEF WriteSection, Ownership, TypeOK, MainTypes, Algos
<1>2. OnSchedule(results, algo)
  BY <1>1 DEF Schedule, ResultsArePrefix, Evaluating
<1>3. /\ next.algo = algo /\ next.reports = DatasetSize
      /\ next.data.rules <= MaxRules
      /\ next.data = IF saved + 1 = 1 THEN FirstData
                     ELSE NextData(results[saved + 1 - 1].data)
  BY <1>1, <1>2 DEF OnSchedule
<1>4. saved + 1 - 1 = saved /\ (saved + 1 = 1 <=> ~ saved > 0)
  BY <1>1
<1>5. next.data = turnBar
  BY <1>1, <1>3, <1>4 DEF turnBar
<1>6. next = [algo |-> algo, data |-> turnBar, reports |-> DatasetSize]
  <2>1. next \in Stats
    BY <1>1
  <2> QED
    BY <2>1, <1>3, <1>5 DEF Stats
<1>7. turnBar' = NextData(turnBar)
  BY <1>1, <1>5 DEF turnBar
<1>8. writerBar = algo /\ writerBar' = algo
  BY <1>1 DEF writerBar
<1> QED
  BY <1>1, <1>3, <1>5, <1>6, <1>7, <1>8 DEF Contract!Report,
     Contract!Measured, turnBar, writerBar, FirstData, Contract!FirstData,
     NoRng, NextData, Contract!NextData

LEMMA SwallowInContract ==
  ASSUME Ownership, Schedule, LoseSection PROVE Contract!Swallow
<1> DEFINE next == results[saved + 1]
<1>1. /\ pc = "write" /\ pc' = "write" /\ saved' = saved + 1
      /\ saved + 1 \in 1 .. Len(results) /\ saved \in Nat
      /\ algo # 0 /\ lost' = lost \union {algo}
      /\ UNCHANGED <<algo, results, logs>>
  BY DEF LoseSection, Ownership, TypeOK, MainTypes, Algos
<1>2. OnSchedule(results, algo)
  BY <1>1 DEF Schedule, ResultsArePrefix, Evaluating
<1>3. next.data = IF saved + 1 = 1 THEN FirstData
                  ELSE NextData(results[saved + 1 - 1].data)
  BY <1>1, <1>2 DEF OnSchedule
<1>4. saved + 1 - 1 = saved /\ (saved + 1 = 1 <=> ~ saved > 0)
  BY <1>1
<1>5. next.data = turnBar
  BY <1>1, <1>3, <1>4 DEF turnBar
<1>6. turnBar' = NextData(turnBar)
  BY <1>1, <1>5 DEF turnBar
<1>7. writerBar = algo /\ writerBar' = algo
  BY <1>1 DEF writerBar
<1> QED
  BY <1>1, <1>6, <1>7 DEF Contract!Swallow, turnBar, writerBar,
     FirstData, Contract!FirstData, NoRng, NextData, Contract!NextData

LEMMA CloseInContract ==
  ASSUME Ownership, WriteSummary \/ LoseSummary
  PROVE  Contract!Close \/ Contract!LetGo
<1>1. pc = "write" /\ pc' = "pick" /\ algo # 0
  BY DEF WriteSummary, LoseSummary, NextAlgorithm, Ownership, TypeOK,
     MainTypes, Algos
<1>2. CASE WriteSummary
  BY <1>1, <1>2 DEF WriteSummary, Contract!Close, FirstData,
     Contract!FirstData, NoRng
<1>3. CASE LoseSummary
  BY <1>1, <1>3 DEF LoseSummary, Contract!LetGo, FirstData,
     Contract!FirstData, NoRng
<1> QED
  BY <1>2, <1>3

\* The end of the process closes the file that was open, if any.
LEMMA ExitInContract ==
  ASSUME Ownership, NEW why, JvmExit(why), UNCHANGED fileVars
  PROVE  Contract!LetGo \/ UNCHANGED Contract!vars
<1>1. CASE pc = "write"
  <2>1. algo # 0 /\ pc' = "down"
    BY <1>1 DEF JvmExit, Ownership, TypeOK, MainTypes, Algos
  <2> QED
    BY <1>1, <2>1 DEF Contract!LetGo, FirstData, Contract!FirstData, NoRng,
       fileVars
<1>2. CASE pc # "write"
  BY <1>2, StaysOutside DEF JvmExit
<1> QED
  BY <1>1, <1>2

\* Every step of the program is a step of the contract, or none.
LEMMA StepInContract ==
  ASSUME Ownership, Schedule, Files, [Next]_vars
  PROVE  [Contract!Next]_Contract!vars
<1>1. CASE OpenLog
  <2>1. algo \in Contract!Algos
    BY <1>1 DEF OpenLog, Ownership, TypeOK, MainTypes, Algos, Contract!Algos
  <2> QED
    BY <1>1, <2>1, CreateInContract DEF Contract!Next
<1>2. CASE WriteSection
  BY <1>2, ReportInContract DEF Contract!Next
<1>3. CASE LoseSection
  BY <1>3, SwallowInContract DEF Contract!Next
<1>4. CASE WriteSummary \/ LoseSummary
  BY <1>4, CloseInContract DEF Contract!Next
<1>5. CASE LoadFails \/ PickDone \/ WarmupFails \/ Kill
  <2>1. PICK why : JvmExit(why) /\ UNCHANGED fileVars
    BY <1>5 DEF LoadFails, PickDone, WarmupFails, Kill, fileVars
  <2> QED
    BY <2>1, ExitInContract DEF Contract!Next
<1>6. CASE OpenFails
  BY <1>6 DEF OpenFails, NextAlgorithm, Contract!vars
<1>7. CASE Start \/ LoadNatives \/ PickSkip \/ PickUndetermined \/ PickEvaluate
             \/ WarmupCanonize
             \/ WarmupDone \/ SubmitDataset \/ SizeLimitReached \/ GetStats
             \/ GetFails \/ GetTimesOut \/ CancelTask \/ ShutdownExecutor
             \/ AwaitTermination
  <2>1. pc # "write" /\ pc' # "write" /\ UNCHANGED <<logs, lost>>
    BY <1>7 DEF Start, LoadNatives, PickSkip, PickUndetermined, PickEvaluate,
       WarmupCanonize,
       WarmupDone, SubmitDataset, SizeLimitReached, GetStats, GetFails,
       GetTimesOut, CancelTask, ShutdownExecutor, AwaitTermination, fileVars
  <2> QED
    BY <2>1 DEF Contract!vars
<1>8. CASE WorkerNext \/ UNCHANGED vars
  <2>1. UNCHANGED <<mainVars, fileVars>>
    BY <1>8 DEF vars, WorkerNext, WorkerRuns, CallReturns, TakeTask,
       StartGraph, CheckInterrupt, SummaryBuilt, SetResult, SetException,
       WorkerExits, CanonizeReturns, CanonizeFails
  <2> QED
    BY <2>1 DEF Contract!vars, mainVars, fileVars
<1> QED
  BY <1>1, <1>2, <1>3, <1>4, <1>5, <1>6, <1>7, <1>8
     DEF Next, Finished, MainNext

\* Seen from its log files alone, the program with its threads, time limits,
\* restarts and failing writes is the contract.
THEOREM Refinement == Spec => KeepsContract
<1>1. Spec => Contract!Init /\ [][Contract!Next]_Contract!vars
  BY ContractInit, StepInContract, OwnershipInvariant, ScheduleInvariant,
     FilesInvariant, PTL DEF Spec
<1> QED
  BY <1>1 DEF KeepsContract, Contract!Spec

-----------------------------------------------------------------------------
(***************************************************************************)
(* What follows from the contract alone, whatever keeps it: of the files,  *)
(* their writer and the data set that is to be written next nothing is     *)
(* known but the steps of the contract.                                    *)
(***************************************************************************)
AnyData == [rng : [origin : Nat, draws : Nat], rules : Nat]
AnySection == [algo : Contract!Algos, data : AnyData, reports : Nat]
AnyLogs == [exists : BOOLEAN, sections : Seq(AnySection), summary : BOOLEAN]

\* The data set that follows those of s.
Following(s) ==
  IF s = << >> THEN Contract!FirstData ELSE Contract!NextData(s[Len(s)].data)

ContractTypes ==
  /\ logs \in [Contract!Algos -> AnyLogs] /\ writerBar \in 0 .. NumAlgos
  /\ turnBar \in AnyData /\ lost \subseteq Contract!Algos

\* An open file without a hole is continued where it ends.
ContinuesFile ==
  writerBar # 0 /\ writerBar \notin lost =>
    turnBar = Following(logs[writerBar].sections)

ContractKept ==
  ContractTypes /\ ContinuesFile /\ Contract!WholeMeasurements /\ Contract!Comparable

-----------------------------------------------------------------------------
LEMMA ScheduleTypes ==
  Contract!FirstData \in AnyData /\ \A d \in AnyData : Contract!NextData(d) \in AnyData
<1> USE ConstantsAssumption
<1>1. Contract!FirstData \in AnyData
  BY DEF Contract!FirstData, AnyData
<1>2. ASSUME NEW d \in AnyData PROVE Contract!NextData(d) \in AnyData
  <2>1. /\ d.rng \in [origin : Nat, draws : Nat]
        /\ d.rules * GrowthFactor \in Nat
    BY DEF AnyData
  <2>2. [d.rng EXCEPT !.draws = @ + DatasetSize]
          = [origin |-> d.rng.origin, draws |-> d.rng.draws + DatasetSize]
    BY <2>1
  <2> QED
    BY <2>1, <2>2 DEF Contract!NextData, AnyData
<1> QED
  BY <1>1, <1>2

\* A file that is continued by its upcoming data set stays on the schedule,
\* and agrees with every file it agreed with before.
LEMMA AppendUpcoming ==
  ASSUME NEW s \in Seq(AnySection), NEW a, NEW m \in AnySection,
         Contract!OnSchedule(s, a), m.algo = a, m.reports = DatasetSize, m.data = Following(s),
         m.data.rules <= MaxRules
  PROVE  /\ Contract!OnSchedule(Append(s, m), a)
         /\ Following(Append(s, m)) = Contract!NextData(m.data)
         /\ \A t \in Seq(AnySection) : \A b :
              Contract!OnSchedule(t, b) /\ (\A k \in 1 .. Len(s) :
                                     k <= Len(t) => s[k].data = t[k].data)
              => \A k \in 1 .. Len(Append(s, m)) :
                   k <= Len(t) => Append(s, m)[k].data = t[k].data
<1> DEFINE r == Append(s, m)
<1>1. /\ Len(r) = Len(s) + 1 /\ Len(s) \in Nat
      /\ r[Len(r)] = m /\ r # << >>
      /\ \A k \in 1 .. Len(s) : r[k] = s[k]
  OBVIOUS
<1>2. Following(r) = Contract!NextData(m.data)
  BY <1>1 DEF Following
<1>3. ASSUME NEW k \in 1 .. Len(r)
      PROVE  /\ r[k].algo = a /\ r[k].reports = DatasetSize
             /\ r[k].data.rules <= MaxRules
             /\ r[k].data = IF k = 1 THEN Contract!FirstData
                                     ELSE Contract!NextData(r[k - 1].data)
  <2>1. CASE k \in 1 .. Len(s)
    BY <1>1, <2>1 DEF Contract!OnSchedule
  <2>2. CASE k = Len(s) + 1
    <3>1. r[k] = m /\ (k = 1 => s = << >>)
      BY <1>1, <2>2
    <3>2. k # 1 => s # << >> /\ r[k - 1] = s[Len(s)]
      BY <1>1, <2>2
    <3> QED
      BY <3>1, <3>2 DEF Following
  <2> QED
    BY <1>1, <2>1, <2>2
<1>4. ASSUME NEW t \in Seq(AnySection), NEW b, Contract!OnSchedule(t, b),
             \A k \in 1 .. Len(s) : k <= Len(t) => s[k].data = t[k].data,
             NEW k \in 1 .. Len(r), k <= Len(t)
      PROVE  r[k].data = t[k].data
  <2>1. CASE k \in 1 .. Len(s)
    BY <1>1, <1>4, <2>1
  <2>2. CASE k = Len(s) + 1
    <3>1. t[k].data = IF k = 1 THEN Contract!FirstData
                               ELSE Contract!NextData(t[k - 1].data)
      BY <1>1, <1>4, <2>2 DEF Contract!OnSchedule
    <3>2. k = 1 => s = << >>
      BY <1>1, <2>2
    <3>3. k # 1 => s # << >> /\ t[k - 1].data = s[Len(s)].data
      BY <1>1, <1>4, <2>2
    <3> QED
      BY <1>1, <2>2, <3>1, <3>2, <3>3 DEF Following
  <2> QED
    BY <1>1, <2>1, <2>2
<1> QED
  BY <1>2, <1>3, <1>4 DEF Contract!OnSchedule

LEMMA InitKept ==
  ASSUME Contract!Init
  PROVE  ContractKept
<1> USE ConstantsAssumption
<1>1. Contract!NoLog \in AnyLogs /\ Contract!NoLog.sections = << >>
  BY DEF Contract!NoLog, AnyLogs
<1>2. ContractTypes
  BY <1>1, ScheduleTypes DEF Contract!Init, ContractTypes, writerBar, turnBar
<1>3. \A a \in Contract!Algos : logs[a].sections = << >>
  BY <1>1 DEF Contract!Init, writerBar, turnBar
<1> QED
  BY <1>2, <1>3 DEF Contract!Init, ContractKept, ContinuesFile,
     Contract!WholeMeasurements, Contract!Comparable,
     Contract!OnSchedule, writerBar, turnBar

LEMMA CreateKeeps ==
  ASSUME ContractKept, NEW c \in Contract!Algos, Contract!Create(c)
  PROVE  ContractKept'
<1> USE ConstantsAssumption
<1>1. Contract!NewLog \in AnyLogs /\ Contract!NewLog.sections = << >>
  BY DEF Contract!NewLog, AnyLogs
<1>2. /\ logs' = [logs EXCEPT ![c] = Contract!NewLog]
      /\ writerBar' = c /\ turnBar' = Contract!FirstData /\ lost' = lost
  BY DEF Contract!Create, writerBar, turnBar
<1>3. ContractTypes'
  BY <1>1, <1>2, ScheduleTypes DEF ContractKept, ContractTypes, Contract!Algos
<1>4. \A a \in Contract!Algos :
        logs'[a].sections = IF a = c THEN << >> ELSE logs[a].sections
  BY <1>1, <1>2 DEF ContractKept, ContractTypes
<1>5. ContinuesFile'
  BY <1>2, <1>4 DEF ContinuesFile, Following
<1>6. Contract!WholeMeasurements'
  BY <1>2, <1>4 DEF ContractKept, Contract!WholeMeasurements, Contract!OnSchedule
<1>7. Contract!Comparable'
  BY <1>2, <1>4 DEF ContractKept, Contract!Comparable
<1> QED
  BY <1>3, <1>5, <1>6, <1>7 DEF ContractKept

LEMMA ReportKeeps ==
  ASSUME ContractKept, Contract!Report
  PROVE  ContractKept'
<1> USE ConstantsAssumption
<1> DEFINE old == logs[writerBar].sections
           m == Contract!Measured(writerBar)
<1>1. /\ writerBar \in Contract!Algos /\ turnBar \in AnyData /\ turnBar.rules <= MaxRules
      /\ logs \in [Contract!Algos -> AnyLogs] /\ logs[writerBar] \in AnyLogs
      /\ old \in Seq(AnySection)
  BY DEF ContractKept, ContractTypes, Contract!Report, Contract!Algos, AnyLogs,
     writerBar, turnBar
<1>2. /\ m \in AnySection /\ m.algo = writerBar
      /\ m.data = turnBar /\ m.reports = DatasetSize
  BY <1>1 DEF Contract!Measured, AnySection, turnBar
<1>3. /\ logs' = [logs EXCEPT ![writerBar].sections = Append(@, m)]
      /\ turnBar' = Contract!NextData(turnBar) /\ writerBar' = writerBar /\ lost' = lost
  BY DEF Contract!Report, writerBar, turnBar
<1>4. ContractTypes'
  <2>1. Append(old, m) \in Seq(AnySection)
    BY <1>1, <1>2
  <2>2. [logs[writerBar] EXCEPT !.sections = Append(@, m)] \in AnyLogs
    BY <1>1, <2>1 DEF AnyLogs
  <2>3. logs' \in [Contract!Algos -> AnyLogs]
    BY <1>1, <1>3, <2>2
  <2> QED
    BY <1>1, <1>3, <2>3, ScheduleTypes DEF ContractKept, ContractTypes
<1>5. \A a \in Contract!Algos :
        logs'[a].sections = IF a = writerBar THEN Append(old, m)
                                          ELSE logs[a].sections
  BY <1>1, <1>3 DEF AnyLogs
<1>6. CASE writerBar \in lost
  BY <1>3, <1>4, <1>5, <1>6 DEF ContractKept, ContinuesFile, Contract!WholeMeasurements,
     Contract!Comparable
<1>7. CASE writerBar \notin lost
  <2>1. Contract!OnSchedule(old, writerBar) /\ turnBar = Following(old)
    BY <1>1, <1>7 DEF ContractKept, Contract!WholeMeasurements, ContinuesFile
  <2>2. /\ Contract!OnSchedule(Append(old, m), writerBar)
        /\ Following(Append(old, m)) = Contract!NextData(turnBar)
        /\ \A t \in Seq(AnySection) : \A b :
             Contract!OnSchedule(t, b) /\ (\A k \in 1 .. Len(old) :
                                    k <= Len(t) => old[k].data = t[k].data)
             => \A k \in 1 .. Len(Append(old, m)) :
                  k <= Len(t) => Append(old, m)[k].data = t[k].data
    <3>1. /\ old \in Seq(AnySection) /\ m \in AnySection /\ m.algo = writerBar
          /\ m.reports = DatasetSize /\ m.data = turnBar /\ m.data.rules <= MaxRules
      BY <1>1, <1>2
    <3> HIDE ConstantsAssumption DEF old, m
    <3>2. m.data = Following(old)
      BY <2>1, <3>1
    <3> QED
      BY <2>1, <3>1, <3>2, AppendUpcoming
  <2>3. ContinuesFile'
    BY <1>1, <1>3, <1>5, <2>2 DEF ContinuesFile
  <2>4. Contract!WholeMeasurements'
    BY <1>3, <1>5, <2>2 DEF ContractKept, Contract!WholeMeasurements
  <2>5. ASSUME NEW b \in Contract!Algos \ lost, b # writerBar,
               NEW k \in 1 .. Len(Append(old, m)), k <= Len(logs[b].sections)
        PROVE  Append(old, m)[k].data = logs[b].sections[k].data
    <3>1. /\ logs[b].sections \in Seq(AnySection)
          /\ Contract!OnSchedule(logs[b].sections, b)
          /\ \A i \in 1 .. Len(old) :
               i <= Len(logs[b].sections) =>
                 old[i].data = logs[b].sections[i].data
      BY <1>1, <1>7 DEF ContractKept, Contract!WholeMeasurements,
         Contract!Comparable, AnyLogs
    <3> QED
      BY <2>2, <2>5, <3>1
  <2>6. Contract!Comparable'
    <3> SUFFICES ASSUME NEW a \in Contract!Algos \ lost,
                        NEW b \in Contract!Algos \ lost,
                        NEW k \in 1 .. Len(logs'[a].sections),
                        k <= Len(logs'[b].sections)
                 PROVE  logs'[a].sections[k].data = logs'[b].sections[k].data
      BY <1>3 DEF Contract!Comparable
    <3>1. CASE a # writerBar /\ b # writerBar
      BY <1>5, <3>1 DEF ContractKept, Contract!Comparable
    <3>2. CASE a = b
      BY <3>2
    <3>3. CASE a = writerBar /\ b # writerBar
      BY <1>5, <2>5, <3>3
    <3>4. CASE a # writerBar /\ b = writerBar
      <4>1. /\ logs[a].sections \in Seq(AnySection)
            /\ Append(old, m) \in Seq(AnySection)
        BY <1>1, <1>2 DEF AnyLogs
      <4>2. k \in 1 .. Len(Append(old, m)) /\ k <= Len(logs[a].sections)
        <5>1. /\ k \in 1 .. Len(logs[a].sections)
              /\ k <= Len(Append(old, m))
          <6>1. /\ logs'[a].sections = logs[a].sections
                /\ logs'[b].sections = Append(old, m)
            BY <1>5, <3>4
          <6> QED
            BY <6>1
        <5>2. /\ Len(logs[a].sections) \in Nat
              /\ Len(Append(old, m)) \in Nat
          BY <4>1
        <5> QED
          BY <5>1, <5>2
      <4> QED
        BY <1>5, <2>5, <3>4, <4>2
    <3> QED
      BY <3>1, <3>2, <3>3, <3>4
  <2> QED
    BY <1>4, <2>3, <2>4, <2>6 DEF ContractKept
<1> QED
  BY <1>6, <1>7

\* The other steps leave the sections of all files alone.
LEMMA OthersKeep ==
  ASSUME ContractKept, Contract!Swallow \/ Contract!Close \/ Contract!LetGo
  PROVE  ContractKept'
<1> USE ConstantsAssumption
<1>1. /\ writerBar \in Contract!Algos
      /\ lost \subseteq lost' /\ lost' \subseteq Contract!Algos
      /\ writerBar' # 0 => writerBar' \in lost'
      /\ writerBar' \in 0 .. NumAlgos
  BY DEF ContractKept, ContractTypes, Contract!Algos, Contract!Swallow,
     Contract!Close, Contract!LetGo, writerBar, turnBar
<1>2. logs' \in [Contract!Algos -> AnyLogs]
      /\ \A a \in Contract!Algos : logs'[a].sections = logs[a].sections
  <2>1. CASE Contract!Close
    <3>1. [logs[writerBar] EXCEPT !.summary = TRUE] \in AnyLogs
      BY <1>1 DEF ContractKept, ContractTypes, AnyLogs
    <3> QED
      BY <1>1, <2>1, <3>1 DEF Contract!Close, ContractKept, ContractTypes, AnyLogs,
         writerBar, turnBar
  <2>2. CASE logs' = logs
    BY <2>2 DEF ContractKept, ContractTypes
  <2> QED
    BY <2>1, <2>2 DEF Contract!Swallow, Contract!LetGo, writerBar, turnBar
<1>3. turnBar' \in AnyData
  BY ScheduleTypes DEF ContractKept, ContractTypes, Contract!Swallow,
     Contract!Close, Contract!LetGo, writerBar, turnBar
<1>4. ContractTypes' /\ ContinuesFile'
  BY <1>1, <1>2, <1>3 DEF ContractTypes, ContinuesFile
<1>5. Contract!WholeMeasurements' /\ Contract!Comparable'
  BY <1>1, <1>2 DEF ContractKept, Contract!WholeMeasurements, Contract!Comparable
<1> QED
  BY <1>4, <1>5 DEF ContractKept

LEMMA NextKeeps ==
  ASSUME ContractKept, [Contract!Next]_Contract!vars
  PROVE  ContractKept'
<1> USE ConstantsAssumption
<1>1. CASE UNCHANGED Contract!vars
  BY <1>1 DEF Contract!vars, ContractKept, ContractTypes, ContinuesFile,
     Contract!WholeMeasurements, Contract!Comparable, writerBar, turnBar
<1> QED
  BY <1>1, CreateKeeps, ReportKeeps, OthersKeep DEF Contract!Next

-----------------------------------------------------------------------------
\* Files none of whose writes were swallowed hold whole measurements of the
\* first data sets of the schedule, and agree where both have a section.
THEOREM FilesComparable ==
  Contract!Spec => [](Contract!WholeMeasurements /\ Contract!Comparable)
<1>1. Contract!Init => ContractKept
  BY InitKept
<1>2. ContractKept /\ [Contract!Next]_Contract!vars => ContractKept'
  BY NextKeeps
<1>3. ContractKept => Contract!WholeMeasurements /\ Contract!Comparable
  BY DEF ContractKept
<1> QED
  BY <1>1, <1>2, <1>3, PTL DEF Contract!Spec

\* A file that is not open never changes again.
THEOREM FilesFrozen ==
  Contract!Spec => Contract!Frozen
<1>1. Contract!Init => ContractKept
  BY InitKept
<1>2. ContractKept /\ [Contract!Next]_Contract!vars => ContractKept'
  BY NextKeeps
<1>3. ContractKept /\ [Contract!Next]_Contract!vars =>
        [\A a \in Contract!Algos :
           logs[a].exists /\ a # (IF pc = "write" THEN algo ELSE 0) =>
             logs'[a] = logs[a]]_Contract!vars
  <2> SUFFICES ASSUME ContractKept, Contract!Next, NEW a \in Contract!Algos,
                      logs[a].exists, a # writerBar
               PROVE  logs'[a] = logs[a]
    BY DEF writerBar
  <2>1. logs \in [Contract!Algos -> AnyLogs]
    BY DEF ContractKept, ContractTypes
  <2>2. ASSUME NEW c \in Contract!Algos, Contract!Create(c) PROVE logs'[a] = logs[a]
    BY <2>1, <2>2 DEF Contract!Create, writerBar, turnBar
  <2>3. CASE Contract!Report \/ Contract!Close
    BY <2>1, <2>3 DEF Contract!Report, Contract!Close, writerBar, turnBar
  <2>4. CASE Contract!Swallow \/ Contract!LetGo
    BY <2>4 DEF Contract!Swallow, Contract!LetGo, writerBar, turnBar
  <2> QED
    BY <2>2, <2>3, <2>4 DEF Contract!Next
<1> QED
  BY <1>1, <1>2, <1>3, PTL DEF Contract!Spec, Contract!Frozen

\* Log files whose writes succeeded agree on the data set of every section
\* both have, whatever was killed or repeated in between (Main.java:127-140,
\* 166-176).
THEOREM ComparableLogs == Spec => []LogsComparable
<1>1. Contract!Spec => [](Contract!WholeMeasurements /\ Contract!Comparable)
  BY FilesComparable, ConstantsAssumption
<1>2. Contract!Comparable => LogsComparable
  BY DEF Contract!Comparable, LogsComparable, Contract!Algos, Algos
<1> QED
  BY <1>1, <1>2, Refinement, PTL DEF KeepsContract

\* No step changes a log file that this run of the program is not writing
\* (Main.java:129-134).
THEOREM FrozenLogs == Spec => LogsFrozen
<1>1. Contract!Spec => Contract!Frozen
  BY FilesFrozen, ConstantsAssumption
<1>2. [\A a \in Contract!Algos :
          logs[a].exists /\ a # (IF pc = "write" THEN algo ELSE 0) =>
            logs'[a] = logs[a]]_Contract!vars
      => [\A a \in Algos : logs[a].exists /\ ~ (pc = "write" /\ a = algo) =>
            logs'[a] = logs[a]]_vars
  BY DEF Contract!Algos, Algos, Contract!vars, writerBar, turnBar
<1> QED
  BY <1>1, <1>2, Refinement, PTL DEF KeepsContract, Contract!Frozen, LogsFrozen
=============================================================================
