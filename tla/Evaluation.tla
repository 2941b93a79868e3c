----------------------------- MODULE Evaluation -----------------------------
(***************************************************************************)
(* The evaluation of all algorithms by one run of the program after the    *)
(* other: the loop of Main.main over the list of algorithms, the main      *)
(* thread in evaluateAlgorithm, the single worker thread of its executor   *)
(* in the constructor of ReportSummaryStatistics, the time limit that      *)
(* races with the worker, and the log files, the only state that survives  *)
(* the end of the process.                                                 *)
(*                                                                         *)
(* What is abstracted: a measurement is counted, its times are left out;   *)
(* a data set is the state of the random generator it was drawn from and   *)
(* its number of rule applications; the algorithms are the positions of    *)
(* the list Main.algorithms.                                               *)
(***************************************************************************)
EXTENDS Integers, Sequences

CONSTANTS
  NumAlgos,      \* length of Main.algorithms
  WarmupSize,    \* graphs in the warm-up data set (10 in the code)
  DatasetSize,   \* Main.DATASET_SIZE
  MinRules,      \* Main.MIN_RULES
  MaxRules,      \* Main.MAX_RULES
  GrowthFactor,  \* Main.RULE_GROWTH_FACTOR
  MaxRuns,       \* bound: how often the program is started
  MaxFaults      \* bound: how many file operations fail

ASSUME ConstantsAssumption ==
  /\ NumAlgos \in Nat \ {0}
  /\ WarmupSize \in Nat
  /\ DatasetSize \in Nat \ {0}
  /\ MinRules \in Nat \ {0}
  /\ MaxRules \in Nat
  /\ MinRules <= MaxRules
  /\ GrowthFactor \in Nat \ {0, 1}
  /\ MaxRuns \in Nat
  /\ MaxFaults \in Nat

\* 'i *= RULE_GROWTH_FACTOR' does not wrap: the loop leaves the range of an int
\* only after its guard has ended it.
ASSUME NoOverflowAssumption == MaxRules <= 2147483647 \div GrowthFactor

VARIABLES
  \* main thread
  pc,       \* where main is
  algo,     \* position in the list of algorithms
  rules,    \* the loop variable i of evaluateAlgorithm
  warm,     \* warm-up graphs canonized so far
  rng,      \* gMark's random generator: its origin and the graphs drawn since
  results,  \* EvaluationResults.results, in insertion order
  saved,    \* entries of results written by save so far
  \* executor and worker thread
  task,     \* the FutureTask of the last submit
  stop,     \* executor.shutdown() was called
  worker,   \* the worker thread: its pc, what it works on, its interrupt flag
  \* files and reporting
  logs,     \* the log files, one per algorithm
  failed,   \* algorithms whose save error this run reported
  unseen,   \* algorithms this run skipped without having seen a log (history)
  \* the environment and history
  runs,     \* starts of the program so far
  faults,   \* file operations that failed so far
  lost,     \* algorithms with a write to their log that failed (history)
  exit,     \* how the last run ended (history)
  late      \* graphs started on the cancelled task (history)

mainVars == <<pc, algo, rules, warm, rng, results, saved>>
execVars == <<task, stop, worker>>
fileVars == <<logs, failed, unseen, faults, lost>>
vars == <<mainVars, execVars, fileVars, runs, exit, late>>

Algos == 1 .. NumAlgos

(***************************************************************************)
(* Values.  The generator's origin is 0 once setRandomSeed(SEED) was       *)
(* called; before, it is the run, each of which starts from fresh entropy. *)
(***************************************************************************)
Rng == [origin : Nat, draws : Nat]
Data == [rng : Rng, rules : Nat]
Stats == [algo : Algos, data : Data, reports : Nat]

NoRng == [origin |-> 0, draws |-> 0]
NoData == [rng |-> NoRng, rules |-> 0]
NoStats == [algo |-> 1, data |-> NoData, reports |-> 0]
NoTask == [state |-> "none", data |-> NoData, stats |-> NoStats]
NoWorker == [pc |-> "none", algo |-> 1, data |-> NoData, reports |-> 0,
             interrupted |-> FALSE]
NoLog == [exists |-> FALSE, sections |-> << >>, summary |-> FALSE]

Busy == {"next", "canonize", "check", "return", "throw"}

\* GraphDataSet.fromCPQ draws n graphs from the generator.
Draw(n) == [rng EXCEPT !.draws = @ + n]

(***************************************************************************)
(* The end of the JVM, for whatever reason: everything but the files and   *)
(* what was reported is gone.                                              *)
(***************************************************************************)
JvmExit(why) ==
  /\ pc' = "down"
  /\ exit' = why
  /\ algo' = 1 /\ rules' = MinRules /\ warm' = 0 /\ rng' = NoRng
  /\ results' = << >> /\ saved' = 0
  /\ task' = NoTask /\ stop' = FALSE /\ worker' = NoWorker
  /\ late' = 0

Init ==
  /\ pc = "down" /\ exit = "none"
  /\ algo = 1 /\ rules = MinRules /\ warm = 0 /\ rng = NoRng
  /\ results = << >> /\ saved = 0
  /\ task = NoTask /\ stop = FALSE /\ worker = NoWorker
  /\ logs = [a \in Algos |-> NoLog]
  /\ failed = {} /\ unseen = {} /\ lost = {}
  /\ runs = 0 /\ faults = 0 /\ late = 0

-----------------------------------------------------------------------------
(***************************************************************************)
(* Main.main.                                                              *)
(***************************************************************************)

\* The operator starts the program.
Start ==
  /\ pc = "down" /\ runs < MaxRuns
  /\ runs' = runs + 1
  /\ pc' = "load" /\ exit' = "none" /\ failed' = {} /\ unseen' = {}
  /\ rng' = [origin |-> runs', draws |-> 0]
  /\ UNCHANGED <<algo, rules, warm, results, saved, execVars, logs, faults,
                 lost, late>>

\* A library is missing or does not load: main prints the error and returns.
LoadFails ==
  /\ pc = "load"
  /\ JvmExit("natives")
  /\ UNCHANGED <<fileVars, runs>>

LoadNatives ==
  /\ pc = "load"
  /\ pc' = "pick"
  /\ UNCHANGED <<algo, rules, warm, rng, results, saved, execVars, fileVars,
                 runs, exit, late>>

\* The log file exists: the algorithm is skipped, whatever the file holds.
PickSkip ==
  /\ pc = "pick" /\ algo <= NumAlgos
  /\ logs[algo].exists
  /\ algo' = algo + 1
  /\ UNCHANGED <<pc, rules, warm, rng, results, saved, execVars, fileVars,
                 runs, exit, late>>

\* Files.notExists is false as well when the file system does not tell
\* whether the file is there: such an algorithm is skipped like the others.
PickUndetermined ==
  /\ pc = "pick" /\ algo <= NumAlgos /\ faults < MaxFaults
  /\ faults' = faults + 1 /\ unseen' = unseen \union {algo}
  /\ algo' = algo + 1
  /\ UNCHANGED <<pc, rules, warm, rng, results, saved, execVars, logs, failed,
                 lost, runs, exit, late>>

\* Mutant: no look at the file system.
PickEvaluateAlways ==
  /\ pc = "pick" /\ algo <= NumAlgos
  /\ pc' = "warmup" /\ warm' = 0 /\ rng' = Draw(WarmupSize)
  /\ UNCHANGED <<algo, rules, results, saved, execVars, fileVars, runs, exit,
                 late>>

\* evaluateAlgorithm is entered and draws the warm-up data set.
PickEvaluate ==
  /\ pc = "pick" /\ algo <= NumAlgos
  /\ ~ logs[algo].exists
  /\ pc' = "warmup" /\ warm' = 0 /\ rng' = Draw(WarmupSize)
  /\ UNCHANGED <<algo, rules, results, saved, execVars, fileVars, runs, exit,
                 late>>

PickDone ==
  /\ pc = "pick" /\ algo > NumAlgos
  /\ JvmExit("normal")
  /\ UNCHANGED <<fileVars, runs>>

-----------------------------------------------------------------------------
(***************************************************************************)
(* Main.evaluateAlgorithm, up to and including the finally block.          *)
(***************************************************************************)

\* A warm-up call returns: the times, or null, which nobody looks at.
WarmupCanonize ==
  /\ pc = "warmup" /\ warm < WarmupSize
  /\ warm' = warm + 1
  /\ UNCHANGED <<pc, algo, rules, rng, results, saved, execVars, fileVars,
                 runs, exit, late>>

\* A warm-up call throws: nothing catches it, the main thread dies.
WarmupFails ==
  /\ pc = "warmup" /\ warm < WarmupSize
  /\ JvmExit("uncaught")
  /\ UNCHANGED <<fileVars, runs>>

\* Mutants: the generator is not seeded; the results are those of a static
\* field.
WarmupDoneUnseeded ==
  /\ pc = "warmup" /\ warm = WarmupSize
  /\ task' = NoTask /\ stop' = FALSE /\ worker' = NoWorker
  /\ results' = << >> /\ saved' = 0
  /\ rules' = MinRules /\ late' = 0
  /\ pc' = "submit"
  /\ UNCHANGED <<algo, warm, rng, fileVars, runs, exit>>

WarmupDoneSharedResults ==
  /\ pc = "warmup" /\ warm = WarmupSize
  /\ rng' = [origin |-> 0, draws |-> 0]
  /\ task' = NoTask /\ stop' = FALSE /\ worker' = NoWorker
  /\ rules' = MinRules /\ saved' = 0 /\ late' = 0
  /\ pc' = "submit"
  /\ UNCHANGED <<algo, warm, results, fileVars, runs, exit>>

\* The generator is seeded; a new executor and empty results are created.
WarmupDone ==
  /\ pc = "warmup" /\ warm = WarmupSize
  /\ rng' = [origin |-> 0, draws |-> 0]
  /\ task' = NoTask /\ stop' = FALSE /\ worker' = NoWorker
  /\ results' = << >> /\ saved' = 0
  /\ rules' = MinRules /\ late' = 0
  /\ pc' = "submit"
  /\ UNCHANGED <<algo, warm, fileVars, runs, exit>>

\* The next data set is generated and given to the executor, whose thread
\* is created by the first submit.
SubmitDataset ==
  /\ pc = "submit" /\ rules <= MaxRules
  /\ task' = [state |-> "new", data |-> [rng |-> rng, rules |-> rules],
              stats |-> NoStats]
  /\ rng' = Draw(DatasetSize)
  /\ worker' = [worker EXCEPT !.pc = IF @ = "none" THEN "idle" ELSE @]
  /\ pc' = "wait"
  /\ UNCHANGED <<algo, rules, warm, results, saved, stop, fileVars, runs,
                 exit, late>>

SizeLimitReached ==
  /\ pc = "submit" /\ rules > MaxRules
  /\ pc' = "shutdown"
  /\ UNCHANGED <<algo, rules, warm, rng, results, saved, execVars, fileVars,
                 runs, exit, late>>

\* task.get returns in time: addRun, then the next loop iteration.
GetStats ==
  /\ pc = "wait" /\ task.state = "normal"
  /\ results' = Append(results, task.stats)
  /\ rules' = rules * GrowthFactor
  /\ pc' = "submit"
  /\ UNCHANGED <<algo, warm, rng, saved, execVars, fileVars, runs, exit, late>>

\* Mutant: the exception leaves evaluateAlgorithm and main skips the save.
GetFailsUncaught ==
  /\ pc = "wait" /\ task.state = "exceptional"
  /\ pc' = "pick" /\ algo' = algo + 1
  /\ UNCHANGED <<rules, warm, rng, results, saved, execVars, fileVars, runs,
                 exit, late>>

\* task.get throws an ExecutionException.
GetFails ==
  /\ pc = "wait" /\ task.state = "exceptional"
  /\ pc' = "shutdown"
  /\ UNCHANGED <<algo, rules, warm, rng, results, saved, execVars, fileVars,
                 runs, exit, late>>

\* MAX_RUNTIME elapses before the task is done.
GetTimesOut ==
  /\ pc = "wait" /\ task.state = "new"
  /\ pc' = "cancel"
  /\ UNCHANGED <<algo, rules, warm, rng, results, saved, execVars, fileVars,
                 runs, exit, late>>

\* Mutant: task.cancel(false).
CancelTaskGently ==
  /\ pc = "cancel"
  /\ task' = IF task.state = "new" THEN [task EXCEPT !.state = "cancelled"]
             ELSE task
  /\ pc' = "shutdown"
  /\ UNCHANGED <<algo, rules, warm, rng, results, saved, stop, worker,
                 fileVars, runs, exit, late>>

\* task.cancel(true).  The worker may have finished in the meantime, in
\* which case nothing happens; the thread is interrupted only if it runs
\* the task.
CancelTask ==
  /\ pc = "cancel"
  /\ IF task.state = "new"
     THEN /\ task' = [task EXCEPT !.state = "cancelled"]
          /\ worker' = [worker EXCEPT !.interrupted = @ \/ worker.pc \in Busy]
     ELSE UNCHANGED <<task, worker>>
  /\ pc' = "shutdown"
  /\ UNCHANGED <<algo, rules, warm, rng, results, saved, stop, fileVars, runs,
                 exit, late>>

\* Mutant: the executor is not shut down.
ShutdownForgotten ==
  /\ pc = "shutdown"
  /\ pc' = "await"
  /\ UNCHANGED <<algo, rules, warm, rng, results, saved, execVars, fileVars,
                 runs, exit, late>>

ShutdownExecutor ==
  /\ pc = "shutdown"
  /\ stop' = TRUE
  /\ pc' = "await"
  /\ UNCHANGED <<algo, rules, warm, rng, results, saved, task, worker,
                 fileVars, runs, exit, late>>

\* Mutant: awaitTermination gives up.
AwaitTerminationBriefly ==
  /\ pc = "await"
  /\ pc' = "open"
  /\ UNCHANGED <<algo, rules, warm, rng, results, saved, execVars, fileVars,
                 runs, exit, late>>

\* awaitTermination has no time limit to speak of: Long.MAX_VALUE days.
AwaitTermination ==
  /\ pc = "await" /\ worker.pc = "terminated"
  /\ pc' = "open"
  /\ UNCHANGED <<algo, rules, warm, rng, results, saved, execVars, fileVars,
                 runs, exit, late>>

-----------------------------------------------------------------------------
(***************************************************************************)
(* EvaluationResults.save.  PrintStream never throws: a write that fails   *)
(* is lost and the later ones are still tried.                             *)
(***************************************************************************)
NextAlgorithm ==
  /\ pc' = "pick" /\ algo' = algo + 1

\* createDirectories and newOutputStream succeed: the file exists, empty.
OpenLog ==
  /\ pc = "open"
  /\ logs' = [logs EXCEPT ![algo] = [exists |-> TRUE, sections |-> << >>,
                                     summary |-> FALSE]]
  /\ saved' = 0
  /\ pc' = "write"
  /\ UNCHANGED <<algo, rules, warm, rng, results, execVars, failed, unseen,
                 faults, lost, runs, exit, late>>

\* They throw an IOException: main reports it and goes on.
OpenFails ==
  /\ pc = "open" /\ faults < MaxFaults
  /\ faults' = faults + 1
  /\ failed' = failed \union {algo}
  /\ NextAlgorithm
  /\ UNCHANGED <<rules, warm, rng, results, saved, execVars, logs, unseen,
                 lost, runs, exit, late>>

WriteSection ==
  /\ pc = "write" /\ saved < Len(results)
  /\ logs' = [logs EXCEPT ![algo].sections = Append(@, results[saved + 1])]
  /\ saved' = saved + 1
  /\ UNCHANGED <<pc, algo, rules, warm, rng, results, execVars, failed, unseen,
                 faults, lost, runs, exit, late>>

LoseSection ==
  /\ pc = "write" /\ saved < Len(results) /\ faults < MaxFaults
  /\ saved' = saved + 1
  /\ faults' = faults + 1 /\ lost' = lost \union {algo}
  /\ UNCHANGED <<pc, algo, rules, warm, rng, results, execVars, logs, failed,
                 unseen, runs, exit, late>>

\* Mutant: the last result is forgotten.
WriteSummaryEarly ==
  /\ pc = "write" /\ saved >= Len(results) - 1
  /\ logs' = [logs EXCEPT ![algo].summary = TRUE]
  /\ NextAlgorithm
  /\ UNCHANGED <<rules, warm, rng, results, saved, execVars, failed, unseen,
                 faults, lost, runs, exit, late>>

\* The closing table, after which the file is closed and save returns.
WriteSummary ==
  /\ pc = "write" /\ saved = Len(results)
  /\ logs' = [logs EXCEPT ![algo].summary = TRUE]
  /\ NextAlgorithm
  /\ UNCHANGED <<rules, warm, rng, results, saved, execVars, failed, unseen,
                 faults, lost, runs, exit, late>>

LoseSummary ==
  /\ pc = "write" /\ saved = Len(results) /\ faults < MaxFaults
  /\ faults' = faults + 1 /\ lost' = lost \union {algo}
  /\ NextAlgorithm
  /\ UNCHANGED <<rules, warm, rng, results, saved, execVars, logs, failed,
                 unseen, runs, exit, late>>

-----------------------------------------------------------------------------
(***************************************************************************)
(* The worker thread: FutureTask.run around the constructor of             *)
(* ReportSummaryStatistics.                                                *)
(***************************************************************************)
WorkerGoes(to) == worker' = [worker EXCEPT !.pc = to]

\* The thread takes the task off the queue and enters the constructor.
TakeTask ==
  /\ worker.pc = "idle" /\ task.state = "new"
  /\ worker' = [worker EXCEPT !.pc = "next", !.algo = algo,
                              !.data = task.data, !.reports = 0]
  /\ UNCHANGED <<mainVars, task, stop, fileVars, runs, exit, late>>

\* The loop over the data set hands the next graph to Algorithm.time.
StartGraph ==
  /\ worker.pc = "next" /\ worker.reports < DatasetSize
  /\ WorkerGoes("canonize")
  /\ late' = IF task.state = "cancelled" THEN late + 1 ELSE late
  /\ UNCHANGED <<mainVars, task, stop, fileVars, runs, exit>>

\* The call returns the times and addReport records them.
CanonizeReturns ==
  /\ worker.pc = "canonize"
  /\ worker' = [worker EXCEPT !.pc = "check", !.reports = @ + 1]
  /\ UNCHANGED <<mainVars, task, stop, fileVars, runs, exit, late>>

\* Mutant: a failed call ends the constructor, not the measurement.
CanonizeFailureIgnored ==
  /\ worker.pc = "canonize"
  /\ WorkerGoes("return")
  /\ UNCHANGED <<mainVars, task, stop, fileVars, runs, exit, late>>

\* The call throws, or it returns null and RuntimeReport dereferences it.
CanonizeFails ==
  /\ worker.pc = "canonize"
  /\ WorkerGoes("throw")
  /\ UNCHANGED <<mainVars, task, stop, fileVars, runs, exit, late>>

\* Thread.interrupted() tests and clears the flag.
CheckInterrupt ==
  /\ worker.pc = "check"
  /\ worker' = [worker EXCEPT
                  !.pc = IF worker.interrupted THEN "throw" ELSE "next",
                  !.interrupted = FALSE]
  /\ UNCHANGED <<mainVars, task, stop, fileVars, runs, exit, late>>

SummaryBuilt ==
  /\ worker.pc = "next" /\ worker.reports = DatasetSize
  /\ WorkerGoes("return")
  /\ UNCHANGED <<mainVars, task, stop, fileVars, runs, exit, late>>

\* FutureTask.set and setException: without effect on a cancelled task.
SetResult ==
  /\ worker.pc = "return"
  /\ task' = IF task.state = "new"
             THEN [task EXCEPT !.state = "normal",
                               !.stats = [algo |-> worker.algo,
                                          data |-> worker.data,
                                          reports |-> worker.reports]]
             ELSE task
  /\ WorkerGoes("idle")
  /\ UNCHANGED <<mainVars, stop, fileVars, runs, exit, late>>

SetException ==
  /\ worker.pc = "throw"
  /\ task' = IF task.state = "new"
             THEN [task EXCEPT !.state = "exceptional"] ELSE task
  /\ WorkerGoes("idle")
  /\ UNCHANGED <<mainVars, stop, fileVars, runs, exit, late>>

\* The queue is empty (a task cancelled in the queue is a no-op) and the
\* executor was shut down: the pool lets its thread end.
WorkerExits ==
  /\ worker.pc = "idle" /\ stop /\ task.state # "new"
  /\ WorkerGoes("terminated")
  /\ UNCHANGED <<mainVars, task, stop, fileVars, runs, exit, late>>

-----------------------------------------------------------------------------
\* The process dies at any point: a native library aborts or exits, or the
\* operator kills it.  Only runs that can be repeated are killed.
Kill ==
  /\ pc # "down" /\ runs < MaxRuns
  /\ JvmExit("killed")
  /\ UNCHANGED <<fileVars, runs>>

\* The last run has ended; nothing is left to do.
Finished ==
  /\ pc = "down" /\ runs = MaxRuns
  /\ UNCHANGED vars

MainNext ==
  \/ LoadFails \/ LoadNatives
  \/ PickSkip \/ PickUndetermined \/ PickEvaluate \/ PickDone
  \/ WarmupCanonize \/ WarmupFails \/ WarmupDone
  \/ SubmitDataset \/ SizeLimitReached
  \/ GetStats \/ GetFails \/ GetTimesOut
  \/ CancelTask \/ ShutdownExecutor \/ AwaitTermination
  \/ OpenLog \/ OpenFails
  \/ WriteSection \/ LoseSection \/ WriteSummary \/ LoseSummary

CallReturns == CanonizeReturns \/ CanonizeFails

WorkerRuns ==
  \/ TakeTask \/ StartGraph \/ CheckInterrupt \/ SummaryBuilt
  \/ SetResult \/ SetException \/ WorkerExits

WorkerNext == WorkerRuns \/ CallReturns

Next == Start \/ MainNext \/ WorkerNext \/ Kill \/ Finished

Spec == Init /\ [][Next]_vars

(***************************************************************************)
(* Fairness.  The JVM schedules both threads, so neither stops forever     *)
(* while it can step.  FairSpec also takes every canonization to end       *)
(* eventually; ThreadFairSpec does not: a call may run for ever.  Nobody   *)
(* is obliged to start or to kill the program.                             *)
(***************************************************************************)
ThreadFairSpec == Spec /\ WF_vars(MainNext) /\ WF_vars(WorkerRuns)
FairSpec == ThreadFairSpec /\ WF_vars(CallReturns)

-----------------------------------------------------------------------------
(***************************************************************************)
(* The data sets an algorithm is measured on: each step of the loop draws  *)
(* DatasetSize further graphs and multiplies the number of rules.          *)
(***************************************************************************)
FirstData == [rng |-> NoRng, rules |-> MinRules]
NextData(d) == [rng |-> [d.rng EXCEPT !.draws = @ + DatasetSize],
                rules |-> d.rules * GrowthFactor]

\* s holds complete measurements of a on the first Len(s) data sets.
OnSchedule(s, a) ==
  \A k \in 1 .. Len(s) :
    /\ s[k].algo = a
    /\ s[k].reports = DatasetSize
    /\ s[k].data.rules <= MaxRules
    /\ s[k].data = IF k = 1 THEN FirstData ELSE NextData(s[k - 1].data)

\* main is between the creation of the executor and the end of save.
Evaluating == pc \in {"submit", "wait", "cancel", "shutdown", "await",
                      "open", "write"}

(***************************************************************************)
(* Type invariant.                                                         *)
(***************************************************************************)
Pcs == {"down", "load", "pick", "warmup", "submit", "wait", "cancel",
        "shutdown", "await", "open", "write"}
TaskStates == {"none", "new", "normal", "exceptional", "cancelled"}
WorkerPcs == Busy \union {"none", "idle", "terminated"}
Logs == [exists : BOOLEAN, sections : Seq(Stats), summary : BOOLEAN]

MainTypes ==
  /\ pc \in Pcs
  /\ algo \in 1 .. NumAlgos + 1
  /\ pc \notin {"down", "load", "pick"} => algo \in Algos
  /\ rules \in Nat /\ warm \in Nat /\ rng \in Rng
  /\ results \in Seq(Stats) /\ saved \in Nat
ExecTypes ==
  /\ task \in [state : TaskStates, data : Data, stats : Stats]
  /\ stop \in BOOLEAN
  /\ worker \in [pc : WorkerPcs, algo : Algos, data : Data, reports : Nat,
                 interrupted : BOOLEAN]
FileTypes ==
  /\ logs \in [Algos -> Logs]
  /\ failed \subseteq Algos /\ unseen \subseteq Algos
  /\ lost \subseteq Algos /\ faults \in Nat
HistoryTypes ==
  /\ runs \in Nat /\ late \in Nat
  /\ exit \in {"none", "natives", "uncaught", "normal", "killed"}

\* Every variable holds a value of its kind; every measurement that can be
\* printed names an algorithm and a data set.
TypeOK == MainTypes /\ ExecTypes /\ FileTypes /\ HistoryTypes

(***************************************************************************)
(* Safety.                                                                 *)
(***************************************************************************)

\* "All tasks will be executed on a single thread" (Main.java:150): while a
\* measurement runs, main only waits for it, and it is one of the algorithm
\* main is at.  A call that outlives its time limit disturbs neither the
\* warm-up and the measurements of the next algorithm nor the save.
MeasuredAlone ==
  worker.pc \in Busy =>
    /\ pc \in {"wait", "cancel", "shutdown", "await"}
    /\ worker.algo = algo

\* The results of an evaluation are the whole measurements of the first data
\* sets of the schedule, in its order, whichever of them timed out, failed or
\* finished while it was being cancelled.
ResultsArePrefix == Evaluating => OnSchedule(results, algo)

\* Log files can be compared: two files none of whose writes failed agree on
\* the data set of every section both have, be they of different runs of the
\* program, killed or not.
LogsComparable ==
  \A a, b \in Algos \ lost :
    \A k \in 1 .. Len(logs[a].sections) :
      k <= Len(logs[b].sections) =>
        logs[a].sections[k].data = logs[b].sections[k].data

\* When main returns from its loop, every algorithm has its log file, or the
\* error that kept it from being created was reported by this run, or this run
\* could not tell whether there is a file and printed that there is
\* (Main.java:130-133).
AllAccountedFor ==
  exit = "normal" =>
    \A a \in Algos : logs[a].exists \/ a \in failed \union unseen

\* Cancelling works at the granularity of a graph: after task.cancel(true)
\* the worker starts at most one more graph of the cancelled data set, the
\* one it was about to hand to the algorithm.
LateWork == late <= 1

\* What is on disk stays: no step changes a log file that existed before,
\* unless this run of the program created it and is still writing it.  Above
\* all no restart touches the results, or the torn file, of a killed run.
LogsFrozen ==
  [][\A a \in Algos :
       logs[a].exists /\ ~ (pc = "write" /\ a = algo) => logs'[a] = logs[a]]_vars

\* The closing table comes last: when it is written, the file has a section
\* for each result and nothing else, unless a write to it failed.
SummaryCloses ==
  [][\A a \in Algos :
       logs'[a].summary /\ ~ logs[a].summary =>
         a \in lost \/ logs'[a].sections = results]_vars

(***************************************************************************)
(* Liveness.                                                               *)
(***************************************************************************)

\* A started run comes to an end: it never waits for a worker that was not
\* told to stop, and the size limit is reached.
RunEnds == pc = "load" ~> pc = "down"

(***************************************************************************)
(* Refinement: seen from its log files alone, the program is the contract. *)
(***************************************************************************)
Contract == INSTANCE EvaluationContract WITH
  writer <- IF pc = "write" THEN algo ELSE 0,
  turn <- IF pc = "write" /\ saved > 0
          THEN NextData(results[saved].data) ELSE FirstData,
  holes <- lost

\* Threads, time limits, restarts and failing writes do not show in the files.
KeepsContract == Contract!Spec

(***************************************************************************)
(* What the documentation says, and the code does not do.                  *)
(***************************************************************************)

\* "@throws IOException When an IOException occurs." (EvaluationResults.java:51):
\* when a run returns normally, main has reported every log file that is
\* incomplete because a write to it failed.
SaveErrorsReported == exit = "normal" => lost \subseteq failed
=============================================================================
