# A TLA+ verification of CPQ Keys

CPQ Keys measures how well existing graph canonization algorithms cope with the
query graphs of conjunctive path queries. It generates data sets of query
graphs, runs each algorithm on them in ever larger sizes until a time limit or a
size limit is hit, and writes the measurements of each algorithm to a log file.
This directory holds TLA+ modules of that program, TLC models that check them on
small instances, and proofs that TLAPS checks for every instance.

Paths below are relative to the repository; `…/cpqkeys/` stands for
`CPQKeys/src/dev/roanh/cpqkeys/` and `bindings/` for `CPQKeys/bindings/`.

## 1. Inventory

| Component | Where | State it keeps | Operations |
|---|---|---|---|
| Evaluation loop | `…/cpqkeys/Main.java` | position in the list of algorithms, size of the next data set, an executor with one thread, the random generator of gMark | `main`, `evaluateAlgorithm`, `loadNatives` |
| Measuring a data set | `…/cpqkeys/ReportSummaryStatistics.java` (constructor), `GraphDataSet.java`, `Algorithm.java` | reports collected so far, interrupt flag of the thread | the loop over a data set, `time`, `canonize`, the interrupt check |
| Log files | `…/cpqkeys/EvaluationResults.java` | one file per algorithm; survives the process | `addRun`, `save` |
| Statistics | `…/cpqkeys/ReportSummaryStatistics.java`, `RuntimeReport.java` | five running statistics and the raw reports | `addReport`, averages, `stdDev`, `writeData`, `formatNanos` |
| Graph transforms | `…/cpqkeys/GraphUtil.java` | none | `toUndirectedGraph`, `toColoredGraph` |
| JNI bindings | `…/cpqkeys/algo/{Nauty,Traces,Bliss,Nishe}.java`, `bindings/nauty_traces/*.c`, `bindings/bliss/*.cpp`, `bindings/nishe/*.cpp` | static buffers of the native side | `prepareColors`, `computeCanon`, `constructSparseGraph`, `parseColoring`, `totalTime` |
| Scott binding | `…/cpqkeys/algo/Scott.java`, `bindings/scott/*.py` | one Python process per call, two pipes | `startSession`, `runUndirected`, `runDirected`, `writeEdges`, `readTimes`; `read_graph`, `to_cgraph`, two prints |
| Nishe partition nest | `bindings/nishe/src/PartitionNest.cc` | a stack of ordered partitions in five arrays, a queue of pending cells, a log of cuts | `unit`, `enqueue_new_index`, `commit_pending_indices`, `breakout`, `advance_level`, `recover_level` |
| Nishe refiner | `bindings/nishe/include/nishe/Refiner-inl.h` | stack of active cells, sums per vertex, trace | `refine` |
| nauty | `bindings/nauty_traces/src/{nauty,naugraph,nausparse,nautil,nautinv}.c` | path of the search tree, level marks, first and best leaf, a workspace of automorphisms, orbits; statics that survive a call | `densenauty`, `sparsenauty` |
| Bliss | `bindings/bliss/src/{abstractgraph,digraph,partition,orbit}.cc` | partition with a queue of splitting cells, certificate, stack of tree nodes, first and best path, components, a ring of automorphisms, orbits | `Digraph::canonical_form` |
| Permutation group of Traces | `bindings/nauty_traces/src/schreier.c` | a ring of reference-counted permutations, a chain of Schreier levels | `addgenerator`, `getorbits`, `getorbitsmin`, `findcurrorbits`, `freeschreier` |
| Traces itself | `bindings/nauty_traces/src/traces.c` | levels of candidates, experimental paths | `Traces` |
| Unused parts of the libraries | `bindings/nauty_traces/src/{gtools,naututil}.c`, `bindings/bliss/src/{graph,utils}.cc` | | none that the program calls |
| Scott itself | submodule `bindings/scott/scott` (empty here) | | `to_cgraph` |

How they interact:

* `main` calls `evaluateAlgorithm` for each algorithm without a log file. That
  method warms the algorithm up on the main thread, seeds the generator, and then
  submits one data set after the other to a single worker thread. The two threads
  share the `FutureTask` (state and result), the executor (its shutdown flag) and
  the interrupt flag of the worker.
* `task.get(MAX_RUNTIME)` races with the worker. On a timeout main cancels the
  task, which interrupts the worker; the worker looks at the flag only between two
  graphs. Main then waits for the worker without a limit.
* `EvaluationResults.save` writes through a `PrintStream`, which swallows every
  error after the file was opened. The existence of a file is what the next run of
  the program goes by.
* Each JNI binding turns the query graph into arrays by way of `GraphUtil` and
  gMark; its native side turns the arrays back into a coloured graph.
* nauty and Bliss are each called with a coloured digraph, refine and split its
  vertices into cells down to the leaves of a search tree, and prune that tree with
  the automorphisms they meet. They run on the thread of the caller; nauty keeps its
  arrays in statics, so a call begins with what the last one left. Traces keeps its
  automorphisms in a structure of `schreier.c` and asks it for orbits.
* The Scott binding writes the graph, line by line, to the standard input of a
  Python process and reads two lines of times from its standard output. Nobody
  waits for that process to end.

What is hard: the race of the time limit with the worker and the cooperative
cancellation; a call that never returns; the sharing of one generator; the
process being killed at any point and started again; errors that `PrintStream` and
`PrintWriter` swallow; bounded pipes in both directions; three different
conventions for one colour array; in-place algorithms on arrays. In the searches:
facts found at one node are used at another, after the path between them was left –
level marks, best leaves kept in part, automorphisms that were overwritten, sets of
cells, windows into a ring, paths put together from two, nodes shared by reference
counts, levels made for another base – and one subtree too many left out changes
the canonical form of some graph and of no test. `PROJECT.json`
lists each of these hazards with its line and the properties about it.

What makes each component correct:

* evaluation: measurements never overlap; results are whole and in the order of
  the schedule; every algorithm is measured on the same data sets; each algorithm
  ends with a file or a reported error, unless its file cannot be looked up; a run ends; files are never overwritten;
* statistics: they are those of the raw data; rows have the columns announced;
* transforms and bindings: the native library sees the coloured graph that was
  meant; transforms preserve and reflect isomorphism;
* partition nest: its arrays agree with each other, and recovering a level brings
  back the partition it had; refiner: it ends with the coarsest equitable
  partition, its trace does not depend on the numbering of the vertices, and it
  leaves nothing behind for its next call;
* nauty and Bliss: isomorphic graphs get the same form and others do not; the
  automorphisms reported are true and generate the whole group; the search ends;
* permutation group: orbits are those of automorphisms that fix the base, nothing
  that was given is lost, nothing that was freed is used, and a walk ends;
* Scott: what is canonized is the whole graph; times are real; neither side waits
  for ever; no process stays behind.

## 2. Modules

| Module | Models | Composes |
|---|---|---|
| `Evaluation` | main thread, worker thread, executor, files, restarts | `INSTANCE EvaluationContract` |
| `EvaluationContract` | what the log files promise | |
| `Reports` | `ReportSummaryStatistics`, `RuntimeReport` | |
| `Transforms` | `GraphUtil`, the four JNI bindings | |
| `ScottSession` | `Scott.java` and the Python scripts | |
| `NishePartition` | the partition nest of Nishe, `PartitionNest.cc` | `INSTANCE PartitionStack` |
| `PartitionStack` | what a partition nest promises | |
| `NisheRefiner` | the refinement of Nishe, `Refiner-inl.h`, and its trace | `INSTANCE PartitionStack` |
| `CanonicalForm` | what a canonical labelling program promises; isomorphisms by definition | |
| `NautyRefine` | refinement, vertex invariant and target cell of nauty (`naugraph.c`, `nausparse.c`, `nautinv.c`) | |
| `NautySearch` | the search of `nauty.c` | extends `NautyRefine`, `INSTANCE CanonicalForm` |
| `BlissRefine` | the partition, the splitting queue and the certificate of Bliss (`partition.cc`, `digraph.cc`) | |
| `BlissSearch` | the search of `abstractgraph.cc`, orbits | extends `BlissRefine`, `INSTANCE CanonicalForm` |
| `GroupKnowledge` | what a store of automorphisms promises | |
| `Schreier` | `schreier.c` as Traces uses it | `INSTANCE GroupKnowledge` |
| `OrderedPartitions` | cells of an ordered partition | extended by `NautyRefine`, `BlissRefine` |
| `Loops` | folds for loops | extended by `OrderedPartitions` and `Schreier` |
| `Sums` | the sum of a sequence | extended by `Reports`, `NishePartition`, `NautyRefine` and `NumberLemmas` |
| `SampleGraphs` | graphs for the instances | |
| `MC*` | instances for TLC | extend the above |
| `EvaluationProofs`, `ScottSessionProofs`, `ReportsProofs`, `NishePartitionProofs`, `NisheRefinerProofs`, `NautySearchProofs`, `SchreierProofs` | theorems (section 5) | each extends the module it is about |
| `NumberLemmas` | least and greatest numbers, sums of sequences | extended by the last five |

Definitions that begin with a comment "Mutant" are plausible bugs of the code.
They are not part of any specification: they show that the property next to them
in `PROJECT.json` fails when the code has that bug.

### Evaluation

`pc` is where the main thread is: `down` (no process), `load` (loading natives),
`pick` (the head of the loop in `main`), `warmup`, `submit` (the head of the loop in
`evaluateAlgorithm`), `wait` (`task.get`), `cancel`, `shutdown` and `await` (the
`finally` block), `open` and `write` (`save`). `worker.pc` is where the worker is:
`idle` (in the pool), `next` (about to fetch a graph), `canonize` (inside
`Algorithm.time`), `check` (the interrupt test), `return` and `throw` (leaving the
constructor, before the task is told), `terminated`. Each action is one step
between two points at which the other thread can interfere; a step that is a call
(for example `CancelTask`, `task.cancel(true)`) contains all its effects.

| Code | Actions |
|---|---|
| `main` | `Start`, `LoadFails`, `LoadNatives`, `PickSkip`, `PickUndetermined`, `PickEvaluate`, `PickDone`, `NextAlgorithm` |
| warm-up | `WarmupCanonize`, `WarmupFails`, `WarmupDone` (also seeds and creates the executor) |
| loop of `evaluateAlgorithm` | `SubmitDataset`, `SizeLimitReached`, `GetStats`, `GetFails`, `GetTimesOut`, `CancelTask` |
| `finally` | `ShutdownExecutor`, `AwaitTermination` |
| `save` | `OpenLog`, `OpenFails`, `WriteSection`, `LoseSection`, `WriteSummary`, `LoseSummary` |
| pool and `FutureTask` | `TakeTask`, `SetResult`, `SetException`, `WorkerExits` |
| constructor of `ReportSummaryStatistics` | `StartGraph`, `CanonizeReturns`, `CanonizeFails`, `CheckInterrupt`, `SummaryBuilt` |
| environment | `Kill` |

A data set is abstracted to the state of the generator it was drawn from and its
number of rules, which is what decides whether two algorithms saw the same
graphs. The generator's origin is 0 once it was seeded and the number of the run
before. A measurement is counted; its times are the business of `Reports`. An
exception of a call and a call that returns `null` (which `RuntimeReport`
dereferences, so that it throws a `NullPointerException`) are the same step,
`CanonizeFails`; during the warm-up `null` is ignored and an exception ends the
program, as in the code.

`Files.notExists` is false when the file exists and also when the file system does not tell:
`PickUndetermined` skips the algorithm in that case and leaves it in `unseen`. The program prints
that the log file already exists (`Main.java:133`), which need not be so, and neither
a file nor an error remains; `AllAccountedFor` names this case as the one exception.

`unseen`, `lost`, `late`, `exit`, `runs` and `faults` are history or bounds; no guard of the
program's own actions reads them, except that `MaxRuns` bounds `Start` and `Kill`
and `MaxFaults` bounds the file operations that fail.

### EvaluationContract

The program seen from its log files alone: a file is created once, has one writer,
grows by whole measurements on the data sets of one schedule, some of which a
failing disk swallows, and is never touched again after its writer let go.
`Evaluation!KeepsContract` maps `writer` to the algorithm in `save`, `turn` to the
data set after the last entry written, and `holes` to `lost`.

### Reports

Times are natural numbers. An average is a fraction; a standard deviation stands
for the fraction under its root, so that no floating point is needed. `AddReport`
is `addReport` with its early throw.

### Transforms

A state is a query graph and what the last native call was given: its nodes, the
bag of its arcs and its cells, as the native side reads them from the arrays. There
is one action per native call. The colour classes leave a `HashMap` in an order
that depends on an identity hash, so `ColorMaps` is the set of all orders. gMark is
not part of the repository: `EdgeLabelsToNodes`, `ToAdjacencyList` and the shape of
a query graph are modelled from their use and marked external.

### ScottSession

`pc` is where the Java thread is in a call; `procs[c]` is the Python process of
call `c` with its pipe (`in`), the nodes and edges it has read, and the time lines
nobody has read yet (`out`). `answer` says whether the Java end of its output is
open. `directed.py` and `undirected.py` and their two Java callers differ in one
flag and in labels, which are left out, and are one model.

### PartitionStack, NishePartition

`PartitionStack` is a stack of ordered partitions, a partition being a function from
elements to the index of their cell, and a set of indices asked for. It can be asked
for an index, cut at one, pushed and dropped to a level. `NishePartition` has the
vectors of the code under their names: functions on `0 .. N - 1`, sequences for the
stacks and the queue. The loops of `commit_pending_indices` and `recover_level` are
run one iteration at a time (`CommitNext`; `UndoCut`, `Relabel`); `run` and `undo`
are their local variables, and the queue is consumed where the code counts up in
it. `SwapInCell` stands for callers that write through `elements()`: the loop of the
binding and `std::sort` of the refiner. `InOrder` is the precondition that
`PartitionNest.h:77` states for the queue.

The refinement `Nest` recomputes the partition of each level from the log of cuts;
only the top is what callers see in `index_containing`, and it must coincide. So
`KeepsNest` says that the labels are right after every call, and that the cells of
the lower levels survive, unseen, until they are recovered.

### NisheRefiner

A behaviour is one call of `refine` with a new trace, as the binding makes it, and
then a second call with the same `Refiner` object. `SowActiveCell` takes an active
index, compares or records it, and sows its cell; `TraceTrivial` and
`sort_and_split_index` treat one adjacent cell; `LargerActiveIndex` and a `cmp` of 1
are the early returns, after which `pending` holds what was enqueued and not
committed. The nest is used by what `PartitionStack` promises. `SortedCell` is every
order `std::sort` may leave. Where the code reads or writes past the end of a
vector, a behaviour ends in `undefined`, and where `at()` throws, in `throw`.

### OrderedPartitions and Loops

An ordered partition is a function from vertices to the position at which their cell
begins. The arrays of nauty (`lab`, `ptn`) and of Bliss (`elements`, cells) hold one
more thing, the order of the vertices inside a cell, which they read only where the
cell has one vertex or where any of its vertices will do. `Loops` has the folds that stand for `for` loops, and `With`, a `LET`
whose value is computed once.

### CanonicalForm

A coloured graph is put, a labelling answered. Whatever was answered before, the form
of the graph under the new labelling equals an old one if and only if the two graphs
are isomorphic. `Isomorphisms` is the definition, by enumeration.

### NautyRefine and NautySearch

`doref` is the refinement of a node: `refine` of dense graphs or `refine_sg` of sparse ones,
cell by cell in the order of the code with the codes it mixes (`MASH`, `CLEANUP`) cut to
`HashBits` bits, followed by the vertex invariant of the digraph options. With few
bits different subtrees get equal codes by accident, which with 15 bits no small graph
would show. In one step one cell splits the others. How each is split depends on no other
of them, so the new partition is written at once; what becomes active or is queued, and the
code, depend on the cells before and are folded over them in their order. `targetcell` is the
choice of the cell to split: the hint, or else the first nontrivial cell. The best-cell rule of the
code is for levels up to `tc_level`, which is 0 for digraphs (`nauty.c:391`).

In `NautySearch` the recursion of `firstpathnode` and `othernode` is a `stack` of frames, and
`mode` is where the code is: `first` and `other` are about to refine a node, `classify`
is `processnode`, `back` is the return to an ancestor, `done` the end of a call.

| Code | Actions |
|---|---|
| `firstpathnode`, on the way down | `FirstPathNode`, `firstterminal` |
| `othernode`, on the way down | `othernode` |
| `processnode` | `InternalNode`, `FirstLeafAgain`, `BestLeafAgain`, `BetterLeaf`, `BadLeaf` |
| loops over the target cell | `ReturnFurther`, `NextOfFirst`, `EndOfFirst`, `NextOfOther`, `EndOfOther`, `Finish` |
| the next call | `CallAgain` |

The history variables are `generators`, the permutations reported, and `earlier`, the
input and the results of the first call. The model was compared with the compiled library on random
digraphs: labellings, group sizes, and the numbers of nodes, generators and bad leaves
were the same.

### BlissRefine and BlissSearch

`BlissRefine` has the initial partition by vertex invariants, the splitting queue (unit
cells in front), the splitting by arcs out and in, the certificate, and its comparison
with the first and the best path while it grows. Bliss backtracks by undoing splits
from a stack; in the model each tree node keeps its partition, so that going back is
dropping nodes. The hash of a sequence of numbers is that sequence: the code uses 64
bits and takes equal hashes for equal sequences.

`BlissSearch` follows the loop of `AbstractGraph::search`. `mode` is `start`, `loop` (the head
of the loop), `child` (a child was refined and is to be judged) and `done`.

| Code | Actions |
|---|---|
| before the loop | `StartDiscrete`, `StartSearch` |
| a node that is done with | `PopNode`, `EndNode` |
| the next child and its refinement | `VisitChild` |
| the end of a component or a leaf | `FirstLeaf`, `BetterLeaf`, `BetterComponent`, `EqualComponent` |
| automorphisms, with the jump back | `BestPathAutomorphism`, `FirstPathAutomorphism` |
| a new inner node, also of the next component | `NextNode` |
| the next call | `CallAgain` |

The model was compared with the compiled library on more than 1,500 random digraphs, of which it
gave the same labellings and group sizes.

### GroupKnowledge and Schreier

`GroupKnowledge` knows the group that the given permutations generate. An answer is about
the points of a base up to a level, and every orbit in it is part of an orbit of the
subgroup that fixes those points; with no point fixed, the orbits are exact. If the
answer stops before the whole base, it says that the next base point has a smaller one
in its orbit, which is what Traces prunes with.

`Schreier` has the ring as a function from nodes to permutation, mark and reference count,
and the chain as a sequence of levels. The number of a freed node is given to the next
one that is allocated, as memory is. `filterschreier`, with `ExtendVector` and `Sift` for
its two loops, is one step; the random elements of `expandschreier` and `getorbitsmin` are one
step each, `Filter`, and the walk round the ring is any product with one to three
elements of the ring. The `while` loop that follows the edges is cut off after `N` rounds
(`Back`), which `VectorsHold` shows to be enough. Which calls come in which order is left open, as it depends on
the graph; `getorbitsmin` has `changed = TRUE`, which is what Traces passes everywhere.

## 3. What the runs check

| Run | States | Bounds |
|---|---|---|
| `evaluation` | 48,989 | 2 algorithms, 1 warm-up graph, data sets of 3 graphs, 3 sizes, 2 starts, 1 failing file operation |
| `lost_writes` | few | 1 start, 1–2 algorithms, 2 sizes |
| `reports`, `setup_stddev` | 16,641 | 2 reports of 2 algorithms, units of 2, 3 and 4 |
| `transforms`, `bliss_edge_list` | 17,322 | all query graphs of up to 3 nodes and 2 edges over 2 labels, all orders of colour classes |
| `nishe_partition` | 353,664 | 4 elements, 3 levels |
| `nauty_search` | 49,027 | all digraphs of 3 vertices with all colourings, circulants of 4 to 6, cycles of 5 to 9, two cycles of 8 and one of 16, trees; dense and sparse; codes of 2 and 15 bits; a workspace of 2; 2 renamings |
| `bliss_search` | 193,402 | all digraphs of 3 vertices, circulants, cycles, graphs of several components with up to 18 vertices, most of them in every rotation; room for 0, 1 and 100 automorphisms; 2 renamings |
| `schreier` | 131,352 | 4 points, three groups, 4 bases, 5 calls, walks that end after 2 failures |
| `nishe_refiner` | 34,474 | 69 graphs of 4 vertices, 9 partitions, 2 calls, 2 renamings, 4 inputs to compare |
| `scott_session` | 9,726 | 1 warm-up and 2 measured calls, 2 graphs, a pipe of 2 lines, 1 early death |

Why these are enough. *Evaluation*: two algorithms are needed for one call to
outlive into the evaluation of the next and for two files to be compared; two
starts for a restart; three graphs in a data set so that a cancellation can leave a
graph before, at and after the one at hand; three sizes for a prefix to be proper;
one fault hits each file operation, the look for a log file included, in some behaviour. All safety properties of this
run are also proved for every bound, and so are those of `reports`, `scott_session`,
`nishe_partition` and `nishe_refiner`, and of `nauty_search` `RowsOfBestLeaf` and
`GeneratorsAreAutomorphisms` (section 5): for those the bounds of the runs do not matter. *Reports*:
the times include the boundaries of each unit, and 31 exceeds all of them; one report of
another algorithm is enough to be refused. *Transforms*: loops, antiparallel edges, parallel edges of different
labels and isolated nodes all occur with two edges; 213 inputs, 4 to 5 bindings and
up to 4! orders of the classes. *ScottSession*: every graph has more lines than the
pipe holds, so both sides block; three calls let the process of an earlier call
overlap with the current one and with a warm-up. *NishePartition*: four elements
are the fewest with which a cut leaves two nontrivial cells, three levels the fewest
of which one call recovers two; the elements bound the log of cuts. *NisheRefiner*: with four vertices a split propagates
through several active cells, back into the cell being used, and stops short of
singletons; a rotation and an exchange generate all renamings. *NautySearch*: small graphs have every kind
of node but few levels; disjoint cycles of unequal lengths are not told apart by
refinement, so that leaves are compared row by row, and worse leaves, better leaves
and automorphisms follow one another at different depths; three and more cycles fill
the workspace of 2 and make it go on with its last entry; codes of two bits collide.
The longest cycles are there for the rows of the dense representation and for target
cells of more than a few vertices. *BlissSearch*: as before, and components, which arise
from colours and from complete joins; a component is found inside another (`Nested`: below
two roots the leaves come apart, next to a second component), ends there, is solved
better than before, and is left and found again; a store of one automorphism makes every new
one overwrite the last while nodes hold windows into it. *Schreier*: the groups are
dihedral, symmetric on part of the points, and an elementary abelian one whose third
element is redundant; bases of two points give chains of three levels, of which a
shorter base leaves the last unused; two failures suffice for a walk both to go on after
one and to start over.

Properties of `evaluation`:

* `MeasuredAlone` – a call that outlives its time limit never overlaps the next
  warm-up, measurement or save;
* `ResultsArePrefix` – results are the whole measurements of the first data sets,
  whatever timed out, failed, or finished while being cancelled;
* `LogsComparable` – two files without failed writes agree on the data set of every
  section both have, across kills and restarts;
* `AllAccountedFor` – after a normal end each algorithm has a file or an error that
  was reported, or it could not be determined whether it has a file;
* `LateWork` – after the cancellation at most one more graph is begun;
* `LogsFrozen`, `SummaryCloses` – no step touches a file this run does not write; the
  closing table comes after a section for each result;
* `KeepsContract` – the refinement;
* `RunEnds` – a started run comes to an end.

`reports`: `StatsMatchReports`, `FormatReadsBack`. `transforms`: `SameColoring`
(the right cells reach the library under every order of the classes),
`SameGraph` (the arcs that reach it are those of the graph, or of its undirected
transform without loops and double edges), `TransformsReflect` (two query graphs are
isomorphic exactly if their transforms are, for the three transforms in use).
`scott_session`: `WholeGraph`, `TimesAreReal`, `CanonizesAlone`, `CallEnds`,
`NoOrphan`.

`nishe_partition`: `CellsAgree` (between calls, the arrays tell the same story),
`NontrivialListed` (the threaded list is the ascending list of nontrivial cells, in
both directions), `KeepsNest` (the refinement). `nishe_refiner`: `CoarsestEquitable`
(against all equitable partitions, also when only the cell of a vertex that was
broken out is active), `CanonicalTrace`, `NothingSown` (the sums are zero whenever
they must be, also after an aborted call), `RefineReturns`.

`nauty_search`:

* `RowsOfBestLeaf` – the rows that `samerows` vouches for are those of the best leaf;
* `GeneratorsAreAutomorphisms` – of what `isautom` lets pass where equal codes, which collide,
  make a leaf look like the first one, and of what follows from equal rows of the best leaf
  without a further test. The shortcut past `isautom` (`nauty.c:937`) cannot be taken with
  the options for digraphs, as `Leftmost` and `PathKept` show (section 5);
* `GroupExact` – after a call the orbits are those of the automorphism group and the
  product of the indices is its order; no node of the leftmost path is left before
  its index is known;
* `KeepsContract` – the refinement of `CanonicalForm`; `SearchEnds`.

`bliss_search`: `AutomorphismsTrue`; `GroupExact`; `AssertionsHold` – the assertions of the
code, and what it relies on without one: certificates and levels of first and best
path stay aligned, a component is made of cells of the level it is split from (the search for
it follows arcs into every level, as the check at `digraph.cc:1971` is commented out),
windows hold automorphisms that fix the ancestors, and sets stay within their arrays; `KeepsContract`, `SearchEnds`.

`schreier`: `VectorsHold` – vectors refer to live nodes only, reference counts are exact,
and every edge leads towards the base point and fixes the points before it;
`NothingForgotten` – the marked nodes, which are never freed, generate everything
that was given; `KeepsKnowledge`, the refinement; `CallReturns`.

### Disagreements between the code and its documentation

Three runs are expected to find a violation; each states a sentence of the
repository.

1. `bliss_edge_list`: `algo/Bliss.java:58-64` never increments `idx` while it fills
   the edge array. Bliss is measured on the last edge and on loops at node 0,
   not on the query graph.
2. `setup_stddev`: `ReportSummaryStatistics.java:233` prints the deviation of the
   native setup time in the column of the setup time.
3. `lost_writes`: `save` documents an `IOException`, but a write that fails after the
   file was opened is swallowed; the run ends normally with a damaged file, which
   no later run will replace.

Seen while modelling, without a run:

* the documentation of the time limit says that it ends the evaluation; a call that
  does not return keeps main in `awaitTermination`, as the fairness of `RunEnds` shows;
* the native calls document that the start of a block of equal colour is negated;
  `prepareColors` negates the last vertex, which is what nauty needs (`SameColoring`);
* `Refiner-inl.h:285` does not advance `attr_sum_count` after the first entry of a cell:
  refining a graph with its own trace is reported as larger than that trace. The
  binding never compares traces;
* `PartitionNest::advance_level` is declared `int` and has no return statement, and
  `is_equitable` compares sums vertex by vertex where `Refiner.h` asks for sums by cell;
  nothing calls either;
* an assertion at `bindings/bliss/src/graph.cc:751` names a member that does not exist,
  so Bliss compiles only with `NDEBUG`, and its other assertions are never evaluated:
  `AssertionsHold` evaluates those of the digraph search;
* the arrays of the sets in the ring of automorphisms have as many places as there are vertices,
  while the ring itself holds up to 100 pairs and indexes them modulo its size;
  `AssertionsHold` shows that no index leaves them on these instances;
* the comment of `longprune` in `nautil.c` states its inclusion the other way round.

## 4. Fairness

`Evaluation!ThreadFairSpec`: weak fairness of the main thread and of the worker
outside a call – the JVM schedules runnable threads, and each is blocked only where
its guard says so. `FairSpec` adds weak fairness of "the call returns", which the
code cannot guarantee and `RunEnds` needs: without it a call that never returns
keeps main waiting for ever. Starting and killing the program are
never assumed. `RunEnds` tolerates kills because `down` is then reached.

`ScottSession!FairSpec`: weak fairness of the Java thread and of each Python
process, scheduled by the operating system; it includes that `to_cgraph` returns.
New calls, deaths and the kill of the JVM are not assumed.

`NisheRefiner!FairSpec`: weak fairness of the steps of `refine`, a sequential loop on
one thread. That it is called again is not assumed.

`NautySearch!FairSpec` and `BlissSearch!FairSpec`: the search keeps taking steps until it is over, a
sequential program on one thread. It is written as a disjunction of two `[]<>`, which here says
the same as weak fairness of `Next` and spares TLC the evaluation of `ENABLED`: no
state is without a successor (deadlock is checked), and every step but `Terminated`
changes a variable.

`Schreier!FairSpec`: weak fairness of `Filter`, the loop inside one call. The next call is not
assumed, and nothing is assumed of the random numbers: `CallReturns` holds for every
walk, because the count of failures starts over only when something was learned.

## 5. What is proved

TLAPS checks these theorems for all values of the constants that satisfy the
assumptions named, with no bound on the number of steps.

| Module | Theorems | Properties | Assumption |
|---|---|---|---|
| `EvaluationProofs` | `TypeCorrect`, `Exclusive`, `WholeResults`, `CancelStops`, `Accounted`, `TableCloses`, `Refinement`, `ComparableLogs`, `FrozenLogs` | all safety properties of `evaluation` and its `TypeOK`: `MeasuredAlone`, `ResultsArePrefix`, `LateWork`, `AllAccountedFor`, `SummaryCloses`, `KeepsContract`, `LogsComparable`, `LogsFrozen` | `ConstantsAssumption`, `NoOverflowAssumption` |
| `EvaluationProofs` | `FilesComparable`, `FilesFrozen` | of the contract, whatever keeps it | the same |
| `ScottSessionProofs` | `SessionInvariant`, `WholeGraphTheorem`, `TimesAreRealTheorem`, `CanonizesAloneTheorem` | all safety properties of `scott_session` | `ScottAssumption` |
| `ReportsProofs` | `StatsMatchTheorem`, `FormatReadsBackTheorem` | all properties of `reports` | `ReportsAssumption` |
| `NishePartitionProofs` | `ArraysInvariant`, `CellsAgreeTheorem`, `NontrivialTheorem`, `NestTheorem` | all properties of `nishe_partition`: `CellsAgree`, `NontrivialListed`, `KeepsNest` | `ConstantsAssumption` |
| `NisheRefinerProofs` | `TypeCorrect`, `NothingSownTheorem`, `CoarsestEquitableTheorem`, `CanonicalTraceTheorem` | all safety properties of `nishe_refiner` and its `TypeOK`: `NothingSown`, `CoarsestEquitable`, `CanonicalTrace` | `ConstantsAssumption` |
| `NautySearchProofs` | `RowsTheorem`, `FirstPathTheorem`, `GeneratorsTheorem`, `LabellingTheorem`, `OrbitsTheorem`, `OrbitsInGroupTheorem` | `RowsOfBestLeaf`, `GeneratorsAreAutomorphisms`; `NeverPastFirstPath` and `OrbitsInGroup`, parts of `GroupExact`; `LabellingReturned`, the condition on a labelling in `KeepsContract` | `ConstantsAssumption` |
| `SchreierProofs` | `RingStays`, `VectorsHoldTheorem`, `GroupStays`, `NothingForgottenTheorem`, `OrbitsStay`, `KeepsKnowledgeTheorem` | all safety properties of `schreier`: `VectorsHold`, `NothingForgotten`, `KeepsKnowledge` | `ConstantsAssumption` |
| `NumberLemmas` | `SumOfParts` and lemmas | | |

The assumptions say what the code's own constants and types say: counts and sizes
are natural numbers, units and bases are not empty, inputs are graphs of the kind the
program makes. `NoOverflowAssumption` is the one that is about a number (section 6).

### Evaluation

The argument has four layers.

1. *Ownership.* `MeasuredAlone` is not inductive: nothing in it says why the worker is
   at rest when main leaves `await`. `Ownership` adds that outside the `try` block
   there is no worker or it has terminated (`NoStrayWorker`), that a task with an answer
   has no worker on it (`AnsweredIsIdle`), that main submits only when the worker is at
   rest (`SubmitIsIdle`), and that a busy worker has main's algorithm (`WorksForMain`).
2. *Schedule.* When main is about to submit, generator and loop variable are at the data
   set that follows the results (`SubmitsUpcoming`); while it waits, that data set is
   with the task (`WaitsForUpcoming`), the worker works on it (`WorksOnTask`) and
   answers with the whole of it (`ReturnsWhole`, `AnswersWhole`). `Stopping` does the
   same for `LateWork`: the flag stays up until the worker looks.
3. *Files.* An algorithm is evaluated only without a file (`FreshLog`), the open file
   holds the results written so far (`OpenLogMirrors`), and no algorithm was left behind
   (`NoneLeftBehind`), except one whose file could not be looked up. With layers 1 and 2 each step is then a step of the contract or
   changes none of its variables: `Refinement`.
4. *Contract.* Comparability needs no induction over the schedule: a file is extended by
   the data set that follows its last one (`ContinuesFile`), and a longer file has the
   same one there. These theorems use the steps of the contract and nothing else of the
   program; `ComparableLogs` and `FrozenLogs` follow from them and `Refinement`.

### ScottSession

That a process canonizes the whole graph is a matter of what is under way. `Session`
says of the process of the call at hand that the lines it has read, followed by those in
its pipe, are the lines Java has written so far, in order (`Transmission`), and that it
is past reading only if it has read all of them; that while Java waits, the times of this
very process are on their way or read, unless it has died (`Answer`); and what a result
tells of it (`Outcome`). The processes of earlier calls have nothing to do but exit
(`OtherCalls`), which gives `CanonizesAlone`.

### Reports

The five running statistics are folds of the list of reports. `StatsMatchTheorem` needs
that the sum of a sequence with one more element is the sum plus the element; `SumOf` is
a recursive function over numbers, and the lemma is proved with the least number for
which it fails. `FormatReadsBackTheorem` is arithmetic on quotients and remainders: the parts
that `formatNanos` prints are digits of the time in the mixed base of the units.

### NishePartition

`Arrays` is the invariant of all arrays at every iteration of the loops. The log of cuts
determines the cells (`Cells`: 0 and the cut indices); `SizesKept` says that
`cell_sizes` are their sizes, `LabelsKept` that the labels are their first positions, and
`LinksKept` that the threaded list goes through the cells of more than one element. The links
of a position that left the list stay what they were when it left, which is what
lets `recover_level` put it back: `LinksFit` says so for every prefix of the log.
Inside `commit_pending_indices`, `RunKept` tells how far the relabelling of the cell that is
being cut has come; inside `recover_level`, `RecoverKept` tells which cells are joined but still
have their old labels. `CellsAgree` and `NontrivialListed` are what is left of it
between two calls.

`NestTheorem` maps a level to the partition of the current elements by the cuts up to that level.
A step of `CommitNext` is a cut of the abstract stack, an advance is a push and the
return from a recovery a drop; `UndoCut` and `Relabel` stutter, because the labels that callers
see are hidden until the call returns. The heart of it is that a swap inside a
cell of the top level stays inside a cell of every level below.

### NisheRefiner

`NothingSown` says that the sums are zero whenever an active index is about to be sown. It
is not inductive, since in between they are not: `SumsOfAdjacent` says that while the
cells next to the active one are split, only vertices of cells that are still to come
have sums. Each cell clears its sums in the step that takes it off the list, and every
early return clears the rest.

`CoarsestEquitable` is about the end of a call; `RefineInv` is what holds on the way, with a
part for each of its three claims.

1. *Equitable.* `Accounted` is the argument for splitting with fewer cells than there are: two
   vertices of a cell into which all *active* cells sow the same get the same from all
   cells. When no cell is active that is equitability. `SplitAccounts` is why the first part of a
   split cell need not become active: what it sows is what the whole cell did, less what
   the new cells do, and those are active (`SameTogether`, `SameOnUnion`). Between taking a
   cell off the stack and splitting the last cell next to it, the condition has one more set,
   the active cell `C` as it was (`SownWith(C)`): it may itself be split while it is in use.
   `OnePartIsEnough` is the same for the vertex that was broken out: the
   other part of its cell need not be active, if the partition was equitable.
2. *Split as it should be.* `SortAndSplit`: whatever order `std::sort` leaves, the parts of
   the cell are the classes of equal sums, in the order of the cell's positions, and the
   new indices are again numbers of vertices. The outcome of the
   comparisons is a function defined by recursion (`Outcomes`), whose existence is proved by
   its least counterexample (`OutcomesExist`); with a new trace no comparison ends it early.
3. *Coarsest.* `CoarseSoFar`: an equitable partition that refines the one given refines the
   present one. A set that is made of whole cells of an equitable partition sows the same
   into two vertices of one of its cells (`UnionSowsSame`), and `C` is such a set.

With a recorded trace to compare with, nothing is claimed of the partition: a call then ends as soon
as the comparison is lost. Its types are claimed (`TypeCorrect`): `TypeInv` adds to `RefineInv` that
the vertices are still listed cell by cell (`InPlace`, kept by every order of a split cell:
`SplitInPlace`), that at most as many indices become active as there are cells (`CountsFit`), which
bounds the stack and both counters, and that a trace that was cut and appended to has as many lists as
indices (`TraceFits`).

`CanonicalTrace` relates the steps of two calls. Three steps lead to it.

1. *A refinement is a function.* `After(g, a)` is the one state that may follow `a` on a new trace, where
   a state holds of the nest only the index of each vertex, and of the sums only the cell they came from.
   It sorts nothing: `SplitBySums` is the partition in which the cell is split by its sums, and
   `EntriesOf` lists one entry for each part. `StepFollows` is that the code takes the steps of `After`:
   whatever list `e` sorting leaves, the parts are the same (`SplitIsBySums`) and so is what
   the loop records, entry after entry (`AllRecorded`, `SplitFollows`).
2. *The function commutes with renaming* (`AfterRenamed`): the renamed cells sow what the cells sow
   (`SownRenamed`), split the renamed partition in the same way (`SplitRenamed`), and
   indices, counts and entries do not change at all.
3. *The second call follows the first.* `FollowsRun` remembers the states of the first call, from its
   start to its end: while the call on the renamed graph is under way, it is in the renamed `m`-th of them.
   When it is done, that state is the last.

### NautySearch

The first two theorems use nothing of the refinement: `RowsTheorem` holds whatever the
hash codes, target cells and orbits are, and `FirstPathTheorem` whatever subtrees are
pruned. `PathKept` is what makes the latter inductive: none of the levels that a jump back
may return to, or takes a minimum with (`gca_first`, `gca_canon`, `eqlev_canon`,
`noncheaplevel`), is above a node of the leftmost path that is still on the stack.

`GeneratorsTheorem` says that every permutation reported is an automorphism of the coloured
graph, for every graph, every renaming in the second call, and every width of the code: equal
codes are never enough. `SearchInv` is the inductive invariant; `LabellingTheorem` follows
from it too.

1. *Both refinements refine.* Cells are only ever split, and they stay intervals that
   begin where their partition says (`dorefRefines`, by `RegroupRefines` for one step of a
   splitting cell, `RefineStepRefines` and `RefineStepRefines_sg`, and
   `FirstByDistanceRefines` for the vertex invariant). Nothing more of a refinement is used, neither
   that it is equitable nor that it is the same for isomorphic graphs.
2. *Every node is an ordered partition* that refines the colours, with at least one cell per level
   (`NodeFine`, `FramesFine`), since `Breakout` makes a cell more. So the stack is shorter than
   the number of vertices, a leaf is a permutation, and two leaves have vertices of the
   same colour at the same positions (`SameColours`): what maps one leaf to another
   keeps colours before any test.
3. *The tests suffice.* `processnode` takes the map from the first leaf to an equal one for an
   automorphism without `isautom` when `noncheaplevel` allows it. `Leftmost` and `PathKept`
   show that with the options for digraphs it never does: `gca_first` is less than
   `noncheaplevel` whenever a leaf is compared with the first. `isautom` itself looks only at
   whether arcs are mapped to arcs; that others are not is a count (`ArcsMapped`). For the
   best leaf no test follows at all: its rows equal those of the leaf at hand (`EqualRows`), and
   those are the rows of `canonlab` as it is now because of `RowsOfBestLeaf`
   (`BestRowsComplete`, `SameRowsMapped`).
4. *Types.* `Typed` has what the steps above read: `rtnlevel` between 0 and `n`, orbits that
   map vertices to vertices (`Joined`), a workspace within its bound (`Workspace`).
   `SearchIsTyped` collects them.
5. *Orbits.* `firstpathnode` leaves out children by `orbits` alone, so that these must not
   claim too much. `OrbitsOfGenerators` is the invariant: the orbits are exactly those of the
   generators, that is, all generators keep them, and whatever all generators keep, they
   keep. One call of `orbjoin` brings every vertex together with its image and nothing else
   (`orbjoinJoins`). Type 2 of `processnode` does not report an automorphism when the number of
   orbits stays; then the orbits stay as well, because joining is a map from the old orbits
   onto as many new ones (`SameNumber`, `JoinLeftOut`). What an automorphism can map a
   vertex to is one of the things that all generators keep (`Composition`, `Reversal`), which
   gives `OrbitsInGroup` in the terms of the contract (`IsInAutomorphisms`).

`ConstantsAssumption` asks of an input's colouring that the colour of a vertex is the
position at which its cell begins, as the bindings pass it in `lab` and `ptn`.

### Schreier

`VectorsHold` has two parts that need each other. `NodesCounted` says that a reference count is
the number of vector entries that refer to the node, that an unmarked node has one, and
that an entry refers to a live node. It is inductive for whole calls, but each call is
three nested loops: clearing a vector releases one entry after the other, a level is
left between two of them, and filtering adds entries for a node that may not be in the
ring yet. The lemmas therefore count a set of places (`Refs`, less those `Omit` has dropped)
and not a chain of levels. `ReleaseCounted`, `ClearCounted` and `ClearedFromCounted` go through
the loops of `clearvector`; `ShareCounted` is the loop that fills a vector; `AgreementBelow`
is why the level that gets a new base point is one of the chain.

`EdgesLead` says that from every entry of a vector in use edges lead to its base point, and
move no base point of a level before it. The inductive form (`Leads`) has no distances in it:
every edge leads to an entry, and out of every set of entries that leaves out the base
point some edge leads. Points that come into a vector keep this (`GrownLeads`), because their
edges end at points that were in it before. `RootedIsAll` gets the property from it:
as long as not all entries are found one step finds one more. Then:

* `Returns`, by the pigeonhole principle: a cycle of a permutation closes within `N` steps, so
  the point that the base point goes to comes into the vector, if it is not there.
* `BackHome`: from there the `while` loop of `filterschreier` brings the base point back
  within `N` rounds, and none of them moves a base point before it.
* `LevelTraced`: so what comes out of a level fixes the base points up to it, and what the next
  level stores for its edges does too.

Without `NodesCounted` an edge could be the power of whatever permutation was put in the
place of a node that was freed; without the edges of the levels before, those of the next
one could move their base points.

`NothingForgotten` compares two groups, so it needs what `Generated` is. That is a recursive
function over sets of maps; it is shown to be `Closure`, the least set with the identity that is
closed under the generators, by taking the largest set for which it is not (`GeneratedIs`,
where `MapsFinite` makes the recursion end). `ClosureIsGroup` and `ClosureIsLeast` are all that is used
of it from then on. There is no inverse in the model, as there is none in the code: some
power of a permutation undoes it (`Undone`). `Learns` is what holds at every level of a
filtering: what is left of the permutation is in every group with what was known, what is marked
and the permutation that came in, and the other way round. So when
nothing is left the permutation was not needed, and when part of it went into the ring it is
marked (`OutcomeLearns`). `GroupStays` adds that a random walk stays in the group.

`KeepsKnowledge` is a refinement: `group` and `answer` are those of `GroupKnowledge`. Adding is
`Give`, starting a walk is `Ask`, a walk goes on by stuttering and ends with `Answer`. That
every answer is sound needs the orbits of all levels (`KnowsOrbits`). `LevelsNamed` says that they are
orbits under elements of the group that keep the base points before the level (`Fixers`): what is
left of a permutation at a level is such an element, by `LevelTraced` and `Learns`, and
`JoinOrbitsNames` is the loop that joins what it moves. `Fuses` says that at the
first level no orbit of the group is missing: `Joined` comes before anything is left out, so
what came in has been joined (`Fused`), and what permutations keep is kept by all
that they generate (`FusesClosure`). `RebaseKnows` is about another base: the
level with the first new point may keep its orbits, those after it may not, and those past the
end are not in use, because the level before them has no base point.

### Only model-checked

* Liveness, which needs `ENABLED`: `RunEnds`, `CallEnds`, `NoOrphan`, `RefineReturns`,
  `SearchEnds`, `CallReturns`.
* Of `GroupExact` of nauty, that the orbits are not finer than those of the group and that the
  indices multiply to its order, and that labellings are canonical (`KeepsContract`). Both are
  about all of a search tree, pruned parts included.
* `BlissSearch`, whose refinement is a recursive operator, which no theorem can reach.
* `Transforms`, whose conversions are folds of the community modules.

## 6. What is not modelled

* The search of Traces (`traces.c`, 10,000 lines): a breadth-first search over levels of
  candidates in a trie, with random experimental paths, six variants of one
  refinement by the kind of graph, and special treatment of vertices of small
  degree. A model that keeps its control would be a transliteration, and one that
  does not would say nothing about it. Its permutation group is modelled.
* nauty: what the bindings' options never switch on – undirected graphs, user
  procedures, the Schreier structure inside nauty, printing, the other vertex
  invariants – and the twins of `refine` and `longprune` for graphs of more than one machine word.
* Bliss: the class `Graph`, splitting heuristics other than the default one,
  `find_automorphisms`, the mixing of `uintseqhash.cc` (a hash stands for what was hashed),
  hooks for reports and for termination; the order of the
  elements inside a cell and the arrays that undo splits (see above).
* `schreier.c`: what Traces does not call (`condaddgenerator`, `pruneset`, `grouporder`,
  `deleteunmarked`, `getorbitsmin` without changes), the free lists, and the order of the ring.
* What is linked into the bindings and never called: `gtools.c`, `naututil.c`, Bliss's
  `graph.cc`, all vertex invariants of `nautinv.c` but one. Together with `traces.c`
  these are half of the lines of the repository.
* Scott itself: its submodule is empty in this repository.
* Floating point, formatting beyond `formatNanos`, console output, build files.
* Wrapping of `i *= RULE_GROWTH_FACTOR`: `NoOverflowAssumption` states when it does
  not happen; it holds for the constants of the code.
* A second JVM next to an orphaned Python process.
* In Nishe: `RefineTraceValue::cmp`, `is_automorphism`, `is_equitable`, `is_equal_unordered`, which
  nothing calls, and reading and printing partitions.

## 7. Plan

In order; what is done is marked.

1. `Evaluation` with restarts and failing files (done), `EvaluationContract` and the
   refinement (done, checked and proved).
2. `Transforms`, `Reports`, `ScottSession` (done, checked).
3. `NishePartition` with `PartitionStack`, and `NisheRefiner` (done, checked).
4. `NautySearch` and `BlissSearch` with `CanonicalForm`, `Schreier` with `GroupKnowledge` (done, checked).
5. Proofs: `Evaluation`, `ScottSession`, `Reports`, `NishePartition` with its refinement,
   `NisheRefiner`, the rows, the leftmost path, the generators, the orbits and the labelling of nauty, `Schreier` with its
   refinement (done). Left: that the refinements of nauty commute with renaming, on which
   canonical forms rest; the folds of `Transforms` as recursive functions, to prove
   about them.
6. Of Traces, the candidates of one level and how they are pruned with the orbits that
   `Schreier` answers, with the refinement as an oracle.
