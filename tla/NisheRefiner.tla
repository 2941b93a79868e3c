---------------------------- MODULE NisheRefiner ----------------------------
(***************************************************************************)
(* The refinement that the Nishe binding measures (Refiner-inl.h): the     *)
(* cells of an ordered partition are split by the number of arcs between   *)
(* their vertices and one active cell after the other, and every           *)
(* comparison is recorded in a trace, or compared with a recorded one.     *)
(*                                                                         *)
(* A behaviour refines one coloured graph with a new trace and then makes  *)
(* a second call with the same Refiner object: on a renamed copy of the    *)
(* graph, on a partition with one vertex broken out of its cell, or on any *)
(* graph with the trace of the first call to compare with.                 *)
(*                                                                         *)
(* The partition nest is used through what PartitionStack promises of it;  *)
(* a step is one active index or one adjacent cell.                        *)
(***************************************************************************)
EXTENDS Integers, Sequences, FiniteSets, FiniteSetsExt, SequencesExt

CONSTANTS
    N,          \* number of vertices in the adjacency list
    Graphs,     \* the graphs, as sets of arcs
    Starts,     \* the partitions that colourings give
    Others,     \* graphs with partitions, to be compared with the first trace
    Renamings   \* permutations of the vertices

Vertices == 0 .. N - 1

\* An index is the number of vertices in the cells before.
IndexedPartitions ==
    {p \in [Vertices -> Vertices] :
        \A u \in Vertices : p[u] = Cardinality({v \in Vertices : p[v] < p[u]})}

ASSUME ConstantsAssumption ==
    /\ N \in Nat \ {0}
    /\ Graphs \subseteq SUBSET (Vertices \X Vertices)
    /\ Starts \subseteq IndexedPartitions
    /\ Others \subseteq (SUBSET (Vertices \X Vertices)) \X IndexedPartitions
    /\ Renamings \subseteq
           {s \in [Vertices -> Vertices] : \A u, v \in Vertices : u # v => s[u] # s[v]}

VARIABLES
    graph,             \* the arcs of the graph at hand
    start,             \* the partition refine was given
    elements,          \* of the nest, cell by cell
    index_containing,  \* of the nest
    pending,           \* indices enqueued to the nest and not committed
    active_indices,    \* stack of cells that may still split others
    active_count,      \* how many were taken from it
    attr_sums,         \* arcs <<in, out, both>> between a vertex and the active cell
    adjacent,          \* cells next to the active cell that are still to be split
    attr_sum_count,    \* position in the recorded trace of the active index
    trace,             \* the trace: active indices, and what was seen of each
    cmp,               \* -1: recording; 0: as recorded so far; 1: larger
    pc,                \* "active", "split", "done", "throw", "undefined"
    call,              \* which call is being made
    first              \* history: trace and partition of the first call

nestVars == <<elements, index_containing, pending>>
callVars == <<graph, start, call, first>>
vars == <<nestVars, active_indices, active_count, attr_sums, adjacent, attr_sum_count,
          trace, cmp, pc, callVars>>

Nest == INSTANCE PartitionStack WITH nest <- <<index_containing>>

-----------------------------------------------------------------------------
(* The graph *)

\* add_arc: an arc appears at both ends, two antiparallel arcs as one entry of a
\* kind of its own, a loop as an outgoing and an incoming entry.
Kinds(g, u, v) ==
    CASE u = v -> IF <<u, u>> \in g THEN {"in", "out"} ELSE {}
      [] u # v /\ {<<u, v>>, <<v, u>>} \subseteq g -> {"both"}
      [] OTHER -> (IF <<u, v>> \in g THEN {"out"} ELSE {})
                    \cup (IF <<v, u>> \in g THEN {"in"} ELSE {})

vertex_count(g) == Max({-1} \cup {a[1] : a \in g} \cup {a[2] : a \in g}) + 1

Neighbours(g, u) == {v \in Vertices : Kinds(g, u, v) # {}}

NoSum == <<0, 0, 0>>

\* What the vertices of C sow into v.
SownBy(g, C, v) ==
    [i \in 1 .. 3 |-> Cardinality({u \in C : <<"in", "out", "both">>[i] \in Kinds(g, u, v)})]

LessSum(a, b) ==
    \E i \in 1 .. 3 : a[i] < b[i] /\ \A j \in 1 .. i - 1 : a[j] = b[j]

-----------------------------------------------------------------------------
(* The partition and the trace *)

Cell(p, k) == {u \in Vertices : p[u] = k}

CellSize(k) == Cardinality(Cell(index_containing, k))

PositionsOf(k) == k .. k + CellSize(k) - 1

\* The binding lists the vertices of a colour in ascending order.
ElementsOf(p) ==
    CHOOSE e \in [Vertices -> Vertices] :
        \A i, j \in Vertices : i < j =>
            p[e[i]] < p[e[j]] \/ (p[e[i]] = p[e[j]] /\ e[i] < e[j])

\* Indices from the first to the last.
Ascending(K) ==
    [i \in 1 .. Cardinality(K) |->
        CHOOSE k \in K : Cardinality({j \in K : j < k}) = i - 1]

\* Mutant: the nontrivial cells.
OnlyNontrivialIndices(p) ==
    Ascending({k \in Nest!Indices(p) : Cardinality(Cell(p, k)) > 1})

\* All cells, not only the nontrivial ones, in spite of the name of the function.
nontrivial_indices(p) == Ascending(Nest!Indices(p))

EmptyTrace == [active_indices |-> <<>>, sums |-> <<>>]

Resized(t, n) ==
    [active_indices |-> SubSeq(t.active_indices, 1, n), sums |-> SubSeq(t.sums, 1, n)]

Pushed(t, k) ==
    [active_indices |-> Append(t.active_indices, k), sums |-> Append(t.sums, <<>>)]

Outcome(t, c) == [trace |-> t, cmp |-> c]

trace_active_index(k) ==
    IF cmp = -1
    THEN Outcome(Pushed(trace, k), -1)
    ELSE IF active_count >= Len(trace.active_indices)
              \/ k > trace.active_indices[active_count + 1]
         THEN Outcome(trace, 1)
         ELSE IF k < trace.active_indices[active_count + 1]
              THEN Outcome(Pushed(Resized(trace, active_count), k), -1)
              ELSE Outcome(trace, 0)

LessEntry(a, b) == a[1] < b[1] \/ (a[1] = b[1] /\ LessSum(a[2], b[2]))

\* The cut of the list of the active index at hand, with an entry appended.
WithEntry(t, a, n, entry) ==
    LET r == Resized(t, a + 1)
    IN  [r EXCEPT !.sums[a + 1] = Append(SubSeq(@, 1, n), entry)]

\* o: the outcome so far; n: attr_sum_count; entry: <<adjacent index, sum>>.
\* A position past the end of the recorded list is read without a check: 2.
trace_attr_sum(o, n, entry) ==
    LET seen == o.trace.sums[active_count + 1]
    IN  CASE o.cmp = -1 ->
                Outcome(WithEntry(o.trace, active_count, Len(seen), entry), -1)
          [] o.cmp = 0 /\ n >= Len(seen) -> Outcome(o.trace, 2)
          [] o.cmp = 0 /\ n < Len(seen) /\ LessEntry(seen[n + 1], entry) ->
                Outcome(o.trace, 1)
          [] o.cmp = 0 /\ n < Len(seen) /\ LessEntry(entry, seen[n + 1]) ->
                Outcome(WithEntry(o.trace, active_count, n, entry), -1)
          [] OTHER -> o

-----------------------------------------------------------------------------
(* A call *)

\* refine with the trace t and the active indices a, on a graph and a partition with
\* elements e.  The sums are kept by the Refiner from call to call, and never shrink.
Refine(g, p, e, t, a) ==
    /\ graph' = g
    /\ start' = p
    /\ elements' = e
    /\ index_containing' = p
    /\ pending' = {}
    /\ active_indices' = a
    /\ active_count' = 0
    /\ adjacent' = {}
    /\ attr_sum_count' = 0
    /\ trace' = t
    /\ cmp' = IF t = EmptyTrace THEN -1 ELSE 0
    /\ pc' = "active"
    /\ attr_sums' = [v \in 0 .. Max({Cardinality(DOMAIN attr_sums), vertex_count(g)}) - 1 |->
           IF v \in DOMAIN attr_sums THEN attr_sums[v] ELSE NoSum]

Init ==
    /\ graph \in Graphs
    /\ start \in Starts
    /\ elements = ElementsOf(start)
    /\ index_containing = start
    /\ pending = {}
    /\ active_indices = nontrivial_indices(start)
    /\ active_count = 0
    /\ attr_sums = [v \in 0 .. vertex_count(graph) - 1 |-> NoSum]
    /\ adjacent = {}
    /\ attr_sum_count = 0
    /\ trace = EmptyTrace
    /\ cmp = -1
    /\ pc = "active"
    /\ call = "first"
    /\ first = [trace |-> EmptyTrace, index |-> start, names |-> [v \in Vertices |-> v]]

\* get_nbhd throws for a vertex past the last one with an arc, and nothing catches it.
Throw ==
    /\ pc = "active"
    /\ active_indices # <<>>
    /\ trace_active_index(Last(active_indices)).cmp # 1
    /\ \E u \in Cell(index_containing, Last(active_indices)) : u >= vertex_count(graph)
    /\ pc' = "throw"
    /\ UNCHANGED <<nestVars, active_indices, active_count, attr_sums, adjacent,
                   attr_sum_count, trace, cmp, callVars>>

LargerActiveIndex ==
    /\ pc = "active"
    /\ active_indices # <<>>
    /\ trace_active_index(Last(active_indices)).cmp = 1
    /\ active_indices' = Front(active_indices)
    /\ cmp' = 1
    /\ pc' = "done"
    /\ UNCHANGED <<nestVars, active_count, attr_sums, adjacent, attr_sum_count, trace,
                   callVars>>

\* split_with_index up to the loop over the adjacent cells.
SowActiveCell ==
    /\ pc = "active"
    /\ active_indices # <<>>
    /\ LET k == Last(active_indices)
           C == Cell(index_containing, k)
           o == trace_active_index(k)
       IN  /\ o.cmp # 1
           /\ \A u \in C : u < vertex_count(graph)
           /\ trace' = o.trace
           /\ cmp' = o.cmp
           /\ attr_sums' = [v \in DOMAIN attr_sums |->
                  [i \in 1 .. 3 |-> attr_sums[v][i] + SownBy(graph, C, v)[i]]]
           /\ adjacent' =
                  {index_containing[v] : v \in UNION {Neighbours(graph, u) : u \in C}}
    /\ active_indices' = Front(active_indices)
    /\ attr_sum_count' = 0
    /\ pc' = "split"
    /\ UNCHANGED <<nestVars, active_count, callVars>>

\* The loop leaves nothing in attr_sums, neither of a cell it is done with nor,
\* when it bails out, of those it did not reach.
Erased(cells) ==
    [v \in DOMAIN attr_sums |->
        IF index_containing[v] \in cells THEN NoSum ELSE attr_sums[v]]

HaveSums(cells) == {v \in Vertices : index_containing[v] \in cells} \subseteq DOMAIN attr_sums

\* Mutant: bailing out erases the cell at hand only.
AfterAdjacentBails(k, o) ==
    /\ trace' = o.trace
    /\ cmp' = o.cmp
    /\ attr_sums' = Erased({k})
    /\ adjacent' = IF o.cmp = 1 THEN {} ELSE adjacent \ {k}
    /\ pc' = CASE o.cmp \in {-1, 0} -> "split"
               [] o.cmp = 1 /\ HaveSums(adjacent) -> "done"
               [] OTHER -> "undefined"
    /\ UNCHANGED <<active_count, callVars>>

AfterAdjacent(k, o) ==
    /\ trace' = o.trace
    /\ cmp' = o.cmp
    /\ attr_sums' = Erased(IF o.cmp = 1 THEN adjacent ELSE {k})
    /\ adjacent' = IF o.cmp = 1 THEN {} ELSE adjacent \ {k}
    /\ pc' = CASE o.cmp \in {-1, 0} -> "split"
               [] o.cmp = 1 /\ HaveSums(adjacent) -> "done"
               [] OTHER -> "undefined"
    /\ UNCHANGED <<active_count, callVars>>

\* A cell with a vertex past the last one with an arc lies next to the active cell:
\* sums past the end of their vector are read and written, and anything may follow.
ReadsPastSums ==
    /\ pc = "split"
    /\ adjacent # {}
    /\ ~ HaveSums({Min(adjacent)})
    /\ pc' = "undefined"
    /\ UNCHANGED <<nestVars, active_indices, active_count, attr_sums, adjacent,
                   attr_sum_count, trace, cmp, callVars>>

\* Mutant: the trace records the vertex of a trivial cell instead of its index.
TraceTrivialVertex ==
    /\ pc = "split"
    /\ adjacent # {}
    /\ LET k == Min(adjacent)
           entry == <<elements[k], attr_sums[elements[k]]>>
       IN  /\ CellSize(k) = 1
           /\ AfterAdjacent(k, trace_attr_sum(Outcome(trace, cmp), attr_sum_count, entry))
    /\ UNCHANGED <<nestVars, active_indices, attr_sum_count>>

TraceTrivial ==
    /\ pc = "split"
    /\ adjacent # {}
    /\ LET k == Min(adjacent)
           entry == <<k, attr_sums[elements[k]]>>
       IN  /\ CellSize(k) = 1
           /\ AfterAdjacent(k, trace_attr_sum(Outcome(trace, cmp), attr_sum_count, entry))
    /\ UNCHANGED <<nestVars, active_indices, attr_sum_count>>

\* Every order of the elements of the cell at k that std::sort may leave.
SortedCell(k) ==
    {e \in [PositionsOf(k) -> Cell(index_containing, k)] :
        /\ \A i, j \in PositionsOf(k) : i # j => e[i] # e[j]
        /\ \A i, j \in PositionsOf(k) : i < j => ~ LessSum(attr_sums[e[j]], attr_sums[e[i]])}

\* The positions at which a new attr_sum begins, ascending.
NewIndices(k, e) ==
    Ascending({i \in PositionsOf(k) \ {k} : attr_sums[e[i]] # attr_sums[e[i - 1]]})

\* The outcomes after the first entry and after each new index.
Outcomes(k, e) ==
    LET new == NewIndices(k, e)
        Entry(i) == <<i, attr_sums[e[i]]>>
        f[i \in 0 .. Len(new)] ==
            IF i = 0
            THEN trace_attr_sum(Outcome(trace, cmp), attr_sum_count, Entry(k))
            ELSE trace_attr_sum(f[i - 1], attr_sum_count + i - 1, Entry(new[i]))
    IN  f

\* How many new indices are enqueued before the loop ends: all, or those up to the
\* one whose comparison fails.
Reached(k, e) ==
    LET f == Outcomes(k, e)
        stops == {i \in DOMAIN f : f[i].cmp \in {1, 2}}
    IN  IF stops = {} THEN Len(NewIndices(k, e)) ELSE Min(stops)

sort_and_split_index ==
    /\ pc = "split"
    /\ adjacent # {}
    /\ LET k == Min(adjacent)
       IN  /\ CellSize(k) > 1
           /\ HaveSums({k})
           /\ \E e \in SortedCell(k) :
                LET n == Reached(k, e)
                    new == SubSeq(NewIndices(k, e), 1, n)
                    o == Outcomes(k, e)[n]
                IN  /\ elements' = [i \in Vertices |->
                           IF i \in PositionsOf(k) THEN e[i] ELSE elements[i]]
                    /\ active_indices' = active_indices \o new
                    /\ attr_sum_count' = attr_sum_count + n
                    /\ IF o.cmp \in {1, 2}
                       THEN pending' = Range(new) /\ UNCHANGED index_containing
                       ELSE /\ index_containing' = [u \in Vertices |->
                                   IF index_containing[u] # k THEN index_containing[u]
                                   ELSE LET i == CHOOSE i \in PositionsOf(k) : e[i] = u
                                        IN  Max({j \in {k} \cup Range(new) : j <= i})]
                            /\ UNCHANGED pending
                    /\ AfterAdjacent(k, o)

NextActiveIndex ==
    /\ pc = "split"
    /\ adjacent = {}
    /\ active_count' = active_count + 1
    /\ pc' = "active"
    /\ UNCHANGED <<nestVars, active_indices, attr_sums, adjacent, attr_sum_count, trace,
                   cmp, callVars>>

\* Mutant: the loop runs until every cell has one vertex.
ReturnWhenDiscrete ==
    /\ pc = "active"
    /\ active_indices = <<>>
    /\ pc' = IF Nest!Indices(index_containing) = Vertices THEN "done" ELSE "active"
    /\ UNCHANGED <<nestVars, active_indices, active_count, attr_sums, adjacent,
                   attr_sum_count, trace, cmp, callVars>>

Return ==
    /\ pc = "active"
    /\ active_indices = <<>>
    /\ pc' = "done"
    /\ UNCHANGED <<nestVars, active_indices, active_count, attr_sums, adjacent,
                   attr_sum_count, trace, cmp, callVars>>

-----------------------------------------------------------------------------
(* The second call *)

Renamed(g, s) == {<<s[a[1]], s[a[2]]>> : a \in g}

RenamedPartition(p, s) == [v \in Vertices |-> p[CHOOSE u \in Vertices : s[u] = v]]

FirstDone == call = "first" /\ pc = "done"

CallRenamed(s) ==
    LET p == RenamedPartition(start, s)
    IN  /\ FirstDone
        /\ Refine(Renamed(graph, s), p, ElementsOf(p), EmptyTrace, nontrivial_indices(p))
        /\ call' = "renamed"
        /\ first' = [trace |-> trace, index |-> index_containing, names |-> s]

\* breakout(u), then refine with the index of u as initial_active_index.
CallIndividualized(u) ==
    LET k == index_containing[u]
        i == CHOOSE i \in PositionsOf(k) : elements[i] = u
    IN  /\ FirstDone
        /\ CellSize(k) > 1
        /\ Refine(graph,
                  [v \in Vertices |-> IF index_containing[v] = k /\ v # u
                                      THEN k + 1 ELSE index_containing[v]],
                  [elements EXCEPT ![k] = u, ![i] = elements[k]],
                  EmptyTrace, <<k>>)
        /\ call' = "individualized"
        /\ UNCHANGED first

CallCompared(g, p) ==
    /\ FirstDone
    /\ Refine(g, p, ElementsOf(p), trace, nontrivial_indices(p))
    /\ call' = IF g = graph /\ p = start THEN "again" ELSE "compared"
    /\ UNCHANGED first

Step ==
    \/ Throw
    \/ LargerActiveIndex
    \/ SowActiveCell
    \/ ReadsPastSums
    \/ TraceTrivial
    \/ sort_and_split_index
    \/ NextActiveIndex
    \/ Return

Ended == ~ FirstDone /\ pc \in {"done", "throw", "undefined"} /\ UNCHANGED vars

Next ==
    \/ Step
    \/ \E s \in Renamings : CallRenamed(s)
    \/ \E u \in Vertices : CallIndividualized(u)
    \/ \E o \in Others \cup {<<graph, start>>} : CallCompared(o[1], o[2])
    \/ Ended

Spec == Init /\ [][Next]_vars

FairSpec == Spec /\ WF_vars(Step)

-----------------------------------------------------------------------------
(* Properties *)

Sums == [1 .. 3 -> 0 .. N]

Traces == [active_indices : Seq(Vertices), sums : Seq(Seq(Vertices \X Sums))]

\* The types of the variables.
TypeOK ==
    /\ graph \in SUBSET (Vertices \X Vertices)
    /\ {start, index_containing} \subseteq IndexedPartitions
    /\ elements \in [Vertices -> Vertices]
    /\ pending \in SUBSET Vertices
    /\ active_indices \in Seq(Vertices)
    /\ active_count \in 0 .. 2 * N
    /\ \E n \in 0 .. N : attr_sums \in [0 .. n - 1 -> Sums]
    /\ adjacent \in SUBSET Vertices
    /\ attr_sum_count \in 0 .. N
    /\ trace \in Traces
    /\ cmp \in {-1, 0, 1, 2}
    /\ pc \in {"active", "split", "done", "throw", "undefined"}
    /\ call \in {"first", "renamed", "individualized", "again", "compared"}
    /\ first.trace \in Traces /\ first.index \in [Vertices -> Vertices]

Cells(p) == {Cell(p, k) : k \in Nest!Indices(p)}

Refines(p, q) == \A C \in Cells(p) : \E D \in Cells(q) : C \subseteq D

\* "for each u, v in a cell of pi, the nbhr_sum of u into every cell of pi must be
\* equal to v's nbhr_sum into every cell of pi as well"
Equitable(g, p) ==
    \A D \in Cells(p), C \in Cells(p) : \A u, v \in C : SownBy(g, D, u) = SownBy(g, D, v)

NewTrace == call \in {"first", "renamed", "individualized"}

\* A refinement that records a new trace ends with the coarsest equitable partition
\* that refines the one it was given, although the first part of a cell that is
\* split never becomes active again, and although only one index is active at the
\* start after a vertex was broken out.
CoarsestEquitable ==
    NewTrace /\ pc = "done" =>
        /\ Equitable(graph, index_containing)
        /\ \A u, v \in Vertices : start[u] < start[v] => index_containing[u] < index_containing[v]
        /\ \A q \in IndexedPartitions :
               Equitable(graph, q) /\ Refines(q, start) => Refines(q, index_containing)

\* Renaming the vertices of a coloured graph changes neither the trace nor, up to the
\* renaming, the partition, in whatever order std::sort leaves equal elements.
CanonicalTrace ==
    /\ TypeOK
    /\ call = "renamed" /\ pc = "done" =>
        /\ trace = first.trace
        /\ \A v \in Vertices : index_containing[first.names[v]] = first.index[v]

\* The sums are zero whenever the next active cell is sown, also in the next call of
\* the same Refiner after a comparison has made this one bail out half-way.
NothingSown ==
    pc \in {"active", "done"} => \A v \in DOMAIN attr_sums : attr_sums[v] = NoSum

\* A refinement on a new trace splits cells a bounded number of times and returns,
\* unless a vertex lies past the last one with an arc.
RefineReturns ==
    [](pc = "active" /\ NewTrace /\ vertex_count(graph) = N => <>(pc = "done"))
=============================================================================
