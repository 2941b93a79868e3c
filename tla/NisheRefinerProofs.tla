------------------------- MODULE NisheRefinerProofs -------------------------
(***************************************************************************)
(* Theorems of module NisheRefiner, for any number of vertices and any     *)
(* graphs: the sums of one active index never reach the next one; a        *)
(* refinement that records a new trace ends with the coarsest equitable    *)
(* partition that refines the one it was given; the variables keep their   *)
(* types; and renaming the vertices of a graph renames the partition and   *)
(* leaves the trace as it was.                                             *)
(***************************************************************************)
EXTENDS NisheRefiner, NumberLemmas

\* While the cells next to the active one are split, only their vertices have
\* sums; before and after that, no vertex has.
SumsOfAdjacent ==
    /\ graph \in SUBSET (Vertices \X Vertices)
    /\ \E n \in 0 .. N : DOMAIN attr_sums = 0 .. n - 1
    /\ pc = "split" =>
           \A v \in DOMAIN attr_sums :
               attr_sums[v] # NoSum => index_containing[v] \in adjacent
    /\ pc \in {"active", "done"} => \A v \in DOMAIN attr_sums : attr_sums[v] = NoSum

-----------------------------------------------------------------------------
\* No arc names a vertex that is not in the adjacency list.
LEMMA VertexCount ==
    ASSUME NEW g \in SUBSET (Vertices \X Vertices)
    PROVE  vertex_count(g) \in 0 .. N
<1> DEFINE T == {-1} \cup {a[1] : a \in g} \cup {a[2] : a \in g}
<1>1. T \in SUBSET Int /\ T # {} /\ \A x \in T : x \in -1 .. N - 1
    BY ConstantsAssumption DEF Vertices
<1>2. \E x \in T : \A y \in T : y <= x
    <2> HIDE DEF T
    <2>1. N - 1 \in Int /\ \A x \in T : x <= N - 1
        BY <1>1, ConstantsAssumption
    <2> QED
        BY <1>1, <2>1, Greatest
<1>3. Max(T) \in T
    <2> HIDE DEF T
    <2> QED
        BY <1>1, <1>2 DEF Max
<1>4. vertex_count(g) = Max(T) + 1
    BY DEF vertex_count
<1> HIDE DEF T
<1> QED
    <2>1. Max(T) \in -1 .. N - 1 /\ N \in Nat
        BY <1>1, <1>3, ConstantsAssumption
    <2> QED
        BY <1>4, <2>1

\* What a vertex is sown with, if it lies next to no vertex of the cell.
LEMMA NothingFromAfar ==
    ASSUME NEW g, NEW C, NEW v \in Vertices, \A u \in C : v \notin Neighbours(g, u)
    PROVE  \A i \in 1 .. 3 : SownBy(g, C, v)[i] = 0
<1>1. \A u \in C : Kinds(g, u, v) = {}
    BY DEF Neighbours
<1> SUFFICES ASSUME NEW i \in 1 .. 3
             PROVE  Cardinality({u \in C : <<"in", "out", "both">>[i] \in Kinds(g, u, v)}) = 0
    BY DEF SownBy
<1>2. {u \in C : <<"in", "out", "both">>[i] \in Kinds(g, u, v)} = {}
    BY <1>1
<1> QED
    BY <1>2, FS_EmptySet

\* The sum of a vertex that was not sown into.
LEMMA NoSumIsZero == \A i \in 1 .. 3 : NoSum[i] = 0
BY DEF NoSum

\* The sum of nothing and nothing.
LEMMA NoSumStays ==
    ASSUME NEW d, \A i \in 1 .. 3 : d[i] = 0
    PROVE  [i \in 1 .. 3 |-> NoSum[i] + d[i]] = NoSum
BY DEF NoSum

-----------------------------------------------------------------------------
\* No sums at first.
LEMMA InitSums == Init => SumsOfAdjacent
<1> SUFFICES ASSUME Init PROVE SumsOfAdjacent
    OBVIOUS
<1>1. graph \in SUBSET (Vertices \X Vertices)
    BY ConstantsAssumption DEF Init
<1>2. vertex_count(graph) \in 0 .. N
    BY <1>1, VertexCount
<1> QED
    BY <1>1, <1>2 DEF Init, SumsOfAdjacent

\* Only cells next to the active one are sown into.
LEMMA SowStep ==
    ASSUME SumsOfAdjacent, SowActiveCell
    PROVE  SumsOfAdjacent'
<1> DEFINE C == Cell(index_containing, Last(active_indices))
<1>1. /\ pc = "active" /\ pc' = "split"
      /\ UNCHANGED <<graph, index_containing>>
      /\ attr_sums' = [v \in DOMAIN attr_sums |->
                         [i \in 1 .. 3 |-> attr_sums[v][i] + SownBy(graph, C, v)[i]]]
      /\ adjacent' = {index_containing[v] : v \in UNION {Neighbours(graph, u) : u \in C}}
    BY DEF SowActiveCell, nestVars, callVars
<1> HIDE DEF C
<1>2. DOMAIN attr_sums' = DOMAIN attr_sums
    BY <1>1
<1>3. ASSUME NEW v \in DOMAIN attr_sums, index_containing[v] \notin adjacent'
      PROVE  attr_sums'[v] = NoSum
    <2>1. v \in Vertices
        BY ConstantsAssumption DEF SumsOfAdjacent, Vertices
    <2>2. \A u \in C : v \notin Neighbours(graph, u)
        BY <1>1, <1>3
    <2>3. \A i \in 1 .. 3 : SownBy(graph, C, v)[i] = 0
        BY <2>1, <2>2, NothingFromAfar
    <2>4. attr_sums[v] = NoSum
        BY <1>1 DEF SumsOfAdjacent
    <2> QED
        BY <1>1, <2>3, <2>4, NoSumStays
<1> QED
    BY <1>1, <1>2, <1>3 DEF SumsOfAdjacent

\* A cell is done with, or the call bails out.
LEMMA AfterAdjacentStep ==
    ASSUME SumsOfAdjacent, NEW k, NEW o, pc = "split", AfterAdjacent(k, o),
           o.cmp \notin {1, 2} =>
               \A v \in DOMAIN attr_sums :
                   index_containing[v] # k => index_containing'[v] = index_containing[v]
    PROVE  SumsOfAdjacent'
<1>1. /\ attr_sums' = Erased(IF o.cmp = 1 THEN adjacent ELSE {k})
      /\ adjacent' = IF o.cmp = 1 THEN {} ELSE adjacent \ {k}
      /\ pc' = CASE o.cmp \in {-1, 0} -> "split"
                 [] o.cmp = 1 /\ HaveSums(adjacent) -> "done"
                 [] OTHER -> "undefined"
      /\ graph' = graph
    BY DEF AfterAdjacent, callVars
<1>2. DOMAIN attr_sums' = DOMAIN attr_sums
    BY <1>1 DEF Erased
<1>3. \A v \in DOMAIN attr_sums :
        attr_sums[v] # NoSum => index_containing[v] \in adjacent
    BY DEF SumsOfAdjacent
<1>4. CASE o.cmp \in {-1, 0}
    <2>1. pc' = "split" /\ attr_sums' = Erased({k}) /\ adjacent' = adjacent \ {k}
        BY <1>1, <1>4
    <2>2. ASSUME NEW v \in DOMAIN attr_sums, attr_sums'[v] # NoSum
          PROVE  index_containing'[v] \in adjacent'
        <3>1. index_containing[v] # k /\ attr_sums'[v] = attr_sums[v]
            BY <2>1, <2>2 DEF Erased
        <3> QED
            BY <1>3, <1>4, <2>1, <2>2, <3>1
    <2> QED
        BY <1>1, <1>2, <2>1, <2>2 DEF SumsOfAdjacent
<1>5. CASE o.cmp = 1
    <2>1. pc' # "split" /\ pc' # "active" /\ attr_sums' = Erased(adjacent)
        BY <1>1, <1>5
    <2>2. \A v \in DOMAIN attr_sums : attr_sums'[v] = NoSum
        BY <1>3, <2>1 DEF Erased
    <2> QED
        BY <1>1, <1>2, <2>1, <2>2 DEF SumsOfAdjacent
<1>6. CASE o.cmp \notin {-1, 0, 1}
    <2>1. pc' = "undefined"
        BY <1>1, <1>6
    <2> QED
        BY <1>1, <1>2, <2>1 DEF SumsOfAdjacent
<1> QED
    BY <1>4, <1>5, <1>6

\* The sums of a cell are erased when it has been split.
LEMMA SplitStep ==
    ASSUME SumsOfAdjacent, sort_and_split_index
    PROVE  SumsOfAdjacent'
<1> DEFINE k == Min(adjacent)
<1>1. pc = "split"
    BY DEF sort_and_split_index
<1>2. PICK e \in SortedCell(k) :
        LET n == Reached(k, e)
            new == SubSeq(NewIndices(k, e), 1, n)
            o == Outcomes(k, e)[n]
        IN  /\ IF o.cmp \in {1, 2}
               THEN pending' = Range(new) /\ UNCHANGED index_containing
               ELSE /\ index_containing' = [u \in Vertices |->
                           IF index_containing[u] # k THEN index_containing[u]
                           ELSE LET i == CHOOSE i \in PositionsOf(k) : e[i] = u
                                IN  Max({j \in {k} \cup Range(new) : j <= i})]
                    /\ UNCHANGED pending
            /\ AfterAdjacent(k, o)
    BY DEF sort_and_split_index
<1> DEFINE o == Outcomes(k, e)[Reached(k, e)]
<1>3. AfterAdjacent(k, o)
    BY <1>2
<1>4. DOMAIN attr_sums \subseteq Vertices
    BY ConstantsAssumption DEF SumsOfAdjacent, Vertices
<1>5. o.cmp \notin {1, 2} =>
        \A v \in DOMAIN attr_sums :
            index_containing[v] # k => index_containing'[v] = index_containing[v]
    BY <1>2, <1>4
<1> HIDE DEF k, o
<1> QED
    BY <1>1, <1>3, <1>5, AfterAdjacentStep

\* The sum of a trivial cell is erased when it has been compared.
LEMMA TrivialStep ==
    ASSUME SumsOfAdjacent, TraceTrivial
    PROVE  SumsOfAdjacent'
<1> DEFINE k == Min(adjacent)
           entry == <<k, attr_sums[elements[k]]>>
           o == trace_attr_sum(Outcome(trace, cmp), attr_sum_count, entry)
<1>1. pc = "split" /\ AfterAdjacent(k, o) /\ index_containing' = index_containing
    BY DEF TraceTrivial, nestVars
<1> HIDE DEF k, o
<1> QED
    BY <1>1, AfterAdjacentStep

\* The next call of the Refiner extends the sums, and never shrinks them.
LEMMA RefineStep ==
    ASSUME SumsOfAdjacent, pc = "done",
           NEW g \in SUBSET (Vertices \X Vertices), NEW p, NEW e, NEW t, NEW a,
           Refine(g, p, e, t, a)
    PROVE  SumsOfAdjacent'
<1>1. PICK n \in 0 .. N : DOMAIN attr_sums = 0 .. n - 1
    BY DEF SumsOfAdjacent
<1>2. Cardinality(DOMAIN attr_sums) = n
    <2>1. n \in Nat /\ 0 \in Int /\ n - 1 \in Int
        BY <1>1, ConstantsAssumption
    <2>2. Cardinality(0 .. n - 1) = IF 0 > n - 1 THEN 0 ELSE n - 1 - 0 + 1
        BY <2>1, FS_Interval
    <2> QED
        BY <1>1, <2>1, <2>2
<1>3. vertex_count(g) \in 0 .. N
    BY VertexCount
<1> DEFINE m == Max({n, vertex_count(g)})
<1>4. m \in 0 .. N
    BY <1>3, ConstantsAssumption DEF Max
<1>5. attr_sums' = [v \in 0 .. m - 1 |->
                     IF v \in DOMAIN attr_sums THEN attr_sums[v] ELSE NoSum]
    BY <1>2 DEF Refine
<1> HIDE DEF m
<1>6. \A v \in DOMAIN attr_sums' : attr_sums'[v] = NoSum
    BY <1>5 DEF SumsOfAdjacent
<1> QED
    BY <1>4, <1>5, <1>6 DEF SumsOfAdjacent, Refine

\* The second call begins without sums.
LEMMA SecondCallStep ==
    ASSUME SumsOfAdjacent,
           \/ \E s \in Renamings : CallRenamed(s)
           \/ \E u \in Vertices : CallIndividualized(u)
           \/ \E o \in Others \cup {<<graph, start>>} : CallCompared(o[1], o[2])
    PROVE  SumsOfAdjacent'
<1>1. graph \in SUBSET (Vertices \X Vertices)
    BY DEF SumsOfAdjacent
<1>2. ASSUME NEW s \in Renamings, CallRenamed(s) PROVE SumsOfAdjacent'
    <2>1. s \in [Vertices -> Vertices]
        BY ConstantsAssumption
    <2>2. Renamed(graph, s) \in SUBSET (Vertices \X Vertices)
        BY <1>1, <2>1 DEF Renamed
    <2> QED
        BY <1>2, <2>2, RefineStep DEF CallRenamed, FirstDone
<1>3. ASSUME NEW u \in Vertices, CallIndividualized(u) PROVE SumsOfAdjacent'
    BY <1>1, <1>3, RefineStep DEF CallIndividualized, FirstDone
<1>4. ASSUME NEW o \in Others \cup {<<graph, start>>}, CallCompared(o[1], o[2])
      PROVE  SumsOfAdjacent'
    <2>1. o[1] \in SUBSET (Vertices \X Vertices)
        BY <1>1, ConstantsAssumption
    <2> QED
        BY <1>4, <2>1, RefineStep DEF CallCompared, FirstDone
<1> QED
    BY <1>2, <1>3, <1>4

\* SumsOfAdjacent is inductive.
LEMMA NextSums == SumsOfAdjacent /\ [Next]_vars => SumsOfAdjacent'
<1> SUFFICES ASSUME SumsOfAdjacent, [Next]_vars PROVE SumsOfAdjacent'
    OBVIOUS
<1>1. CASE UNCHANGED vars
    BY <1>1 DEF vars, nestVars, callVars, SumsOfAdjacent
<1>2. CASE Throw \/ LargerActiveIndex \/ ReadsPastSums \/ NextActiveIndex \/ Return
    BY <1>2 DEF Throw, LargerActiveIndex, ReadsPastSums, NextActiveIndex, Return,
                nestVars, callVars, SumsOfAdjacent
<1> QED
    BY <1>1, <1>2, SowStep, TrivialStep, SplitStep, SecondCallStep
       DEF Next, Step, Ended

\* No sum of one active index is still there when the next one is sown, in
\* whatever order cells are split, wherever a comparison makes a call bail out,
\* and whatever call of the Refiner comes next.
THEOREM NothingSownTheorem == Spec => []NothingSown
<1>1. SumsOfAdjacent => NothingSown
    BY DEF SumsOfAdjacent, NothingSown
<1> QED
    BY InitSums, NextSums, <1>1, PTL DEF Spec

\* There are N vertices.
LEMMA VerticesFinite ==
    /\ N \in Nat /\ N > 0
    /\ IsFiniteSet(Vertices) /\ Cardinality(Vertices) = N
<1>1. N \in Nat /\ N > 0
    BY ConstantsAssumption
<1>2. 0 \in Int /\ N - 1 \in Int
    BY <1>1
<1>3. /\ IsFiniteSet(0 .. N - 1)
      /\ Cardinality(0 .. N - 1) = IF 0 > N - 1 THEN 0 ELSE N - 1 - 0 + 1
    BY <1>2, FS_Interval
<1> QED
    BY <1>1, <1>3 DEF Vertices

\* Sets of vertices can be counted.
LEMMA SetsOfVertices ==
    ASSUME NEW S, S \subseteq Vertices
    PROVE  IsFiniteSet(S) /\ Cardinality(S) \in Nat /\ Cardinality(S) <= N
<1>1. IsFiniteSet(S) /\ Cardinality(S) <= Cardinality(Vertices)
    BY VerticesFinite, FS_Subset
<1> QED
    BY <1>1, VerticesFinite, FS_CardinalityType

\* A set with an element less is smaller.
LEMMA FewerMembers ==
    ASSUME NEW S, IsFiniteSet(S), NEW T, T \subseteq S, T # S
    PROVE  /\ IsFiniteSet(T) /\ Cardinality(T) \in Nat /\ Cardinality(S) \in Nat
           /\ Cardinality(T) < Cardinality(S)
<1>1. /\ IsFiniteSet(T) /\ Cardinality(T) <= Cardinality(S)
      /\ Cardinality(S) # Cardinality(T)
    BY FS_Subset
<1>2. Cardinality(T) \in Nat /\ Cardinality(S) \in Nat
    BY <1>1, FS_CardinalityType
<1> QED
    BY <1>1, <1>2

-----------------------------------------------------------------------------
(* Ascending sequences *)

\* The rank of an index in a set.
Rank(K, x) == Cardinality({j \in K : j < x})

\* Exactly one index has each rank.
LEMMA RanksAreAll ==
    ASSUME NEW K, K \subseteq Nat, IsFiniteSet(K)
    PROVE  /\ \A x \in K : Rank(K, x) \in 0 .. Cardinality(K) - 1
           /\ \A x, y \in K : Rank(K, x) = Rank(K, y) => x = y
           /\ \A i \in 0 .. Cardinality(K) - 1 : \E x \in K : Rank(K, x) = i
<1>0. Cardinality(K) \in Nat
    BY FS_CardinalityType
<1>1. ASSUME NEW x \in K
      PROVE  /\ IsFiniteSet({j \in K : j < x})
             /\ Rank(K, x) \in Nat
             /\ Rank(K, x) < Cardinality(K)
    <2>1. {j \in K : j < x} \subseteq K /\ {j \in K : j < x} # K
        OBVIOUS
    <2> QED
        BY <2>1, FewerMembers DEF Rank
<1>2. ASSUME NEW x \in K, NEW y \in K, x < y PROVE Rank(K, x) < Rank(K, y)
    <2>1. {j \in K : j < x} \subseteq {j \in K : j < y}
        <3>1. x \in Int /\ y \in Int /\ \A j \in K : j \in Int
            OBVIOUS
        <3>2. \A j \in K : j < x => j < y
            BY <1>2, <3>1
        <3> QED
            BY <3>2
    <2>2. x \in {j \in K : j < y} /\ x \notin {j \in K : j < x}
        BY <1>2
    <2>3. {j \in K : j < x} # {j \in K : j < y}
        BY <2>2
    <2>4. IsFiniteSet({j \in K : j < y})
        BY <1>1
    <2>5. Cardinality({j \in K : j < x}) < Cardinality({j \in K : j < y})
        BY <2>1, <2>3, <2>4, FewerMembers
    <2> QED
        BY <2>5 DEF Rank
<1>3. \A x, y \in K : Rank(K, x) = Rank(K, y) => x = y
    <2> SUFFICES ASSUME NEW x \in K, NEW y \in K, x # y PROVE Rank(K, x) # Rank(K, y)
        OBVIOUS
    <2>1. Rank(K, x) \in Nat /\ Rank(K, y) \in Nat
        BY <1>1
    <2>2. CASE x < y
        BY <1>2, <2>1, <2>2
    <2>3. CASE y < x
        BY <1>2, <2>1, <2>3
    <2> QED
        BY <2>2, <2>3
<1>4. \A x \in K : Rank(K, x) \in 0 .. Cardinality(K) - 1
    <2> SUFFICES ASSUME NEW x \in K PROVE Rank(K, x) \in 0 .. Cardinality(K) - 1
        OBVIOUS
    <2>1. PICK i, m : i = Rank(K, x) /\ m = Cardinality(K)
        OBVIOUS
    <2>2. i \in Nat /\ m \in Nat /\ i < m
        BY <1>0, <1>1, <2>1
    <2> QED
        BY <2>1, <2>2
<1> DEFINE r == [x \in K |-> Rank(K, x)]
           T == 0 .. Cardinality(K) - 1
<1>5. IsFiniteSet(T) /\ Cardinality(T) = Cardinality(K)
    <2>1. 0 \in Int /\ Cardinality(K) - 1 \in Int
        BY <1>0
    <2>2. /\ IsFiniteSet(T)
          /\ Cardinality(T) = IF 0 > Cardinality(K) - 1 THEN 0 ELSE Cardinality(K) - 1 - 0 + 1
        BY <2>1, FS_Interval
    <2> QED
        BY <1>0, <2>2
<1>6. r \in Injection(K, T)
    BY <1>3, <1>4 DEF Injection, IsInjective
<1>7. \A i \in T : \E x \in K : r[x] = i
    <2>1. ASSUME NEW i \in T, \A x \in K : r[x] # i PROVE FALSE
        <3>1. r \in Injection(K, T \ {i})
            BY <1>6, <2>1 DEF Injection, IsInjective
        <3>2. IsFiniteSet(T \ {i}) /\ Cardinality(T \ {i}) = Cardinality(T) - 1
            BY <1>5, <2>1, FS_RemoveElement
        <3>3. Cardinality(K) <= Cardinality(T \ {i})
            BY <3>1, <3>2, FS_Injection
        <3> QED
            BY <1>0, <1>5, <3>2, <3>3
    <2> QED
        BY <2>1
<1> QED
    BY <1>3, <1>4, <1>7

\* Ascending lists every index of the set once, the one of rank r after r others.
LEMMA AscendingIs ==
    ASSUME NEW K, K \subseteq Nat, IsFiniteSet(K)
    PROVE  /\ Ascending(K) \in Seq(K) /\ Len(Ascending(K)) = Cardinality(K)
           /\ Range(Ascending(K)) = K
           /\ \A x \in K : Ascending(K)[Rank(K, x) + 1] = x
<1> DEFINE s == Ascending(K)
<1>0. Cardinality(K) \in Nat
    BY FS_CardinalityType
<1>1. \A i \in 1 .. Cardinality(K) : s[i] \in K /\ Rank(K, s[i]) = i - 1
    <2> SUFFICES ASSUME NEW i \in 1 .. Cardinality(K)
                 PROVE  s[i] \in K /\ Rank(K, s[i]) = i - 1
        OBVIOUS
    <2>1. i - 1 \in 0 .. Cardinality(K) - 1
        BY <1>0
    <2>2. \E x \in K : Rank(K, x) = i - 1
        BY <2>1, RanksAreAll
    <2>3. s[i] = CHOOSE x \in K : Rank(K, x) = i - 1
        BY DEF Ascending, Rank
    <2> QED
        BY <2>2, <2>3
<1>2. s \in [1 .. Cardinality(K) -> K]
    <2>1. s = [i \in 1 .. Cardinality(K) |-> s[i]]
        BY DEF Ascending
    <2> QED
        BY <1>1, <2>1
<1>3. s \in Seq(K) /\ Len(s) = Cardinality(K)
    BY <1>0, <1>2
<1>4. \A x \in K : s[Rank(K, x) + 1] = x
    <2> SUFFICES ASSUME NEW x \in K PROVE s[Rank(K, x) + 1] = x
        OBVIOUS
    <2>1. Rank(K, x) \in 0 .. Cardinality(K) - 1
        BY RanksAreAll
    <2>2. PICK i : i = Rank(K, x) + 1
        OBVIOUS
    <2>3. i \in 1 .. Cardinality(K) /\ i - 1 = Rank(K, x)
        BY <1>0, <2>1, <2>2
    <2>4. s[i] \in K /\ Rank(K, s[i]) = Rank(K, x)
        BY <1>1, <2>3
    <2> QED
        BY <2>2, <2>4, RanksAreAll
<1>5. Range(s) = K
    <2>1. \A x \in K : Rank(K, x) + 1 \in 1 .. Cardinality(K)
        <3>1. \A x \in K : Rank(K, x) \in 0 .. Cardinality(K) - 1
            BY RanksAreAll
        <3>2. \A i \in 0 .. Cardinality(K) - 1 : i + 1 \in 1 .. Cardinality(K)
            BY <1>0
        <3> QED
            BY <3>1, <3>2
    <2> HIDE DEF s
    <2>2. DOMAIN s = 1 .. Cardinality(K)
        BY <1>2
    <2> QED
        BY <1>1, <1>4, <2>1, <2>2 DEF Range
<1> QED
    BY <1>3, <1>4, <1>5

-----------------------------------------------------------------------------
(* Partitions by indices *)

\* An index is far enough from the next for the vertices of its cell.
LEMMA CellsFit ==
    ASSUME NEW p \in IndexedPartitions, NEW k \in Nest!Indices(p)
    PROVE  /\ p \in [Vertices -> Vertices]
           /\ k \in Vertices /\ Cell(p, k) \subseteq Vertices /\ Cell(p, k) # {}
           /\ Cardinality(Cell(p, k)) \in Nat /\ Cardinality(Cell(p, k)) > 0
           /\ k + Cardinality(Cell(p, k)) <= N
           /\ k = Cardinality({w \in Vertices : p[w] < k})
           /\ \A u \in Vertices : p[u] > k => p[u] >= k + Cardinality(Cell(p, k))
<1> DEFINE C == Cell(p, k)
           B == {w \in Vertices : p[w] < k}
<1>1. /\ p \in [Vertices -> Vertices]
      /\ \A u \in Vertices : p[u] = Cardinality({v \in Vertices : p[v] < p[u]})
    BY DEF IndexedPartitions
<1>2. PICK u \in Vertices : p[u] = k
    BY DEF Nest!Indices, Nest!Elements, Vertices
<1>3. k \in Vertices /\ k \in Nat /\ k = Cardinality(B)
    BY <1>1, <1>2 DEF Vertices
<1> k \in Int
    BY <1>1, <1>2 DEF Vertices
<1>4. C \subseteq Vertices /\ B \subseteq Vertices /\ u \in C
    BY <1>2 DEF Cell
<1>5. IsFiniteSet(C) /\ Cardinality(C) \in Nat /\ IsFiniteSet(B)
    BY <1>4, SetsOfVertices
<1>6. Cardinality(C) # 0
    BY <1>4, <1>5, FS_EmptySet
<1>7. B \cap C = {}
    <2> SUFFICES ASSUME NEW w \in B \cap C PROVE FALSE
        OBVIOUS
    <2>1. p[w] < k /\ p[w] = k
        BY DEF Cell
    <2>2. k < k
        BY <2>1
    <2> HIDE DEF B, C
    <2> QED
        BY <2>2
<1>8. IsFiniteSet(B \cup C) /\ Cardinality(B \cup C) = k + Cardinality(C)
    <2>1. Cardinality(B \cup C) = Cardinality(B) + Cardinality(C) - Cardinality(B \cap C)
        BY <1>5, FS_Union
    <2>2. Cardinality(B \cap C) = 0
        BY <1>7, FS_EmptySet
    <2>3. IsFiniteSet(B \cup C)
        BY <1>5, FS_Union
    <2> HIDE DEF B, C
    <2> QED
        BY <1>3, <1>5, <2>1, <2>2, <2>3
<1>9. k + Cardinality(C) <= N
    BY <1>4, <1>8, SetsOfVertices
<1>10. ASSUME NEW w \in Vertices, p[w] > k PROVE p[w] >= k + Cardinality(C)
    <2> DEFINE W == {v \in Vertices : p[v] < p[w]}
    <2>1. p[w] = Cardinality(W) /\ W \subseteq Vertices
        BY <1>1
    <2>2. \A v \in Vertices : p[v] \in Int
        BY <1>1 DEF Vertices
    <2>3. B \cup C \subseteq W
        <3>1. ASSUME NEW v \in Vertices, p[v] < k \/ p[v] = k PROVE p[v] < p[w]
            <4>1. PICK a, b : a = p[v] /\ b = p[w]
                OBVIOUS
            <4>2. a \in Int /\ b \in Int /\ k \in Int
                BY <2>2, <4>1
            <4>3. (a < k \/ a = k) /\ k < b
                BY <1>10, <3>1, <4>1
            <4>4. a < b
                BY <4>2, <4>3
            <4> QED
                BY <4>1, <4>4
        <3> QED
            BY <3>1 DEF Cell
    <2>4. IsFiniteSet(W)
        BY <2>1, SetsOfVertices
    <2>5. Cardinality(B \cup C) <= Cardinality(W)
        BY <2>3, <2>4, FS_Subset
    <2> HIDE DEF B, C, W
    <2> QED
        BY <1>8, <2>1, <2>5
<1>11. Cardinality(C) > 0
    BY <1>5, <1>6
<1> QED
    <2>1. Cell(p, k) # {}
        BY <1>4
    <2>2. \A w \in Vertices : p[w] > k => p[w] >= k + Cardinality(Cell(p, k))
        BY <1>10
    <2> QED
        BY <1>1, <1>3, <1>4, <1>5, <1>9, <1>11, <2>1, <2>2

\* Two names of the same partitions.
LEMMA RefinesIs ==
    ASSUME NEW p \in [Vertices -> Vertices], NEW q \in [Vertices -> Vertices]
    PROVE  Refines(p, q) <=> \A u, v \in Vertices : p[u] = p[v] => q[u] = q[v]
<1> DEFINE I(r) == {r[u] : u \in Vertices}
<1>1. \A r : Nest!Indices(r) = I(r)
    BY DEF Nest!Indices, Nest!Elements, Vertices
<1>2. ASSUME Refines(p, q), NEW u \in Vertices, NEW v \in Vertices, p[u] = p[v]
      PROVE  q[u] = q[v]
    <2>1. Cell(p, p[u]) \in Cells(p)
        BY <1>1 DEF Cells
    <2>2. PICK D \in Cells(q) : Cell(p, p[u]) \subseteq D
        BY <1>2, <2>1 DEF Refines
    <2>3. u \in D /\ v \in D
        BY <1>2, <2>2 DEF Cell
    <2> QED
        BY <2>2, <2>3 DEF Cells, Cell
<1>3. ASSUME \A u, v \in Vertices : p[u] = p[v] => q[u] = q[v], NEW C \in Cells(p)
      PROVE  \E D \in Cells(q) : C \subseteq D
    <2>1. PICK u \in Vertices : C = Cell(p, p[u])
        BY <1>1 DEF Cells
    <2>2. Cell(q, q[u]) \in Cells(q)
        BY <1>1 DEF Cells
    <2>3. C \subseteq Cell(q, q[u])
        BY <1>3, <2>1 DEF Cell
    <2> QED
        BY <2>2, <2>3
<1> QED
    BY <1>2, <1>3 DEF Refines

-----------------------------------------------------------------------------
(* Sums *)

\* The vertices of C sow the same into u and v.
Same(g, C, u, v) == SownBy(g, C, u) = SownBy(g, C, v)

\* A sum counts arcs of three kinds.
LEMMA SownIs ==
    ASSUME NEW g, NEW C, C \subseteq Vertices, NEW v
    PROVE  SownBy(g, C, v) \in [1 .. 3 -> Nat]
<1> SUFFICES ASSUME NEW i \in 1 .. 3
             PROVE  Cardinality({u \in C : <<"in", "out", "both">>[i] \in Kinds(g, u, v)}) \in Nat
    BY DEF SownBy
<1>1. {u \in C : <<"in", "out", "both">>[i] \in Kinds(g, u, v)} \subseteq Vertices
    OBVIOUS
<1> QED
    BY <1>1, SetsOfVertices

\* What two sets sow is added.
LEMMA SownTogether ==
    ASSUME NEW g, NEW C, NEW D, C \subseteq Vertices, D \subseteq Vertices, C \cap D = {},
           NEW v, NEW i \in 1 .. 3
    PROVE  SownBy(g, C \cup D, v)[i] = SownBy(g, C, v)[i] + SownBy(g, D, v)[i]
<1> DEFINE S(X) == {u \in X : <<"in", "out", "both">>[i] \in Kinds(g, u, v)}
<1>1. \A X : SownBy(g, X, v)[i] = Cardinality(S(X))
    BY DEF SownBy
<1>2. S(C \cup D) = S(C) \cup S(D) /\ S(C) \cap S(D) = {}
    OBVIOUS
<1>3. /\ IsFiniteSet(S(C)) /\ Cardinality(S(C)) \in Nat
      /\ IsFiniteSet(S(D)) /\ Cardinality(S(D)) \in Nat
    <2>1. S(C) \subseteq Vertices /\ S(D) \subseteq Vertices
        OBVIOUS
    <2> QED
        BY <2>1, SetsOfVertices
<1>4. Cardinality(S(C) \cup S(D)) = Cardinality(S(C)) + Cardinality(S(D))
    <2> HIDE DEF S
    <2>1. Cardinality(S(C) \cup S(D))
            = Cardinality(S(C)) + Cardinality(S(D)) - Cardinality(S(C) \cap S(D))
        BY <1>3, FS_Union
    <2>2. Cardinality(S(C) \cap S(D)) = 0
        BY <1>2, FS_EmptySet
    <2> QED
        BY <1>3, <2>1, <2>2
<1> QED
    <2> HIDE DEF S
    <2> QED
        BY <1>1, <1>2, <1>4

\* Of two sets and their union, two that sow the same into u and v make the third do so.
LEMMA SameTogether ==
    ASSUME NEW g, NEW C, NEW D, C \subseteq Vertices, D \subseteq Vertices, C \cap D = {},
           NEW u, NEW v, Same(g, D, u, v)
    PROVE  Same(g, C, u, v) <=> Same(g, C \cup D, u, v)
<1>1. /\ SownBy(g, C, u) \in [1 .. 3 -> Nat] /\ SownBy(g, C, v) \in [1 .. 3 -> Nat]
      /\ SownBy(g, D, u) \in [1 .. 3 -> Nat] /\ SownBy(g, D, v) \in [1 .. 3 -> Nat]
      /\ SownBy(g, C \cup D, u) \in [1 .. 3 -> Nat]
      /\ SownBy(g, C \cup D, v) \in [1 .. 3 -> Nat]
    BY SownIs
<1>2. \A i \in 1 .. 3 :
        /\ SownBy(g, C \cup D, u)[i] = SownBy(g, C, u)[i] + SownBy(g, D, u)[i]
        /\ SownBy(g, C \cup D, v)[i] = SownBy(g, C, v)[i] + SownBy(g, D, v)[i]
    BY SownTogether
<1>3. PICK a, b, c, d, e, f : /\ a = SownBy(g, C, u) /\ b = SownBy(g, C, v)
                              /\ c = SownBy(g, D, u) /\ d = SownBy(g, D, v)
                              /\ e = SownBy(g, C \cup D, u) /\ f = SownBy(g, C \cup D, v)
    OBVIOUS
<1>4. /\ a \in [1 .. 3 -> Nat] /\ b \in [1 .. 3 -> Nat]
      /\ c \in [1 .. 3 -> Nat] /\ c = d
      /\ e \in [1 .. 3 -> Nat] /\ f \in [1 .. 3 -> Nat]
      /\ \A i \in 1 .. 3 : e[i] = a[i] + c[i] /\ f[i] = b[i] + d[i]
    BY <1>1, <1>2, <1>3 DEF Same
<1>5. (a = b) => (e = f)
    BY <1>4
<1>6. (e = f) => (a = b)
    <2> SUFFICES ASSUME e = f PROVE a = b
        OBVIOUS
    <2>1. \A i \in 1 .. 3 : a[i] = b[i]
        BY <1>4
    <2> QED
        BY <1>4, <2>1
<1> QED
    BY <1>3, <1>5, <1>6 DEF Same

\* Cells that sow the same do so together.
LEMMA SameOnUnion ==
    ASSUME NEW g, NEW p \in [Vertices -> Vertices], NEW J, NEW u, NEW v,
           \A j \in J : Same(g, Cell(p, j), u, v)
    PROVE  Same(g, {w \in Vertices : p[w] \in J}, u, v)
<1> DEFINE Up(b) == {w \in Vertices : p[w] \in J /\ p[w] < b}
           T == {b \in Nat : ~ Same(g, Up(b), u, v)}
<1>1. \A w \in Vertices : p[w] \in Nat /\ p[w] < N
    BY VerticesFinite DEF Vertices
<1>2. T = {}
    <2> SUFFICES ASSUME T # {} PROVE FALSE
        OBVIOUS
    <2>1. PICK b \in T : \A y \in T : b <= y
        BY Least
    <2>2. b # 0
        <3>1. Up(0) = {}
            BY <1>1
        <3>2. Same(g, {}, u, v)
            BY DEF Same, SownBy
        <3> QED
            BY <3>1, <3>2
    <2>3. b \in Nat /\ b - 1 \in Nat /\ b - 1 \notin T
        BY <2>1, <2>2
    <2>4. Same(g, Up(b - 1), u, v)
        BY <2>3
    <2>5. CASE b - 1 \notin J
        <3>1. Up(b) = Up(b - 1)
            BY <1>1, <2>3, <2>5
        <3> QED
            BY <2>1, <2>4, <3>1
    <2>6. CASE b - 1 \in J
        <3>1. Up(b) = Up(b - 1) \cup Cell(p, b - 1)
            BY <1>1, <2>3, <2>6 DEF Cell
        <3>2. Up(b - 1) \cap Cell(p, b - 1) = {}
            BY <2>3 DEF Cell
        <3>3. Up(b - 1) \subseteq Vertices /\ Cell(p, b - 1) \subseteq Vertices
            BY DEF Cell
        <3>4. Same(g, Cell(p, b - 1), u, v)
            BY <2>6
        <3>5. Same(g, Up(b), u, v)
            <4> HIDE DEF Up
            <4> QED
                BY <2>4, <3>1, <3>2, <3>3, <3>4, SameTogether
        <3> QED
            BY <2>1, <3>5
    <2> QED
        BY <2>5, <2>6
<1>3. {w \in Vertices : p[w] \in J} = Up(N)
    BY <1>1
<1> QED
    BY <1>2, <1>3, VerticesFinite

-----------------------------------------------------------------------------
(* Splitting a cell *)

\* Vertices of a cell into which the active cells and C sow the same: all cells do.
Accounted(g, p, A, C) ==
    \A u, v \in Vertices :
        /\ p[u] = p[v]
        /\ \A k \in A : Same(g, Cell(p, k), u, v)
        /\ Same(g, C, u, v)
        => \A k \in Nest!Indices(p) : Same(g, Cell(p, k), u, v)

\* The cell at k, and no other, is split at new indices.
IsSplit(p, q, k, new) ==
    /\ \A u \in Vertices : p[u] # k => q[u] = p[u]
    /\ \A u \in Vertices : p[u] = k => q[u] \in {k} \cup new
    /\ k \notin new /\ new \cap Nest!Indices(p) = {}

\* The indices of a partition are those of its vertices.
LEMMA IndicesIs == \A p : Nest!Indices(p) = {p[u] : u \in Vertices}
BY DEF Nest!Indices, Nest!Elements, Vertices

\* What the first part sows is what the cell did, less what the others do: it need not
\* become active, unless the cell was.
LEMMA SplitAccounts ==
    ASSUME NEW g, NEW p \in [Vertices -> Vertices], NEW q \in [Vertices -> Vertices],
           NEW k \in Nest!Indices(p), NEW new, NEW A, NEW C,
           IsSplit(p, q, k, new), Accounted(g, p, A, C)
    PROVE  Accounted(g, q, A \cup new, C)
<1> SUFFICES ASSUME NEW u \in Vertices, NEW v \in Vertices,
                    q[u] = q[v],
                    \A j \in A \cup new : Same(g, Cell(q, j), u, v),
                    Same(g, C, u, v),
                    NEW j \in Nest!Indices(q)
             PROVE  Same(g, Cell(q, j), u, v)
    BY DEF Accounted
<1>1. p[u] = p[v]
    <2>1. p[u] \in Nest!Indices(p) /\ p[v] \in Nest!Indices(p)
        BY IndicesIs
    <2> QED
        BY <2>1 DEF IsSplit
<1> DEFINE W == {w \in Vertices : q[w] \in new}
<1>2. ASSUME NEW i, i # k, i \notin new PROVE Cell(q, i) = Cell(p, i)
    BY <1>2 DEF Cell, IsSplit
<1>3. \A i \in Nest!Indices(p) : i \notin new
    BY DEF IsSplit
<1>4. Cell(p, k) = Cell(q, k) \cup W /\ Cell(q, k) \cap W = {}
    <2>1. \A w \in Vertices : p[w] = k <=> q[w] \in {k} \cup new
        <3>1. \A w \in Vertices : p[w] \notin new
            BY <1>3, IndicesIs
        <3> QED
            BY <3>1 DEF IsSplit
    <2>2. k \notin new
        BY DEF IsSplit
    <2> QED
        BY <2>1, <2>2 DEF Cell
<1>5. Same(g, W, u, v)
    BY SameOnUnion
<1>6. Cell(q, k) \subseteq Vertices /\ W \subseteq Vertices
    BY DEF Cell
<1>7. Same(g, Cell(q, k), u, v) <=> Same(g, Cell(p, k), u, v)
    <2> HIDE DEF W
    <2> QED
        BY <1>4, <1>5, <1>6, SameTogether
<1>8. \A i \in A : Same(g, Cell(p, i), u, v)
    <2> SUFFICES ASSUME NEW i \in A PROVE Same(g, Cell(p, i), u, v)
        OBVIOUS
    <2>1. Same(g, Cell(q, i), u, v)
        OBVIOUS
    <2>2. CASE i \in new
        <3>1. Cell(p, i) = {}
            BY <1>3, <2>2, IndicesIs DEF Cell
        <3> QED
            BY <3>1 DEF Same, SownBy
    <2>3. CASE i = k
        BY <1>7, <2>1, <2>3
    <2>4. CASE i # k /\ i \notin new
        BY <1>2, <2>1, <2>4
    <2> QED
        BY <2>2, <2>3, <2>4
<1>9. \A i \in Nest!Indices(p) : Same(g, Cell(p, i), u, v)
    BY <1>1, <1>8 DEF Accounted
<1>10. CASE j \in new
    BY <1>10
<1>11. CASE j = k
    BY <1>7, <1>9, <1>11
<1>12. CASE j # k /\ j \notin new
    <2>1. j \in Nest!Indices(p)
        BY <1>12, IndicesIs DEF IsSplit
    <2> QED
        BY <1>2, <1>9, <1>12, <2>1
<1> QED
    BY <1>10, <1>11, <1>12

-----------------------------------------------------------------------------
(* Sorting a cell *)

\* Sums that are not less than each other are equal.
LEMMA SumsCompare ==
    ASSUME NEW a \in [1 .. 3 -> Int], NEW b \in [1 .. 3 -> Int],
           ~ LessSum(a, b), ~ LessSum(b, a)
    PROVE  a = b
<1>1. a[1] = b[1]
    BY DEF LessSum
<1>2. a[2] = b[2]
    BY <1>1 DEF LessSum
<1>3. a[3] = b[3]
    BY <1>1, <1>2 DEF LessSum
<1>4. \A i \in 1 .. 3 : a[i] = b[i]
    BY <1>1, <1>2, <1>3
<1> QED
    BY <1>4

\* A list without repetitions that is as long as the cell has all of it.
LEMMA ListsAll ==
    ASSUME NEW P, IsFiniteSet(P), NEW C, IsFiniteSet(C), Cardinality(P) = Cardinality(C),
           NEW e \in [P -> C], \A i, j \in P : i # j => e[i] # e[j],
           NEW u \in C
    PROVE  \E i \in P : e[i] = u
<1> SUFFICES ASSUME \A i \in P : e[i] # u PROVE FALSE
    OBVIOUS
<1>1. e \in Injection(P, C \ {u})
    BY DEF Injection, IsInjective
<1>2. IsFiniteSet(C \ {u}) /\ Cardinality(C \ {u}) = Cardinality(C) - 1
    BY FS_RemoveElement
<1>3. Cardinality(P) <= Cardinality(C \ {u})
    BY <1>1, <1>2, FS_Injection
<1>4. Cardinality(C) \in Nat
    BY FS_CardinalityType
<1> QED
    BY <1>2, <1>3, <1>4

\* Where the block of a position begins, when blocks begin at k and at new positions.
Block(k, new, i) == Max({j \in {k} \cup new : j <= i})

\* A position lies in the last block that begins before or at it.
LEMMA BlockIs ==
    ASSUME NEW k \in Int, NEW new, new \subseteq Int, NEW i \in Int, k <= i,
           \A j \in new : k < j
    PROVE  /\ Block(k, new, i) \in {k} \cup new /\ Block(k, new, i) \in Int
           /\ k <= Block(k, new, i) /\ Block(k, new, i) <= i
           /\ \A j \in {k} \cup new : j <= i => j <= Block(k, new, i)
<1> DEFINE T == {j \in {k} \cup new : j <= i}
<1>1. T \subseteq Int /\ k \in T /\ \A j \in T : j <= i
    OBVIOUS
<1>2. \E x \in T : \A y \in T : y <= x
    <2> HIDE DEF T
    <2>1. T \in SUBSET Int /\ T # {}
        BY <1>1
    <2> QED
        BY <1>1, <2>1, Greatest
<1>3. Max(T) \in T /\ \A y \in T : y <= Max(T)
    <2> HIDE DEF T
    <2>1. \E x \in T : \A y \in T : x >= y
        BY <1>1, <1>2
    <2>2. Max(T) \in T /\ \A y \in T : Max(T) >= y
        BY <2>1 DEF Max
    <2> QED
        BY <1>1, <2>2
<1>4. Block(k, new, i) = Max(T)
    BY DEF Block
<1>5. k <= Max(T) /\ Max(T) <= i /\ Max(T) \in Int /\ Max(T) \in {k} \cup new
    <2>1. k <= Max(T) /\ Max(T) \in T
        BY <1>1, <1>3
    <2> QED
        BY <1>1, <2>1
<1>6. \A j \in {k} \cup new : j <= i => j <= Max(T)
    BY <1>3
<1> HIDE DEF T
<1> QED
    BY <1>4, <1>5, <1>6

\* The m positions from k.
Span(k, m) == k .. k + m - 1

\* A sorted list of the cell at k.
IsSortedBy(s, P, C, e) ==
    /\ e \in [P -> C]
    /\ \A i, j \in P : i # j => e[i] # e[j]
    /\ \A i, j \in P : i < j => ~ LessSum(s[e[j]], s[e[i]])

\* The positions at which a sum differs from the one before.
Changes(s, P, k, e) == {i \in P \ {k} : s[e[i]] # s[e[i - 1]]}

\* Every vertex of the cell is at one position.
PlaceOf(P, e, u) == CHOOSE i \in P : e[i] = u

\* The blocks are the classes of equal sums.
LEMMA BlocksAreSums ==
    ASSUME NEW k \in Int, NEW m \in Nat, NEW C, NEW s,
           NEW P, P = Span(k, m),
           NEW e, IsSortedBy(s, P, C, e), \A u \in C : s[u] \in [1 .. 3 -> Int],
           NEW i \in P, NEW j \in P
    PROVE  Block(k, Changes(s, P, k, e), i) = Block(k, Changes(s, P, k, e), j)
             <=> s[e[i]] = s[e[j]]
<1> DEFINE new == Changes(s, P, k, e)
           B(a) == Block(k, new, a)
<1> USE DEF Span
<1>1. P \subseteq Int /\ new \subseteq P /\ \A a \in new : k < a
    BY DEF Changes
<1>2. \A a \in P : /\ B(a) \in {k} \cup new /\ B(a) \in Int /\ k <= B(a) /\ B(a) <= a
                   /\ \A b \in {k} \cup new : b <= a => b <= B(a)
    <2> HIDE DEF new
    <2> SUFFICES ASSUME NEW a \in P
                 PROVE  /\ B(a) \in {k} \cup new /\ B(a) \in Int /\ k <= B(a) /\ B(a) <= a
                        /\ \A b \in {k} \cup new : b <= a => b <= B(a)
        OBVIOUS
    <2>1. a \in Int /\ k <= a
        OBVIOUS
    <2>2. new \subseteq Int /\ \A b \in new : k < b
        BY <1>1
    <2> QED
        BY <2>1, <2>2, BlockIs
<1>3. \A a \in P : s[e[a]] \in [1 .. 3 -> Int]
    BY DEF IsSortedBy
<1>4. \A a, b, c \in P : a <= b /\ b <= c /\ s[e[a]] = s[e[c]] => s[e[b]] = s[e[a]]
    <2> SUFFICES ASSUME NEW a \in P, NEW b \in P, NEW c \in P,
                        a <= b, b <= c, s[e[a]] = s[e[c]]
                 PROVE  s[e[b]] = s[e[a]]
        OBVIOUS
    <2>1. CASE a = b \/ b = c
        BY <2>1
    <2>2. CASE a # b /\ b # c
        <3>1. a < b /\ b < c
            BY <1>1, <2>2
        <3>2. ~ LessSum(s[e[b]], s[e[a]]) /\ ~ LessSum(s[e[c]], s[e[b]])
            BY <3>1 DEF IsSortedBy
        <3> QED
            BY <1>3, <3>2, SumsCompare
    <2> QED
        BY <2>1, <2>2
\* From where a block begins to any position of it the sums stay the same.
<1>5. \A a \in P : s[e[a]] = s[e[B(a)]]
    <2> SUFFICES ASSUME NEW a \in P PROVE s[e[a]] = s[e[B(a)]]
        OBVIOUS
    <2>1. PICK b : b = B(a)
        OBVIOUS
    <2>2. b \in Int /\ k <= b /\ b <= a /\ a \in Int /\ a <= k + m - 1
        BY <1>2, <2>1
    <2> DEFINE T == {d \in Nat : b + d <= a /\ s[e[b + d]] # s[e[b]]}
    <2>3. T = {}
        <3> SUFFICES ASSUME T # {} PROVE FALSE
            OBVIOUS
        <3>1. PICK d \in T : \A y \in T : d <= y
            BY Least
        <3>2. d \in Nat /\ b + d <= a /\ s[e[b + d]] # s[e[b]] /\ d # 0
            BY <2>2, <3>1
        <3>3. d - 1 \in Nat /\ d - 1 \notin T
            BY <3>1, <3>2
        <3>4. s[e[b + (d - 1)]] = s[e[b]]
            BY <2>2, <3>2, <3>3
        <3>5. PICK c : c = b + d
            OBVIOUS
        <3>6. c \in Int /\ c - 1 = b + (d - 1) /\ b < c /\ c <= a /\ c # k /\ c \in P
            BY <2>2, <3>2, <3>5
        <3>7. s[e[c]] # s[e[c - 1]]
            BY <3>2, <3>4, <3>5, <3>6
        <3>8. c \in new
            BY <3>6, <3>7 DEF Changes
        <3>9. c <= b
            BY <1>2, <2>1, <3>6, <3>8
        <3> QED
            BY <2>2, <3>6, <3>9
    <2>4. a - b \in Nat /\ b + (a - b) = a /\ b + (a - b) <= a
        BY <2>2
    <2>5. a - b \notin T
        BY <2>3
    <2>6. s[e[b + (a - b)]] = s[e[b]]
        BY <2>4, <2>5
    <2> QED
        BY <2>1, <2>4, <2>6
<1>6. ASSUME NEW a \in P, NEW b \in P, a <= b, s[e[a]] = s[e[b]] PROVE B(a) = B(b)
    <2>1. PICK x, y : x = B(a) /\ y = B(b)
        OBVIOUS
    <2>2. /\ x \in {k} \cup new /\ x \in Int /\ k <= x /\ x <= a
          /\ y \in {k} \cup new /\ y \in Int /\ k <= y /\ y <= b
          /\ a \in Int /\ b \in Int
        BY <1>1, <1>2, <2>1
    <2>3. y <= a
        <3> SUFFICES ASSUME a < y PROVE FALSE
            BY <2>2
        <3>1. y \in P /\ y - 1 \in P /\ y \in new /\ a <= y - 1
            BY <2>2
        <3>2. s[e[y]] = s[e[a]]
            BY <1>4, <1>6, <2>2, <3>1
        <3>3. y - 1 <= b
            BY <2>2
        <3>4. s[e[y - 1]] = s[e[a]]
            BY <1>4, <1>6, <3>1, <3>3
        <3> QED
            BY <3>1, <3>2, <3>4 DEF Changes
    <2>4. y <= x
        BY <1>2, <2>1, <2>2, <2>3
    <2>5. x <= y
        <3>1. x <= b
            BY <1>6, <2>2
        <3> QED
            BY <1>2, <2>1, <2>2, <3>1
    <2> QED
        BY <2>1, <2>2, <2>4, <2>5
<1>7. B(i) = B(j) => s[e[i]] = s[e[j]]
    <2>1. s[e[i]] = s[e[B(i)]] /\ s[e[j]] = s[e[B(j)]]
        BY <1>5
    <2> HIDE DEF B
    <2> QED
        BY <2>1
<1>8. s[e[i]] = s[e[j]] => B(i) = B(j)
    <2> HIDE DEF B
    <2>1. CASE i <= j
        BY <1>6, <2>1
    <2>2. CASE j <= i
        BY <1>6, <2>2
    <2> QED
        BY <2>1, <2>2
<1> QED
    BY <1>7, <1>8

\* The partition after the cell at k was sorted and cut at new positions.
Split(p, P, e, k, new) ==
    [u \in Vertices |-> IF p[u] # k THEN p[u] ELSE Block(k, new, PlaceOf(P, e, u))]

\* A vertex of an earlier cell of p is in an earlier cell of q.
KeepsOrder(p, q) == \A u, v \in Vertices : p[u] < p[v] => q[u] < q[v]

\* What holds of the cell C of m vertices that begins at index k.
IsCellOf(p, k, m, C) ==
    /\ p \in IndexedPartitions
    /\ C = Cell(p, k) /\ m = Cardinality(C) /\ m > 0 /\ k + m <= N
    /\ k = Cardinality({w \in Vertices : p[w] < k})
    /\ \A u \in Vertices : p[u] > k => p[u] >= k + m

\* Sorting a cell and cutting it where the sums change splits it into the classes of equal
\* sums, and indices stay numbers of vertices.
LEMMA SplitInto ==
    ASSUME NEW p \in [Vertices -> Vertices], NEW k \in Nat, NEW m \in Nat, NEW C,
           IsCellOf(p, k, m, C),
           NEW s, NEW P, P = Span(k, m), NEW e, IsSortedBy(s, P, C, e),
           \A u \in C : s[u] \in [1 .. 3 -> Int],
           NEW q, q = Split(p, P, e, k, Changes(s, P, k, e))
    PROVE  /\ IsSplit(p, q, k, Changes(s, P, k, e))
           /\ q \in IndexedPartitions /\ KeepsOrder(p, q)
           /\ \A u, v \in C : q[u] = q[v] <=> s[u] = s[v]
<1> DEFINE new == Changes(s, P, k, e)
           at(u) == PlaceOf(P, e, u)
           B(a) == Block(k, new, a)
<1> HIDE DEF new, at, B
<1>1. C \subseteq Vertices /\ m = Cardinality(C) /\ C = Cell(p, k)
    BY DEF IsCellOf, Cell
<1>c. k = Cardinality({w \in Vertices : p[w] < k})
    BY DEF IsCellOf
<1>r. \A u \in Vertices : p[u] > k => p[u] >= k + m
    BY DEF IsCellOf
<1>2. /\ k \in Nat /\ k \in Int /\ m > 0 /\ m \in Int
      /\ \A u \in Vertices : p[u] \in Nat /\ p[u] \in Int
    <2>1. m > 0
        BY DEF IsCellOf
    <2>2. Vertices \subseteq Nat
        BY DEF Vertices
    <2>3. \A u \in Vertices : p[u] \in Vertices
        OBVIOUS
    <2>4. \A u \in Vertices : p[u] \in Nat /\ p[u] \in Int
        <3> SUFFICES ASSUME NEW u \in Vertices PROVE p[u] \in Nat /\ p[u] \in Int
            OBVIOUS
        <3>1. PICK x : x = p[u]
            OBVIOUS
        <3>2. x \in Nat
            BY <2>2, <2>3, <3>1
        <3> QED
            BY <3>1, <3>2
    <2> QED
        BY <2>1, <2>4
<1>n. k + m <= N /\ N \in Nat
    BY VerticesFinite DEF IsCellOf
<1>3. P = k .. k + m - 1
    BY DEF Span
<1>p. P \subseteq Vertices
    BY <1>2, <1>3, <1>n DEF Vertices
<1>4. IsFiniteSet(P) /\ Cardinality(P) = m /\ IsFiniteSet(C)
    <2>1. k \in Int /\ k + m - 1 \in Int
        BY <1>2
    <2>2. Cardinality(k .. k + m - 1) = IF k > k + m - 1 THEN 0 ELSE k + m - 1 - k + 1
        BY <2>1, FS_Interval
    <2>3. IsFiniteSet(k .. k + m - 1)
        BY <2>1, FS_Interval
    <2> QED
        BY <1>1, <1>2, <1>3, <2>2, <2>3, SetsOfVertices
<1>5. IsSortedBy(s, P, C, e) /\ e \in [P -> C]
    BY DEF IsSortedBy
<1>6. \A u \in C : at(u) \in P /\ e[at(u)] = u
    <2> SUFFICES ASSUME NEW u \in C PROVE at(u) \in P /\ e[at(u)] = u
        OBVIOUS
    <2>1. \E i \in P : e[i] = u
        <3>1. \A i, j \in P : i # j => e[i] # e[j]
            BY <1>5 DEF IsSortedBy
        <3> QED
            BY <1>1, <1>4, <1>5, <3>1, ListsAll
    <2> QED
        BY <2>1 DEF at, PlaceOf
<1>7. \A i \in P : at(e[i]) = i
    BY <1>5, <1>6 DEF IsSortedBy
<1>8. /\ new \subseteq P /\ k \in P /\ k \notin new
      /\ \A j \in new : j \in Int /\ k < j /\ j < k + m
    <2> QED
        BY <1>2, <1>3 DEF new, Changes
<1>9. ASSUME NEW a \in P
      PROVE  /\ B(a) \in {k} \cup new /\ B(a) \in P /\ B(a) \in Int /\ k <= B(a) /\ B(a) <= a
             /\ a \in Int /\ a < k + m
             /\ \A b \in {k} \cup new : b <= a => b <= B(a)
    <2>1. a \in Int /\ k <= a /\ k \in Int /\ a < k + m
        BY <1>2, <1>3
    <2>2. new \subseteq Int /\ \A b \in new : k < b
        BY <1>8
    <2>3. /\ B(a) \in {k} \cup new /\ B(a) \in Int /\ k <= B(a) /\ B(a) <= a
          /\ \A b \in {k} \cup new : b <= a => b <= B(a)
        BY <2>1, <2>2, BlockIs DEF B
    <2> QED
        BY <1>8, <2>1, <2>3
<1>10. /\ \A u \in Vertices : p[u] # k => q[u] = p[u]
       /\ \A u \in C : p[u] = k /\ q[u] = B(at(u)) /\ q[u] \in P
       /\ \A u \in Vertices : p[u] = k => u \in C
    <2>1. \A u \in C : p[u] = k /\ u \in Vertices
        BY <1>1 DEF Cell
    <2>2. \A u \in Vertices : p[u] = k => u \in C
        BY <1>1 DEF Cell
    <2>3. \A u \in Vertices : q[u] = IF p[u] # k THEN p[u] ELSE B(at(u))
        BY DEF Split, B, at, new
    <2> QED
        BY <1>6, <1>9, <2>1, <2>2, <2>3
<1>11. IsSplit(p, q, k, new)
    <2>1. \A u \in Vertices : p[u] = k => q[u] \in {k} \cup new
        BY <1>6, <1>9, <1>10
    <2>2. new \cap Nest!Indices(p) = {}
        <3> SUFFICES ASSUME NEW u \in Vertices, p[u] \in new PROVE FALSE
            BY IndicesIs
        <3>1. p[u] > k /\ p[u] < k + m
            BY <1>2, <1>8
        <3>2. p[u] >= k + m
            BY <1>r, <3>1
        <3> QED
            BY <1>2, <3>1, <3>2
    <2> QED
        BY <1>8, <1>10, <2>1, <2>2 DEF IsSplit
<1>12. \A u, v \in C : q[u] = q[v] <=> s[u] = s[v]
    <2> SUFFICES ASSUME NEW u \in C, NEW v \in C PROVE q[u] = q[v] <=> s[u] = s[v]
        OBVIOUS
    <2>1. PICK i \in P, j \in P : i = at(u) /\ j = at(v) /\ e[i] = u /\ e[j] = v
        BY <1>6
    <2>2. B(i) = B(j) <=> s[e[i]] = s[e[j]]
        <3>1. \A w \in C : s[w] \in [1 .. 3 -> Int]
            OBVIOUS
        <3>2. k \in Int /\ m \in Nat
            BY <1>2
        <3> QED
            BY <3>1, <3>2, BlocksAreSums DEF B, new
    <2> QED
        BY <1>10, <2>1, <2>2
<1>13. q \in [Vertices -> Vertices]
    <2>1. \A u \in Vertices : q[u] \in Vertices
        BY <1>1, <1>p, <1>10
    <2> QED
        BY <2>1 DEF Split
<1>14. \A u \in Vertices : q[u] \in Int
    <2>1. Vertices \subseteq Int
        BY DEF Vertices
    <2> QED
        BY <1>13, <2>1
<1>15. KeepsOrder(p, q)
    <2> SUFFICES ASSUME NEW u \in Vertices, NEW v \in Vertices, p[u] < p[v] PROVE q[u] < q[v]
        BY DEF KeepsOrder
    <2>1. \A w \in C : k <= q[w] /\ q[w] < k + m /\ q[w] \in Int
        <3> SUFFICES ASSUME NEW w \in C PROVE k <= q[w] /\ q[w] < k + m /\ q[w] \in Int
            OBVIOUS
        <3>1. q[w] \in P
            BY <1>10
        <3> QED
            BY <1>2, <1>3, <3>1
    <2>2. CASE u \notin C /\ v \notin C
        BY <1>10, <2>2
    <2>3. CASE u \in C /\ v \notin C
        <3>1. p[u] = k /\ q[v] = p[v] /\ q[u] < k + m /\ q[u] \in Int
            BY <1>10, <2>1, <2>3
        <3>2. p[v] >= k + m /\ p[v] \in Int
            BY <1>2, <1>r, <3>1
        <3> QED
            BY <1>2, <3>1, <3>2
    <2>4. CASE u \notin C /\ v \in C
        <3>1. p[v] = k /\ q[u] = p[u] /\ k <= q[v] /\ q[v] \in Int
            BY <1>10, <2>1, <2>4
        <3> QED
            BY <1>2, <3>1
    <2>5. CASE u \in C /\ v \in C
        BY <1>2, <1>10, <2>5
    <2> QED
        BY <2>2, <2>3, <2>4, <2>5
<1>16. ASSUME NEW u \in Vertices
       PROVE  q[u] = Cardinality({v \in Vertices : q[v] < q[u]})
    <2>1. CASE u \notin C
        <3>1. q[u] = p[u] /\ p[u] # k
            BY <1>10, <2>1
        <3>2. ASSUME NEW v \in Vertices PROVE q[v] < q[u] <=> p[v] < p[u]
            <4>1. CASE v \notin C
                BY <1>10, <3>1, <4>1
            <4>2. CASE v \in C
                <5>1. p[v] = k
                    BY <1>10, <4>2
                <5>2. p[v] < p[u] => q[v] < q[u]
                    BY <1>15 DEF KeepsOrder
                <5>3. p[u] < p[v] => q[u] < q[v]
                    BY <1>15 DEF KeepsOrder
                <5>4. p[u] \in Int /\ p[v] \in Int /\ q[u] \in Int /\ q[v] \in Int
                    BY <1>2, <1>14
                <5> QED
                    BY <3>1, <5>1, <5>2, <5>3, <5>4
            <4> QED
                BY <4>1, <4>2
        <3>3. {v \in Vertices : q[v] < q[u]} = {v \in Vertices : p[v] < p[u]}
            BY <3>2
        <3>4. p[u] = Cardinality({v \in Vertices : p[v] < p[u]})
            BY DEF IndexedPartitions, IsCellOf
        <3> QED
            BY <3>1, <3>3, <3>4
    <2>2. CASE u \in C
        <3> DEFINE b == q[u]
                   L == {w \in Vertices : p[w] < k}
                   D == {e[i] : i \in k .. b - 1}
        <3>1. b \in {k} \cup new /\ b \in Int /\ k <= b /\ b < k + m /\ p[u] = k
            <4>1. at(u) \in P /\ b = B(at(u)) /\ p[u] = k
                BY <1>6, <1>10, <2>2
            <4>2. /\ B(at(u)) \in {k} \cup new /\ B(at(u)) \in Int /\ k <= B(at(u))
                  /\ B(at(u)) <= at(u) /\ at(u) \in Int /\ at(u) < k + m
                BY <4>1, <1>9
            <4>3. PICK x, y : x = B(at(u)) /\ y = at(u)
                OBVIOUS
            <4> HIDE DEF b
            <4>4. x < k + m
                BY <1>2, <4>2, <4>3
            <4> QED
                BY <4>1, <4>2, <4>3, <4>4
        <3> HIDE DEF b
        <3>2. k .. b - 1 \subseteq P
            <4> QED
                BY <1>2, <1>3, <3>1
        <3>3. ASSUME NEW i \in P PROVE q[e[i]] < b <=> i < b
            <4>1. e[i] \in C /\ at(e[i]) = i
                BY <1>5, <1>7
            <4>2. q[e[i]] = B(i)
                BY <1>10, <4>1
            <4>3. B(i) \in Int /\ B(i) <= i /\ i \in Int /\ (b <= i => b <= B(i))
                BY <1>9, <3>1
            <4>4. PICK x : x = B(i)
                OBVIOUS
            <4> QED
                BY <3>1, <4>2, <4>3, <4>4
        <3>4. {v \in Vertices : q[v] < b} = L \cup D
            <4>1. ASSUME NEW v \in Vertices PROVE q[v] < b <=> v \in L \cup D
                <5>1. CASE v \in C
                    <6>1. at(v) \in P /\ e[at(v)] = v
                        BY <1>6, <5>1
                    <6>2. q[v] < b <=> at(v) < b
                        BY <3>3, <6>1
                    <6>3. v \notin L
                        <7>1. p[v] = k
                            BY <1>10, <5>1
                        <7> QED
                            BY <1>2, <7>1
                    <6>4. at(v) < b <=> v \in D
                        <7>1. ASSUME at(v) < b PROVE v \in D
                            <8>1. at(v) \in k .. b - 1
                                <9>1. PICK x : x = at(v)
                                    OBVIOUS
                                <9> QED
                                    BY <1>2, <1>3, <3>1, <6>1, <7>1, <9>1
                            <8> QED
                                BY <6>1, <8>1
                        <7>2. ASSUME v \in D PROVE at(v) < b
                            <8>1. PICK i \in k .. b - 1 : v = e[i]
                                BY <7>2
                            <8>2. i \in P /\ at(v) = i
                                BY <1>7, <3>2, <8>1
                            <8> QED
                                BY <1>2, <3>1, <8>1, <8>2
                        <7> QED
                            BY <7>1, <7>2
                    <6> QED
                        BY <6>2, <6>3, <6>4
                <5>2. CASE v \notin C
                    <6>1. q[v] = p[v] /\ p[v] # k
                        BY <1>10, <5>2
                    <6>2. v \notin D
                        BY <1>5, <3>2, <5>2
                    <6>3. p[v] > k => p[v] >= k + m
                        BY <1>r
                    <6>4. p[v] < b <=> p[v] < k
                        <7> QED
                            BY <1>2, <3>1, <6>1, <6>3
                    <6> QED
                        BY <6>1, <6>2, <6>4
                <5> QED
                    BY <5>1, <5>2
            <4>2. L \cup D \subseteq Vertices
                BY <1>1, <1>5, <3>2
            <4> HIDE DEF L, D
            <4> QED
                BY <4>1, <4>2
        <3>5. L \subseteq Vertices /\ D \subseteq Vertices
            BY <1>1, <1>5, <3>2
        <3>6. L \cap D = {}
            <4> SUFFICES ASSUME NEW v \in L, v \in D PROVE FALSE
                OBVIOUS
            <4>1. v \in C
                BY <1>5, <3>2
            <4>2. p[v] = k /\ p[v] < k
                BY <1>10, <4>1
            <4>3. k < k
                BY <4>2
            <4> QED
                BY <1>2, <4>3
        <3>7. Cardinality(D) = b - k /\ IsFiniteSet(D)
            <4> DEFINE I == k .. b - 1
                       f == [i \in I |-> e[i]]
            <4>1. f \in Bijection(I, D)
                <5>1. \A i, j \in I : i # j => e[i] # e[j]
                    BY <1>5, <3>2 DEF IsSortedBy
                <5> QED
                    BY <5>1 DEF Bijection, Injection, Surjection, IsInjective
            <4>2. ExistsBijection(I, D)
                BY <4>1 DEF ExistsBijection
            <4>3. IsFiniteSet(I) /\ Cardinality(I) = IF k > b - 1 THEN 0 ELSE b - 1 - k + 1
                <5>1. k \in Int /\ b - 1 \in Int
                    BY <1>2, <3>1
                <5> QED
                    BY <5>1, FS_Interval
            <4>4. Cardinality(D) = Cardinality(I) /\ IsFiniteSet(D)
                <5> HIDE DEF I, D
                <5> QED
                    BY <4>2, <4>3, FS_Bijection
            <4> HIDE DEF I, D
            <4> QED
                BY <1>2, <3>1, <4>3, <4>4
        <3>8. Cardinality(L \cup D) = k + (b - k)
            <4>1. IsFiniteSet(L) /\ Cardinality(L) = k
                BY <1>c, <3>5, SetsOfVertices
            <4>2. Cardinality(L \cup D) = Cardinality(L) + Cardinality(D) - Cardinality(L \cap D)
                <5> HIDE DEF L, D
                <5> QED
                    BY <3>7, <4>1, FS_Union
            <4>3. Cardinality(L \cap D) = 0
                BY <3>6, FS_EmptySet
            <4> HIDE DEF L, D
            <4> QED
                BY <1>2, <3>1, <3>7, <4>1, <4>2, <4>3
        <3> HIDE DEF L, D
        <3> QED
            <4>1. k + (b - k) = b
                BY <1>2, <3>1
            <4>2. Cardinality({v \in Vertices : q[v] < b}) = b
                BY <3>4, <3>8, <4>1
            <4> QED
                BY <4>2 DEF b
    <2> QED
        BY <2>1, <2>2
<1>17. q \in IndexedPartitions
    BY <1>13, <1>16 DEF IndexedPartitions
<1> QED
    BY <1>11, <1>12, <1>15, <1>17 DEF new

\* SplitInto, for the cell at an index of a partition.
LEMMA SortAndSplit ==
    ASSUME NEW p \in IndexedPartitions, NEW k \in Nest!Indices(p), NEW s, NEW e, NEW P,
           P = k .. k + Cardinality(Cell(p, k)) - 1,
           IsSortedBy(s, P, Cell(p, k), e),
           \A u \in Cell(p, k) : s[u] \in [1 .. 3 -> Int],
           NEW q, q = Split(p, P, e, k, Changes(s, P, k, e))
    PROVE  /\ IsSplit(p, q, k, Changes(s, P, k, e))
           /\ q \in IndexedPartitions /\ KeepsOrder(p, q)
           /\ \A u, v \in Cell(p, k) : q[u] = q[v] <=> s[u] = s[v]
<1>1. PICK m, C : C = Cell(p, k) /\ m = Cardinality(C)
    OBVIOUS
<1>2. p \in [Vertices -> Vertices] /\ m \in Nat /\ m > 0 /\ k + m <= N /\ k \in Vertices
    BY <1>1, CellsFit
<1>3. k \in Nat
    BY <1>2 DEF Vertices
<1>4. IsCellOf(p, k, m, C)
    <2>1. /\ k = Cardinality({w \in Vertices : p[w] < k})
          /\ \A u \in Vertices : p[u] > k => p[u] >= k + m
        BY <1>1, CellsFit
    <2> QED
        BY <1>1, <1>2, <2>1 DEF IsCellOf
<1>5. P = Span(k, m)
    BY <1>1 DEF Span
<1> QED
    BY <1>1, <1>2, <1>3, <1>4, <1>5, SplitInto

-----------------------------------------------------------------------------
(* What the trace says of a split cell *)

\* The outcomes of module NisheRefiner, one entry of the trace at a time.
FirstOutcome(k, e) == trace_attr_sum(Outcome(trace, cmp), attr_sum_count, <<k, attr_sums[e[k]]>>)

NextOutcome(k, e, i, o) ==
    trace_attr_sum(o, attr_sum_count + i - 1,
                   <<NewIndices(k, e)[i], attr_sums[e[NewIndices(k, e)[i]]]>>)

OutcomesUpTo(f, k, e, n) ==
    f = [i \in 0 .. n |-> IF i = 0 THEN FirstOutcome(k, e) ELSE NextOutcome(k, e, i, f[i - 1])]

\* By the least n for which there would be no such function.
LEMMA OutcomesExist ==
    ASSUME NEW k, NEW e, NEW n \in Nat
    PROVE  \E f : OutcomesUpTo(f, k, e, n)
<1> DEFINE T == {m \in Nat : ~ \E f : OutcomesUpTo(f, k, e, m)}
           a == FirstOutcome(k, e)
           S(i, o) == NextOutcome(k, e, i, o)
<1> SUFFICES ASSUME T # {} PROVE FALSE
    OBVIOUS
<1>1. PICK m \in T : \A y \in T : m <= y
    BY Least
<1>2. \A f, d : OutcomesUpTo(f, k, e, d)
                  <=> f = [i \in 0 .. d |-> IF i = 0 THEN a ELSE S(i, f[i - 1])]
    BY DEF OutcomesUpTo
<1> HIDE DEF a, S
<1>3. CASE m = 0
    <2> DEFINE f == [i \in 0 .. 0 |-> a]
    <2>1. f = [i \in 0 .. m |-> IF i = 0 THEN a ELSE S(i, f[i - 1])]
        BY <1>3
    <2> QED
        BY <2>1, <1>1, <1>2
<1>4. CASE m # 0
    <2>1. m - 1 \in Nat /\ m - 1 \notin T
        BY <1>4, <1>1
    <2>2. PICK f : f = [i \in 0 .. m - 1 |-> IF i = 0 THEN a ELSE S(i, f[i - 1])]
        BY <2>1, <1>2
    <2> DEFINE h == [i \in 0 .. m |-> IF i = m THEN S(m, f[m - 1]) ELSE f[i]]
    <2>3. \A i \in 0 .. m : h[i] = IF i = 0 THEN a ELSE S(i, h[i - 1])
        <3> TAKE i \in 0 .. m
        <3>1. CASE i = m
            BY <3>1, <1>4, <1>1
        <3>2. CASE i # m
            <4>1. i \in 0 .. m - 1
                BY <3>2, <1>1
            <4>2. f[i] = IF i = 0 THEN a ELSE S(i, f[i - 1])
                BY <4>1, <2>2
            <4> QED
                BY <4>1, <4>2
        <3> QED
            BY <3>1, <3>2
    <2>4. h = [i \in 0 .. m |-> IF i = 0 THEN a ELSE S(i, h[i - 1])]
        BY <2>3
    <2> QED
        BY <2>4, <1>1, <1>2
<1> QED
    BY <1>3, <1>4

\* Outcomes is the function that OutcomesExist gives.
LEMMA OutcomesAre ==
    ASSUME NEW k, NEW e, NEW n \in Nat, n = Len(NewIndices(k, e))
    PROVE  OutcomesUpTo(Outcomes(k, e), k, e, n)
<1> DEFINE f == CHOOSE f : OutcomesUpTo(f, k, e, n)
<1>1. OutcomesUpTo(f, k, e, n)
    BY OutcomesExist
<1>2. Outcomes(k, e) = f
    BY DEF Outcomes, OutcomesUpTo, FirstOutcome, NextOutcome
<1> QED
    BY <1>1, <1>2

\* A new trace is recorded to the end.
LEMMA Records ==
    ASSUME NEW o, o.cmp = -1, NEW i, NEW entry
    PROVE  trace_attr_sum(o, i, entry).cmp = -1
BY DEF trace_attr_sum, Outcome

\* Records, for all entries of a split cell.
LEMMA RecordsAll ==
    ASSUME NEW k, NEW e, NEW n \in Nat, NEW f, OutcomesUpTo(f, k, e, n), cmp = -1,
           NEW i \in 0 .. n
    PROVE  f[i].cmp = -1
<1> DEFINE T == {j \in Nat : j <= n /\ f[j].cmp # -1}
<1>1. T = {}
    <2> SUFFICES ASSUME T # {} PROVE FALSE
        OBVIOUS
    <2>1. PICK j \in T : \A y \in T : j <= y
        BY Least
    <2>2. j \in 0 .. n /\ f[j].cmp # -1
        BY <2>1
    <2>3. f[j] = IF j = 0 THEN FirstOutcome(k, e) ELSE NextOutcome(k, e, j, f[j - 1])
        BY <2>2 DEF OutcomesUpTo
    <2>4. CASE j = 0
        <3>1. Outcome(trace, cmp).cmp = -1
            BY DEF Outcome
        <3>2. FirstOutcome(k, e).cmp = -1
            BY <3>1, Records DEF FirstOutcome
        <3> QED
            BY <2>2, <2>3, <2>4, <3>2
    <2>5. CASE j # 0
        <3>1. j - 1 \in Nat /\ j - 1 \notin T /\ j - 1 <= n
            BY <2>1, <2>5
        <3>2. f[j - 1].cmp = -1
            BY <3>1
        <3>3. NextOutcome(k, e, j, f[j - 1]).cmp = -1
            BY <3>2, Records DEF NextOutcome
        <3> QED
            BY <2>2, <2>3, <2>5, <3>3
    <2> QED
        BY <2>4, <2>5
<1> QED
    BY <1>1

\* The loop ends early only when a comparison fails.
LEMMA ReachedIs ==
    ASSUME NEW k, NEW e, NEW n \in Nat, n = Len(NewIndices(k, e)),
           NEW r, r = Reached(k, e)
    PROVE  /\ r \in 0 .. n
           /\ Outcomes(k, e)[r].cmp \notin {1, 2} => r = n
           /\ cmp = -1 => Outcomes(k, e)[r].cmp = -1
<1> DEFINE f == Outcomes(k, e)
           stops == {i \in DOMAIN f : f[i].cmp \in {1, 2}}
<1>1. OutcomesUpTo(f, k, e, n)
    BY OutcomesAre
<1>2. DOMAIN f = 0 .. n
    BY <1>1 DEF OutcomesUpTo
<1>3. Reached(k, e) = IF stops = {} THEN n ELSE Min(stops)
    BY DEF Reached
<1>4. stops # {} => Min(stops) \in stops
    <2> SUFFICES ASSUME stops # {} PROVE Min(stops) \in stops
        OBVIOUS
    <2>1. stops \in SUBSET Nat
        BY <1>2
    <2> HIDE DEF stops
    <2>2. \E x \in stops : \A y \in stops : x <= y
        BY <2>1, Least
    <2> QED
        BY <2>2 DEF Min
<1>5. r \in 0 .. n /\ (f[r].cmp \notin {1, 2} => r = n)
    <2>1. CASE stops = {}
        BY <1>3, <2>1
    <2>2. CASE stops # {}
        <3>1. r \in stops
            BY <1>3, <1>4, <2>2
        <3> QED
            BY <1>2, <3>1
    <2> QED
        BY <2>1, <2>2
<1>6. cmp = -1 => f[r].cmp = -1
    <2> HIDE DEF f
    <2> QED
        BY <1>1, <1>5, RecordsAll
<1> QED
    BY <1>5, <1>6

-----------------------------------------------------------------------------
(* The invariant of a refinement *)

\* Equitable, in terms of vertices with the same index.
LEMMA EquitableIs ==
    ASSUME NEW g, NEW p
    PROVE  Equitable(g, p) <=> \A u, v \in Vertices : p[u] = p[v] =>
               \A j \in Nest!Indices(p) : Same(g, Cell(p, j), u, v)
<1>1. ASSUME Equitable(g, p), NEW u \in Vertices, NEW v \in Vertices, p[u] = p[v],
             NEW j \in Nest!Indices(p)
      PROVE  Same(g, Cell(p, j), u, v)
    <2>1. Cell(p, j) \in Cells(p) /\ Cell(p, p[u]) \in Cells(p)
        BY IndicesIs DEF Cells
    <2>2. u \in Cell(p, p[u]) /\ v \in Cell(p, p[u])
        BY <1>1 DEF Cell
    <2> QED
        BY <1>1, <2>1, <2>2 DEF Equitable, Same
<1>2. ASSUME \A u, v \in Vertices : p[u] = p[v] =>
                 \A j \in Nest!Indices(p) : Same(g, Cell(p, j), u, v),
             NEW D \in Cells(p), NEW C \in Cells(p), NEW u \in C, NEW v \in C
      PROVE  SownBy(g, D, u) = SownBy(g, D, v)
    <2>1. PICK j \in Nest!Indices(p) : D = Cell(p, j)
        BY DEF Cells
    <2>2. u \in Vertices /\ v \in Vertices /\ p[u] = p[v]
        BY DEF Cells, Cell
    <2> QED
        BY <1>2, <2>1, <2>2 DEF Same
<1> QED
    BY <1>1, <1>2 DEF Equitable

\* The equitable partitions that refine the one the call was given.
EquitableFiner == {q \in IndexedPartitions : Equitable(graph, q) /\ Refines(q, start)}

\* C has all vertices of a cell of q or none.
UnionOf(q, C) == \A w, x \in Vertices : q[w] = q[x] /\ w \in C => x \in C

\* The partition stays one by indices and keeps the order of the one given.
RefinerShape ==
    /\ graph \in SUBSET (Vertices \X Vertices)
    /\ start \in IndexedPartitions /\ index_containing \in IndexedPartitions
    /\ KeepsOrder(start, index_containing)
    /\ active_indices \in Seq(Vertices)
    /\ adjacent \subseteq Nest!Indices(index_containing)

\* No cell was split without need.
CoarseSoFar == \A q \in EquitableFiner : Refines(q, index_containing)

\* A new trace is recorded to the end.
Recording ==
    NewTrace /\ pc \in {"active", "split", "done"} =>
        cmp = -1 /\ (pc = "done" => active_indices = <<>>)

\* While cells are split by C: cells that were split, and those that are not next to C, have
\* equal sums, and the others' sums are in attr_sums.
SownWith(C) ==
    /\ C \subseteq Vertices
    /\ Accounted(graph, index_containing, Range(active_indices), C)
    /\ \A v \in DOMAIN attr_sums :
           index_containing[v] \in adjacent => attr_sums[v] = SownBy(graph, C, v)
    /\ \A u, v \in Vertices :
           index_containing[u] = index_containing[v] /\ index_containing[u] \notin adjacent
             => Same(graph, C, u, v)
    /\ \A q \in EquitableFiner : UnionOf(q, C)

\* What is left to do while a cell is active, and between two active cells.
Progress ==
    /\ pc = "split" => \E C : SownWith(C)
    /\ pc = "active" \/ (pc = "done" /\ NewTrace) =>
           Accounted(graph, index_containing, Range(active_indices), {})

\* The inductive invariant.
RefineInv == SumsOfAdjacent /\ RefinerShape /\ CoarseSoFar /\ Recording /\ Progress

-----------------------------------------------------------------------------
\* Vertices that an equitable partition does not distinguish get the same from its cells.
LEMMA UnionSowsSame ==
    ASSUME NEW g, NEW q \in IndexedPartitions, Equitable(g, q), NEW C, C \subseteq Vertices,
           UnionOf(q, C), NEW u \in Vertices, NEW v \in Vertices, q[u] = q[v]
    PROVE  Same(g, C, u, v)
<1> DEFINE J == {q[w] : w \in C}
<1>1. \A j \in J : Same(g, Cell(q, j), u, v)
    <2>1. \A j \in J : j \in Nest!Indices(q)
        BY IndicesIs
    <2> QED
        BY <2>1, EquitableIs
<1>2. {w \in Vertices : q[w] \in J} = C
    BY DEF UnionOf
<1>3. q \in [Vertices -> Vertices]
    BY DEF IndexedPartitions
<1>4. Same(g, {w \in Vertices : q[w] \in J}, u, v)
    <2> HIDE DEF J
    <2> QED
        BY <1>1, <1>3, SameOnUnion
<1> QED
    BY <1>2, <1>4

\* The least index.
LEMMA FirstAdjacent ==
    ASSUME RefinerShape, adjacent # {}
    PROVE  Min(adjacent) \in adjacent /\ Min(adjacent) \in Nest!Indices(index_containing)
<1>1. adjacent \in SUBSET Nat
    <2>1. Nest!Indices(index_containing) = {index_containing[u] : u \in Vertices}
        BY IndicesIs
    <2>2. index_containing \in [Vertices -> Vertices] /\ Vertices \subseteq Nat
        BY DEF RefinerShape, IndexedPartitions, Vertices
    <2>3. adjacent \subseteq Nest!Indices(index_containing)
        BY DEF RefinerShape
    <2> QED
        BY <2>1, <2>2, <2>3
<1>2. \E x \in adjacent : \A y \in adjacent : x <= y
    BY <1>1, Least
<1> QED
    BY <1>2 DEF Min, RefinerShape

\* The cell at k is sorted as e says, and its new indices are enqueued up to one that fails.
SplitAs(k, e) ==
    LET n == Reached(k, e)
        new == SubSeq(NewIndices(k, e), 1, n)
        o == Outcomes(k, e)[n]
    IN  /\ active_indices' = active_indices \o new
        /\ IF o.cmp \in {1, 2}
           THEN pending' = Range(new) /\ UNCHANGED index_containing
           ELSE /\ index_containing' = [u \in Vertices |->
                       IF index_containing[u] # k THEN index_containing[u]
                       ELSE LET i == CHOOSE i \in PositionsOf(k) : e[i] = u
                            IN  Max({j \in {k} \cup Range(new) : j <= i})]
                /\ UNCHANGED pending
        /\ AfterAdjacent(k, o)

\* sort_and_split_index sorts and splits the first of the adjacent cells.
LEMMA SplitsAs ==
    ASSUME sort_and_split_index
    PROVE  adjacent # {} /\ \E e \in SortedCell(Min(adjacent)) : SplitAs(Min(adjacent), e)
BY DEF sort_and_split_index, SplitAs

\* SplitAs, with its parts named.
LEMMA SplitAsIs ==
    ASSUME NEW k, NEW e, SplitAs(k, e), NEW s, s = NewIndices(k, e), NEW r, r = Reached(k, e),
           NEW o, o = Outcomes(k, e)[r], NEW P, P = PositionsOf(k)
    PROVE  /\ active_indices' = active_indices \o SubSeq(s, 1, r)
           /\ o.cmp \in {1, 2} => UNCHANGED index_containing
           /\ o.cmp \notin {1, 2} => index_containing' =
                  Split(index_containing, P, e, k, Range(SubSeq(s, 1, r)))
           /\ AfterAdjacent(k, o)
<1>1. active_indices' = active_indices \o SubSeq(s, 1, r)
    BY DEF SplitAs
<1>2. o.cmp \in {1, 2} => UNCHANGED index_containing
    BY DEF SplitAs
<1>3. o.cmp \notin {1, 2} => index_containing' =
          Split(index_containing, P, e, k, Range(SubSeq(s, 1, r)))
    BY DEF SplitAs, Split, Block, PlaceOf
<1>4. AfterAdjacent(k, o)
    BY DEF SplitAs
<1> QED
    BY <1>1, <1>2, <1>3, <1>4

\* What the new indices are.
LEMMA NewIndicesAre ==
    ASSUME NEW k \in Nest!Indices(index_containing), index_containing \in IndexedPartitions,
           NEW e, NEW P, P = PositionsOf(k), NEW K, K = Changes(attr_sums, P, k, e),
           NEW s, s = NewIndices(k, e)
    PROVE  /\ P = k .. k + Cardinality(Cell(index_containing, k)) - 1
           /\ s \in Seq(Vertices) /\ Len(s) \in Nat /\ Range(s) = K
<1>1. P = k .. k + Cardinality(Cell(index_containing, k)) - 1
    BY DEF PositionsOf, CellSize
<1>2. PICK m : m = Cardinality(Cell(index_containing, k))
    OBVIOUS
<1>3. k \in Vertices /\ m \in Nat /\ k + m <= N
    BY <1>2, CellsFit
<1>4. P \subseteq Vertices
    BY <1>1, <1>2, <1>3, VerticesFinite DEF Vertices
<1>5. K \subseteq Vertices
    BY <1>4 DEF Changes
<1>6. K \subseteq Nat /\ IsFiniteSet(K)
    BY <1>5, SetsOfVertices DEF Vertices
<1>7. s = Ascending(K)
    BY DEF NewIndices, Changes
<1>8. s \in Seq(K) /\ Range(s) = K
    BY <1>6, <1>7, AscendingIs
<1>9. \A S, T : S \subseteq T => Seq(S) \subseteq Seq(T)
    OBVIOUS
<1>10. s \in Seq(Vertices)
    BY <1>5, <1>8, <1>9
<1>11. Len(s) \in Nat
    BY <1>10
<1> QED
    BY <1>1, <1>8, <1>10, <1>11

\* What sort_and_split_index does, unless a comparison fails.
SplitGives(k, o, new) ==
    /\ AfterAdjacent(k, o) /\ (cmp = -1 => o.cmp = -1)
    /\ active_indices' \in Seq(Vertices)
    /\ \/ o.cmp \in {1, 2} /\ UNCHANGED index_containing
       \/ /\ o.cmp \notin {1, 2}
          /\ Range(active_indices') = Range(active_indices) \cup new
          /\ IsSplit(index_containing, index_containing', k, new)
          /\ index_containing' \in IndexedPartitions
          /\ KeepsOrder(index_containing, index_containing')
          /\ \A u, v \in Cell(index_containing, k) :
                 index_containing'[u] = index_containing'[v] <=> attr_sums[u] = attr_sums[v]

\* sort_and_split_index splits the cell into the classes of equal sums, or a comparison fails.
LEMMA SplitResult ==
    ASSUME NEW k \in Nest!Indices(index_containing), index_containing \in IndexedPartitions,
           active_indices \in Seq(Vertices),
           NEW e \in SortedCell(k), SplitAs(k, e),
           \A u \in Cell(index_containing, k) : attr_sums[u] \in [1 .. 3 -> Int]
    PROVE  \E o, new : SplitGives(k, o, new)
<1>1. PICK P : P = PositionsOf(k)
    OBVIOUS
<1>2. PICK K : K = Changes(attr_sums, P, k, e)
    OBVIOUS
<1>3. PICK s : s = NewIndices(k, e)
    OBVIOUS
<1>4. PICK r : r = Reached(k, e)
    OBVIOUS
<1>5. PICK o : o = Outcomes(k, e)[r]
    OBVIOUS
<1>6. /\ P = k .. k + Cardinality(Cell(index_containing, k)) - 1
      /\ s \in Seq(Vertices) /\ Len(s) \in Nat /\ Range(s) = K
    BY <1>1, <1>2, <1>3, NewIndicesAre
<1>7. r \in 0 .. Len(s) /\ (o.cmp \notin {1, 2} => r = Len(s)) /\ (cmp = -1 => o.cmp = -1)
    BY <1>3, <1>4, <1>5, <1>6, ReachedIs
<1>8. /\ active_indices' = active_indices \o SubSeq(s, 1, r)
      /\ o.cmp \in {1, 2} => UNCHANGED index_containing
      /\ o.cmp \notin {1, 2} => index_containing' =
             Split(index_containing, P, e, k, Range(SubSeq(s, 1, r)))
      /\ AfterAdjacent(k, o)
    BY <1>1, <1>3, <1>4, <1>5, SplitAsIs
<1>9. active_indices' \in Seq(Vertices)
    <2>1. SubSeq(s, 1, r) \in Seq(Vertices)
        BY <1>6, <1>7
    <2> QED
        BY <1>8, <2>1
<1>10. CASE o.cmp \in {1, 2}
    BY <1>7, <1>8, <1>9, <1>10 DEF SplitGives
<1>11. CASE o.cmp \notin {1, 2}
    <2>1. SubSeq(s, 1, r) = s
        <3>1. r = Len(s)
            BY <1>7, <1>11
        <3> QED
            BY <1>6, <3>1
    <2>2. Range(active_indices') = Range(active_indices) \cup K
        BY <1>6, <1>8, <2>1, RangeConcatenation
    <2>3. index_containing' = Split(index_containing, P, e, k, K)
        BY <1>6, <1>8, <1>11, <2>1
    <2>4. IsSortedBy(attr_sums, P, Cell(index_containing, k), e)
        BY <1>1 DEF SortedCell, IsSortedBy
    <2>5. PICK p, q : p = index_containing /\ q = index_containing'
        OBVIOUS
    <2>6. /\ IsSplit(p, q, k, K) /\ q \in IndexedPartitions /\ KeepsOrder(p, q)
          /\ \A u, v \in Cell(p, k) : q[u] = q[v] <=> attr_sums[u] = attr_sums[v]
        <3>1. q = Split(p, P, e, k, Changes(attr_sums, P, k, e))
            BY <1>2, <2>3, <2>5
        <3>2. IsSortedBy(attr_sums, P, Cell(p, k), e) /\ p \in IndexedPartitions
              /\ P = k .. k + Cardinality(Cell(p, k)) - 1 /\ k \in Nest!Indices(p)
              /\ \A u \in Cell(p, k) : attr_sums[u] \in [1 .. 3 -> Int]
            BY <1>6, <2>4, <2>5
        <3>3. /\ IsSplit(p, q, k, Changes(attr_sums, P, k, e))
              /\ q \in IndexedPartitions /\ KeepsOrder(p, q)
              /\ \A u, v \in Cell(p, k) : q[u] = q[v] <=> attr_sums[u] = attr_sums[v]
            BY <3>1, <3>2, SortAndSplit
        <3> QED
            BY <1>2, <3>3
    <2> QED
        BY <1>7, <1>8, <1>9, <1>11, <2>2, <2>5, <2>6 DEF SplitGives
<1> QED
    BY <1>10, <1>11

\* A cell next to the active one is split by what C sows into its vertices.
LEMMA SplitKeeps ==
    ASSUME RefineInv, pc = "split", NEW k \in adjacent, NEW o, AfterAdjacent(k, o),
           cmp = -1 => o.cmp = -1, o.cmp \notin {1, 2},
           NEW C, SownWith(C), NEW new,
           active_indices' \in Seq(Vertices),
           Range(active_indices') = Range(active_indices) \cup new,
           IsSplit(index_containing, index_containing', k, new),
           index_containing' \in IndexedPartitions,
           KeepsOrder(index_containing, index_containing'),
           \A u, v \in Cell(index_containing, k) :
               index_containing'[u] = index_containing'[v] <=> Same(graph, C, u, v)
    PROVE  RefinerShape' /\ CoarseSoFar' /\ Recording' /\ Progress'
<1>1. /\ attr_sums' = Erased({k}) /\ adjacent' = adjacent \ {k} /\ cmp' = o.cmp
      /\ graph' = graph /\ start' = start /\ call' = call
      /\ pc' \in {"split", "undefined"}
    <2>1. o.cmp # 1
        OBVIOUS
    <2> QED
        BY <2>1 DEF AfterAdjacent, callVars
<1>2. /\ RefinerShape /\ CoarseSoFar /\ Recording
      /\ DOMAIN attr_sums \subseteq Vertices
    BY ConstantsAssumption DEF RefineInv, SumsOfAdjacent, Vertices
<1>3. EquitableFiner' = EquitableFiner
    BY <1>1 DEF EquitableFiner
<1>4. PICK p, q : p = index_containing /\ q = index_containing'
    OBVIOUS
<1>5. /\ p \in IndexedPartitions /\ q \in IndexedPartitions
      /\ p \in [Vertices -> Vertices] /\ q \in [Vertices -> Vertices]
      /\ IsSplit(p, q, k, new) /\ KeepsOrder(p, q)
      /\ adjacent \subseteq Nest!Indices(p) /\ k \in Nest!Indices(p)
      /\ \A u, v \in Cell(p, k) : q[u] = q[v] <=> Same(graph, C, u, v)
    BY <1>2, <1>4 DEF RefinerShape, IndexedPartitions
<1>6. /\ \A u \in Vertices : p[u] # k => q[u] = p[u]
      /\ \A u \in Vertices : p[u] = k => q[u] \in {k} \cup new
      /\ k \notin new
      /\ \A u \in Vertices : p[u] \notin new
    BY <1>5, IndicesIs DEF IsSplit
<1>7. \A j \in adjacent : j \notin new
    BY <1>5 DEF IsSplit
<1>8. RefinerShape'
    <2>1. KeepsOrder(start, q)
        BY <1>2, <1>4, <1>5 DEF RefinerShape, KeepsOrder
    <2>2. adjacent \ {k} \subseteq Nest!Indices(q)
        BY <1>5, <1>6, IndicesIs
    <2>3. /\ graph \in SUBSET (Vertices \X Vertices) /\ start \in IndexedPartitions
        BY <1>2 DEF RefinerShape
    <2> QED
        BY <1>1, <1>4, <1>5, <2>1, <2>2, <2>3 DEF RefinerShape
<1>9. ASSUME NEW f \in EquitableFiner
      PROVE  Refines(f, q)
    <2>1. /\ f \in IndexedPartitions /\ f \in [Vertices -> Vertices] /\ Equitable(graph, f)
          /\ UnionOf(f, C) /\ C \subseteq Vertices
        BY <1>9 DEF EquitableFiner, SownWith, IndexedPartitions
    <2>2. Refines(f, p)
        BY <1>2, <1>4, <1>9 DEF CoarseSoFar
    <2>3. ASSUME NEW u \in Vertices, NEW v \in Vertices, f[u] = f[v]
          PROVE  q[u] = q[v]
        <3>1. p[u] = p[v]
            BY <1>5, <2>1, <2>2, <2>3, RefinesIs
        <3>2. CASE p[u] # k
            BY <1>6, <3>1, <3>2
        <3>3. CASE p[u] = k
            <4>1. u \in Cell(p, k) /\ v \in Cell(p, k)
                BY <3>1, <3>3 DEF Cell
            <4>2. Same(graph, C, u, v)
                BY <2>1, <2>3, UnionSowsSame
            <4> QED
                BY <1>5, <4>1, <4>2
        <3> QED
            BY <3>2, <3>3
    <2> QED
        BY <1>5, <2>1, <2>3, RefinesIs
<1>10. CoarseSoFar'
    BY <1>3, <1>4, <1>9 DEF CoarseSoFar
<1>11. Recording'
    BY <1>1, <1>2 DEF Recording, NewTrace
<1>12. SownWith(C)'
    <2>1. Accounted(graph, q, Range(active_indices) \cup new, C)
        BY <1>4, <1>5, SplitAccounts DEF SownWith
    <2>2. ASSUME NEW v \in DOMAIN attr_sums', index_containing'[v] \in adjacent'
          PROVE  attr_sums'[v] = SownBy(graph, C, v)
        <3>1. v \in DOMAIN attr_sums /\ v \in Vertices
            BY <1>1, <1>2 DEF Erased
        <3>2. q[v] \in adjacent /\ q[v] # k
            BY <1>1, <1>4, <2>2
        <3>3. p[v] # k
            BY <1>6, <1>7, <3>1, <3>2
        <3>4. p[v] \in adjacent
            BY <1>6, <3>1, <3>2, <3>3
        <3>5. attr_sums'[v] = attr_sums[v]
            BY <1>1, <1>4, <3>1, <3>3 DEF Erased
        <3> QED
            BY <1>4, <3>1, <3>4, <3>5 DEF SownWith
    <2>3. ASSUME NEW u \in Vertices, NEW v \in Vertices, q[u] = q[v], q[u] \notin adjacent \ {k}
          PROVE  Same(graph, C, u, v)
        <3>1. p[u] = k <=> p[v] = k
            BY <1>6, <2>3
        <3>2. CASE p[u] = k
            BY <1>5, <2>3, <3>1, <3>2 DEF Cell
        <3>3. CASE p[u] # k
            <4>1. p[u] = p[v] /\ p[u] \notin adjacent
                BY <1>6, <2>3, <3>1, <3>3
            <4> QED
                BY <1>4, <4>1 DEF SownWith
        <3> QED
            BY <3>2, <3>3
    <2>4. C \subseteq Vertices /\ \A f \in EquitableFiner : UnionOf(f, C)
        BY DEF SownWith
    <2> QED
        BY <1>1, <1>3, <1>4, <2>1, <2>2, <2>3, <2>4 DEF SownWith
<1>13. Progress'
    BY <1>1, <1>12 DEF Progress
<1> QED
    BY <1>8, <1>10, <1>11, <1>13

\* A comparison fails, as it only does with a trace recorded before.
LEMMA SplitEnds ==
    ASSUME RefineInv, pc = "split", NEW k \in adjacent, NEW o, AfterAdjacent(k, o),
           cmp = -1 => o.cmp = -1, o.cmp \in {1, 2},
           active_indices' \in Seq(Vertices), index_containing' = index_containing
    PROVE  RefinerShape' /\ CoarseSoFar' /\ Recording' /\ Progress'
<1>1. /\ adjacent' \subseteq adjacent /\ cmp' = o.cmp
      /\ graph' = graph /\ start' = start /\ call' = call
      /\ pc' \in {"done", "undefined"}
    BY DEF AfterAdjacent, callVars
<1>2. RefinerShape /\ CoarseSoFar /\ Recording
    BY DEF RefineInv
<1>3. ~ NewTrace /\ ~ NewTrace'
    BY <1>1, <1>2 DEF Recording, NewTrace
<1>4. RefinerShape'
    BY <1>1, <1>2 DEF RefinerShape
<1>5. CoarseSoFar'
    BY <1>1, <1>2 DEF CoarseSoFar, EquitableFiner
<1> QED
    BY <1>1, <1>3, <1>4, <1>5 DEF Recording, Progress

\* The adjacent cells are split one after the other.
LEMMA SplitRefines ==
    ASSUME RefineInv, sort_and_split_index
    PROVE  RefinerShape' /\ CoarseSoFar' /\ Recording' /\ Progress'
<1>1. pc = "split" /\ HaveSums({Min(adjacent)})
    BY DEF sort_and_split_index
<1>2. /\ RefinerShape /\ adjacent # {}
      /\ \E e \in SortedCell(Min(adjacent)) : SplitAs(Min(adjacent), e)
    BY SplitsAs DEF RefineInv
<1>3. PICK k : k = Min(adjacent)
    OBVIOUS
<1>4. k \in adjacent /\ k \in Nest!Indices(index_containing) /\ HaveSums({k})
    BY <1>1, <1>2, <1>3, FirstAdjacent
<1>5. PICK e \in SortedCell(k) : SplitAs(k, e)
    BY <1>2, <1>3
<1>6. PICK C : SownWith(C)
    BY <1>1 DEF RefineInv, Progress
<1>7. \A u \in Cell(index_containing, k) :
          u \in Vertices /\ attr_sums[u] = SownBy(graph, C, u)
    BY <1>4, <1>6 DEF SownWith, HaveSums, Cell
<1>8. \A u \in Cell(index_containing, k) : attr_sums[u] \in [1 .. 3 -> Int]
    <2>1. C \subseteq Vertices
        BY <1>6 DEF SownWith
    <2>2. \A u : SownBy(graph, C, u) \in [1 .. 3 -> Nat]
        BY <2>1, SownIs
    <2> QED
        BY <1>7, <2>2
<1>9. index_containing \in IndexedPartitions /\ active_indices \in Seq(Vertices)
    BY <1>2 DEF RefinerShape
<1>10. PICK o, new : SplitGives(k, o, new)
    BY <1>4, <1>5, <1>8, <1>9, SplitResult
<1>11. /\ AfterAdjacent(k, o) /\ (cmp = -1 => o.cmp = -1)
       /\ active_indices' \in Seq(Vertices)
    BY <1>10 DEF SplitGives
<1>12. CASE o.cmp \in {1, 2}
    <2>1. index_containing' = index_containing
        BY <1>10, <1>12 DEF SplitGives
    <2> QED
        BY <1>1, <1>4, <1>11, <1>12, <2>1, SplitEnds
<1>13. CASE o.cmp \notin {1, 2}
    <2>1. /\ Range(active_indices') = Range(active_indices) \cup new
          /\ IsSplit(index_containing, index_containing', k, new)
          /\ index_containing' \in IndexedPartitions
          /\ KeepsOrder(index_containing, index_containing')
          /\ \A u, v \in Cell(index_containing, k) :
                 index_containing'[u] = index_containing'[v] <=> attr_sums[u] = attr_sums[v]
        BY <1>10, <1>13 DEF SplitGives
    <2>2. \A u, v \in Cell(index_containing, k) :
              index_containing'[u] = index_containing'[v] <=> Same(graph, C, u, v)
        BY <1>7, <2>1 DEF Same
    <2> QED
        BY <1>1, <1>4, <1>6, <1>11, <1>13, <2>1, <2>2, SplitKeeps
<1> QED
    BY <1>12, <1>13

\* A cell of one vertex is only compared.
LEMMA TrivialRefines ==
    ASSUME RefineInv, TraceTrivial
    PROVE  RefinerShape' /\ CoarseSoFar' /\ Recording' /\ Progress'
<1>1. PICK k, o : /\ k = Min(adjacent)
                  /\ o = trace_attr_sum(Outcome(trace, cmp), attr_sum_count,
                                        <<k, attr_sums[elements[k]]>>)
    OBVIOUS
<1>2. /\ pc = "split" /\ adjacent # {} /\ CellSize(k) = 1 /\ AfterAdjacent(k, o)
      /\ index_containing' = index_containing /\ active_indices' = active_indices
    BY <1>1 DEF TraceTrivial, nestVars
<1>3. RefinerShape
    BY DEF RefineInv
<1>4. k \in adjacent /\ k \in Nest!Indices(index_containing)
    BY <1>1, <1>2, <1>3, FirstAdjacent
<1>5. cmp = -1 => o.cmp = -1
    <2>1. Outcome(trace, cmp).cmp = cmp
        BY DEF Outcome
    <2> QED
        BY <1>1, <2>1, Records
<1>6. active_indices' \in Seq(Vertices)
    BY <1>2, <1>3 DEF RefinerShape
<1>7. CASE o.cmp \in {1, 2}
    BY <1>2, <1>4, <1>5, <1>6, <1>7, SplitEnds
<1>8. CASE o.cmp \notin {1, 2}
    <2>1. PICK C : SownWith(C)
        BY <1>2 DEF RefineInv, Progress
    <2>2. Range(active_indices') = Range(active_indices) \cup {}
        BY <1>2
    <2>3. IsSplit(index_containing, index_containing', k, {})
        BY <1>2 DEF IsSplit
    <2>4. index_containing' \in IndexedPartitions
        BY <1>2, <1>3 DEF RefinerShape
    <2>5. KeepsOrder(index_containing, index_containing')
        BY <1>2 DEF KeepsOrder
    <2>6. ASSUME NEW u \in Cell(index_containing, k), NEW v \in Cell(index_containing, k)
          PROVE  index_containing'[u] = index_containing'[v] <=> Same(graph, C, u, v)
        <3>1. u = v
            <4>1. Cell(index_containing, k) \subseteq Vertices
                BY DEF Cell
            <4>2. IsFiniteSet(Cell(index_containing, k))
                BY <4>1, SetsOfVertices
            <4>3. Cardinality(Cell(index_containing, k)) = 1
                BY <1>2 DEF CellSize
            <4> QED
                BY <4>2, <4>3, FS_Singleton
        <3> QED
            BY <3>1 DEF Same
    <2> QED
        BY <1>2, <1>4, <1>5, <1>6, <1>8, <2>1, <2>2, <2>3, <2>4, <2>5, <2>6, SplitKeeps
<1> QED
    BY <1>7, <1>8

\* What is left of a sequence without its last element.
LEMMA FrontIs ==
    ASSUME NEW S, NEW s \in Seq(S), s # <<>>
    PROVE  /\ Front(s) \in Seq(S) /\ Len(Front(s)) = Len(s) - 1
           /\ \A i \in 1 .. Len(s) - 1 : Front(s)[i] = s[i]
<1>1. Len(s) \in Nat /\ Len(s) > 0
    OBVIOUS
<1> QED
    <2>1. PICK n : n = Len(s) - 1
        OBVIOUS
    <2>2. n \in Nat /\ n <= Len(s) /\ Front(s) = SubSeq(s, 1, n)
        BY <1>1, <2>1 DEF Front
    <2>3. Front(s) \in Seq(S) /\ Len(Front(s)) = n
        BY <1>1, <2>2
    <2>4. \A i \in 1 .. n : Front(s)[i] = s[i]
        BY <1>1, <2>2
    <2> QED
        BY <2>1, <2>3, <2>4

\* The next active cell is sown: none of its sums was left from before.
LEMMA SowRefines ==
    ASSUME RefineInv, SowActiveCell
    PROVE  RefinerShape' /\ CoarseSoFar' /\ Recording' /\ Progress'
<1>1. PICK C, o : /\ C = Cell(index_containing, Last(active_indices))
                  /\ o = trace_active_index(Last(active_indices))
    OBVIOUS
<1>2. /\ pc = "active" /\ pc' = "split" /\ active_indices # <<>> /\ cmp' = o.cmp
      /\ attr_sums' = [v \in DOMAIN attr_sums |->
              [i \in 1 .. 3 |-> attr_sums[v][i] + SownBy(graph, C, v)[i]]]
      /\ adjacent' = {index_containing[v] : v \in UNION {Neighbours(graph, u) : u \in C}}
      /\ active_indices' = Front(active_indices)
      /\ graph' = graph /\ start' = start /\ call' = call
      /\ index_containing' = index_containing
    BY <1>1 DEF SowActiveCell, nestVars, callVars
<1>3. /\ RefinerShape /\ CoarseSoFar /\ Recording
      /\ \A v \in DOMAIN attr_sums : attr_sums[v] = NoSum
      /\ Accounted(graph, index_containing, Range(active_indices), {})
    BY <1>2 DEF RefineInv, SumsOfAdjacent, Progress
<1>4. C \subseteq Vertices
    BY <1>1 DEF Cell
<1>5. /\ Front(active_indices) \in Seq(Vertices)
      /\ Range(active_indices) = Range(Front(active_indices)) \cup {Last(active_indices)}
    <2>1. active_indices \in Seq(Vertices) /\ active_indices # <<>>
        BY <1>2, <1>3 DEF RefinerShape
    <2>2. /\ Front(active_indices) \in Seq(Vertices)
          /\ Len(Front(active_indices)) = Len(active_indices) - 1
          /\ \A i \in 1 .. Len(active_indices) - 1 : Front(active_indices)[i] = active_indices[i]
        BY <2>1, FrontIs
    <2>3. Last(active_indices) = active_indices[Len(active_indices)]
        BY DEF Last
    <2>4. Len(active_indices) \in Nat /\ Len(active_indices) > 0
          /\ DOMAIN active_indices = 1 .. Len(active_indices)
          /\ DOMAIN Front(active_indices) = 1 .. Len(active_indices) - 1
        BY <2>1, <2>2
    <2>5. ASSUME NEW i \in 1 .. Len(active_indices)
          PROVE  active_indices[i] \in Range(Front(active_indices)) \cup {Last(active_indices)}
        <3>1. CASE i = Len(active_indices)
            BY <2>3, <3>1
        <3>2. CASE i # Len(active_indices)
            <4>1. i \in 1 .. Len(active_indices) - 1
                <5>1. PICK n : n = Len(active_indices)
                    OBVIOUS
                <5>2. n \in Nat /\ i \in 1 .. n /\ i # n
                    BY <2>4, <3>2, <5>1
                <5>3. i \in 1 .. n - 1
                    BY <5>2
                <5> QED
                    BY <5>1, <5>3
            <4> QED
                BY <2>2, <2>4, <4>1 DEF Range
        <3> QED
            BY <3>1, <3>2
    <2>6. Len(active_indices) \in DOMAIN active_indices
          /\ \A i \in DOMAIN Front(active_indices) : i \in DOMAIN active_indices
        BY <2>4
    <2>7. Last(active_indices) \in Range(active_indices)
        BY <2>3, <2>6 DEF Range
    <2>8. Range(Front(active_indices)) \subseteq Range(active_indices)
        BY <2>2, <2>4, <2>6 DEF Range
    <2>9. \A x \in Range(active_indices) : \E i \in 1 .. Len(active_indices) : x = active_indices[i]
        BY <2>4 DEF Range
    <2> QED
        BY <2>2, <2>5, <2>7, <2>8, <2>9
<1>6. EquitableFiner' = EquitableFiner
    BY <1>2 DEF EquitableFiner
<1>7. RefinerShape'
    <2>1. adjacent' \subseteq Nest!Indices(index_containing)
        BY <1>2, IndicesIs DEF Neighbours
    <2> QED
        BY <1>2, <1>3, <1>5, <2>1 DEF RefinerShape
<1>8. CoarseSoFar'
    BY <1>2, <1>3, <1>6 DEF CoarseSoFar
<1>9. Recording'
    <2>1. cmp = -1 => o.cmp = -1
        BY <1>1 DEF trace_active_index, Outcome
    <2> QED
        BY <1>2, <1>3, <2>1 DEF Recording, NewTrace
<1>10. SownWith(C)'
    <2>1. Accounted(graph, index_containing, Range(Front(active_indices)), C)
        <3> SUFFICES ASSUME NEW u \in Vertices, NEW v \in Vertices,
                            index_containing[u] = index_containing[v],
                            \A k \in Range(Front(active_indices)) :
                                Same(graph, Cell(index_containing, k), u, v),
                            Same(graph, C, u, v)
                     PROVE  \A k \in Nest!Indices(index_containing) :
                                Same(graph, Cell(index_containing, k), u, v)
            BY DEF Accounted
        <3>1. \A k \in Range(active_indices) : Same(graph, Cell(index_containing, k), u, v)
            BY <1>1, <1>5
        <3>2. Same(graph, {}, u, v)
            BY DEF Same, SownBy
        <3> QED
            BY <1>3, <3>1, <3>2 DEF Accounted
    <2>2. ASSUME NEW v \in DOMAIN attr_sums'
          PROVE  attr_sums'[v] = SownBy(graph, C, v)
        <3>1. SownBy(graph, C, v) \in [1 .. 3 -> Nat]
            BY <1>4, SownIs
        <3>2. PICK d : d = SownBy(graph, C, v)
            OBVIOUS
        <3>3. d \in [1 .. 3 -> Nat]
            BY <3>1, <3>2
        <3>4. attr_sums'[v] = [i \in 1 .. 3 |-> NoSum[i] + d[i]]
            BY <1>2, <1>3, <3>2
        <3>5. \A i \in 1 .. 3 : NoSum[i] + d[i] = d[i]
            BY <3>3, NoSumIsZero
        <3>6. [i \in 1 .. 3 |-> NoSum[i] + d[i]] = d
            BY <3>3, <3>5
        <3> QED
            BY <3>2, <3>4, <3>6
    <2>3. ASSUME NEW u \in Vertices, NEW v \in Vertices,
                 index_containing[u] = index_containing[v], index_containing[u] \notin adjacent'
          PROVE  Same(graph, C, u, v)
        <3>1. \A w \in C : u \notin Neighbours(graph, w) /\ v \notin Neighbours(graph, w)
            BY <1>2, <2>3
        <3>2. \A i \in 1 .. 3 : SownBy(graph, C, u)[i] = 0 /\ SownBy(graph, C, v)[i] = 0
            BY <3>1, NothingFromAfar
        <3>3. PICK a, b : a = SownBy(graph, C, u) /\ b = SownBy(graph, C, v)
            OBVIOUS
        <3>4. a \in [1 .. 3 -> Nat] /\ b \in [1 .. 3 -> Nat]
            BY <1>4, <3>3, SownIs
        <3>5. a = b
            BY <3>2, <3>3, <3>4
        <3> QED
            BY <3>3, <3>5 DEF Same
    <2>4. ASSUME NEW q \in EquitableFiner PROVE UnionOf(q, C)
        <3>1. q \in [Vertices -> Vertices] /\ index_containing \in [Vertices -> Vertices]
            BY <1>3 DEF EquitableFiner, RefinerShape, IndexedPartitions
        <3>2. Refines(q, index_containing)
            BY <1>3 DEF CoarseSoFar
        <3>3. \A w, x \in Vertices : q[w] = q[x] => index_containing[w] = index_containing[x]
            BY <3>1, <3>2, RefinesIs
        <3> QED
            BY <1>1, <3>3 DEF UnionOf, Cell
    <2> QED
        BY <1>2, <1>4, <1>6, <2>1, <2>2, <2>3, <2>4 DEF SownWith
<1>11. Progress'
    BY <1>2, <1>10 DEF Progress
<1> QED
    BY <1>7, <1>8, <1>9, <1>11

\* No cell next to the active one is left.
LEMMA NextIndexRefines ==
    ASSUME RefineInv, NextActiveIndex
    PROVE  RefinerShape' /\ CoarseSoFar' /\ Recording' /\ Progress'
<1>1. /\ pc = "split" /\ adjacent = {} /\ pc' = "active"
      /\ UNCHANGED <<graph, start, call, index_containing, active_indices, adjacent, cmp>>
    BY DEF NextActiveIndex, nestVars, callVars
<1>2. RefinerShape /\ CoarseSoFar /\ Recording
    BY DEF RefineInv
<1>3. PICK C : SownWith(C)
    BY <1>1 DEF RefineInv, Progress
<1>4. Accounted(graph, index_containing, Range(active_indices), {})
    <2>1. \A u, v \in Vertices : index_containing[u] = index_containing[v] => Same(graph, C, u, v)
        BY <1>1, <1>3 DEF SownWith
    <2> QED
        BY <1>3, <2>1 DEF SownWith, Accounted
<1>5. RefinerShape'
    BY <1>1, <1>2 DEF RefinerShape
<1>6. CoarseSoFar'
    BY <1>1, <1>2 DEF CoarseSoFar, EquitableFiner
<1>7. Recording'
    BY <1>1, <1>2 DEF Recording, NewTrace
<1>8. Progress'
    BY <1>1, <1>4 DEF Progress
<1> QED
    BY <1>5, <1>6, <1>7, <1>8

\* The steps that end a call.
LEMMA EndRefines ==
    ASSUME RefineInv, Throw \/ LargerActiveIndex \/ ReadsPastSums \/ Return
    PROVE  RefinerShape' /\ CoarseSoFar' /\ Recording' /\ Progress'
<1>1. /\ RefinerShape /\ CoarseSoFar /\ Recording
      /\ pc = "active" => Accounted(graph, index_containing, Range(active_indices), {})
    BY DEF RefineInv, Progress
<1>2. CASE Throw \/ ReadsPastSums
    <2>1. /\ pc' \in {"throw", "undefined"}
          /\ UNCHANGED <<graph, start, call, index_containing, active_indices, adjacent, cmp>>
        BY <1>2 DEF Throw, ReadsPastSums, nestVars, callVars
    <2>2. RefinerShape'
        BY <1>1, <2>1 DEF RefinerShape
    <2>3. CoarseSoFar'
        BY <1>1, <2>1 DEF CoarseSoFar, EquitableFiner
    <2> QED
        BY <2>1, <2>2, <2>3 DEF Recording, Progress
<1>3. CASE LargerActiveIndex
    <2>1. /\ pc = "active" /\ pc' = "done" /\ active_indices # <<>>
          /\ trace_active_index(Last(active_indices)).cmp = 1
          /\ active_indices' = Front(active_indices)
          /\ UNCHANGED <<graph, start, call, index_containing, adjacent>>
        BY <1>3 DEF LargerActiveIndex, nestVars, callVars
    <2>2. cmp # -1
        BY <2>1 DEF trace_active_index, Outcome
    <2>3. ~ NewTrace'
        BY <1>1, <2>1, <2>2 DEF Recording, NewTrace
    <2>4. RefinerShape'
        <3>1. Front(active_indices) \in Seq(Vertices)
            BY <1>1, <2>1, FrontIs DEF RefinerShape
        <3> QED
            BY <1>1, <2>1, <3>1 DEF RefinerShape
    <2>5. CoarseSoFar'
        BY <1>1, <2>1 DEF CoarseSoFar, EquitableFiner
    <2> QED
        BY <2>1, <2>3, <2>4, <2>5 DEF Recording, Progress
<1>4. CASE Return
    <2>1. /\ pc = "active" /\ pc' = "done" /\ active_indices = <<>>
          /\ UNCHANGED <<graph, start, call, index_containing, active_indices, adjacent, cmp>>
        BY <1>4 DEF Return, nestVars, callVars
    <2>2. RefinerShape'
        BY <1>1, <2>1 DEF RefinerShape
    <2>3. CoarseSoFar'
        BY <1>1, <2>1 DEF CoarseSoFar, EquitableFiner
    <2>4. Recording'
        BY <1>1, <2>1 DEF Recording, NewTrace
    <2>5. Progress'
        BY <1>1, <2>1 DEF Progress
    <2> QED
        BY <2>2, <2>3, <2>4, <2>5
<1> QED
    BY <1>2, <1>3, <1>4

\* When all cells are active there is nothing to account for.
LEMMA AllActive ==
    ASSUME NEW p \in IndexedPartitions
    PROVE  /\ nontrivial_indices(p) \in Seq(Vertices)
           /\ \A g : Accounted(g, p, Range(nontrivial_indices(p)), {})
<1>1. p \in [Vertices -> Vertices]
    BY DEF IndexedPartitions
<1>2. Nest!Indices(p) \subseteq Vertices
    BY <1>1, IndicesIs
<1>3. Nest!Indices(p) \subseteq Nat /\ IsFiniteSet(Nest!Indices(p))
    BY <1>2, SetsOfVertices DEF Vertices
<1>4. PICK K, s : K = Nest!Indices(p) /\ s = nontrivial_indices(p)
    OBVIOUS
<1>5. s \in Seq(K) /\ Range(s) = K
    BY <1>3, <1>4, AscendingIs DEF nontrivial_indices
<1>6. s \in Seq(Vertices)
    <2>1. \A S, T : S \subseteq T => Seq(S) \subseteq Seq(T)
        OBVIOUS
    <2> QED
        BY <1>2, <1>4, <1>5, <2>1
<1> QED
    BY <1>4, <1>5, <1>6 DEF Accounted

\* A call begins with what the colouring or the caller says is accounted for.
LEMMA CallRefines ==
    ASSUME NEW g \in SUBSET (Vertices \X Vertices), NEW p \in IndexedPartitions, NEW e, NEW t,
           NEW a \in Seq(Vertices), Refine(g, p, e, t, a), Accounted(g, p, Range(a), {}),
           t = EmptyTrace \/ ~ NewTrace'
    PROVE  RefinerShape' /\ CoarseSoFar' /\ Recording' /\ Progress'
<1>1. /\ graph' = g /\ start' = p /\ index_containing' = p /\ active_indices' = a
      /\ adjacent' = {} /\ pc' = "active" /\ cmp' = IF t = EmptyTrace THEN -1 ELSE 0
    BY DEF Refine
<1>2. RefinerShape'
    BY <1>1 DEF RefinerShape, KeepsOrder
<1>3. CoarseSoFar'
    BY <1>1 DEF CoarseSoFar, EquitableFiner
<1>4. Recording'
    BY <1>1 DEF Recording
<1>5. Progress'
    BY <1>1 DEF Progress
<1> QED
    BY <1>2, <1>3, <1>4, <1>5

\* Indices stay numbers of vertices when the vertices are renamed.
LEMMA RenamedIsIndexed ==
    ASSUME NEW p \in IndexedPartitions, NEW s \in [Vertices -> Vertices],
           \A u, v \in Vertices : u # v => s[u] # s[v]
    PROVE  RenamedPartition(p, s) \in IndexedPartitions
<1> DEFINE old(v) == CHOOSE u \in Vertices : s[u] = v
           q == RenamedPartition(p, s)
<1>1. \A v \in Vertices : old(v) \in Vertices /\ s[old(v)] = v
    <2> SUFFICES ASSUME NEW v \in Vertices
                 PROVE  \E u \in Vertices : s[u] = v
        OBVIOUS
    <2> QED
        BY VerticesFinite, ListsAll
<1>2. \A u \in Vertices : old(s[u]) = u
    BY <1>1
<1>3. q \in [Vertices -> Vertices] /\ \A v \in Vertices : q[v] = p[old(v)]
    BY <1>1 DEF RenamedPartition, IndexedPartitions
<1>4. \A u \in Vertices : q[s[u]] = p[u]
    BY <1>2, <1>3
<1> HIDE DEF old, q
<1>5. ASSUME NEW v \in Vertices
      PROVE  q[v] = Cardinality({w \in Vertices : q[w] < q[v]})
    <2>1. PICK u \in Vertices : s[u] = v /\ p[u] = q[v]
        BY <1>1, <1>3
    <2> DEFINE S == {w \in Vertices : p[w] < p[u]}
               T == {w \in Vertices : q[w] < q[v]}
               f == [w \in S |-> s[w]]
    <2>2. f \in [S -> T]
        BY <1>4, <2>1
    <2>3. \A x, y \in S : f[x] = f[y] => x = y
        OBVIOUS
    <2>4. \A y \in T : \E x \in S : f[x] = y
        <3> SUFFICES ASSUME NEW y \in T PROVE \E x \in S : f[x] = y
            OBVIOUS
        <3>1. old(y) \in S /\ s[old(y)] = y
            BY <1>1, <1>3, <2>1
        <3> QED
            BY <3>1
    <2>5. IsFiniteSet(S) /\ IsFiniteSet(T)
        BY SetsOfVertices
    <2> HIDE DEF S, T, f
    <2>6. f \in Bijection(S, T)
        BY <2>2, <2>3, <2>4 DEF Bijection, Injection, Surjection, IsInjective
    <2>7. ExistsBijection(S, T)
        BY <2>6 DEF ExistsBijection
    <2>8. Cardinality(S) = Cardinality(T)
        BY <2>5, <2>7, FS_Bijection
    <2>9. p[u] = Cardinality(S)
        BY DEF IndexedPartitions, S
    <2> QED
        BY <2>1, <2>8, <2>9 DEF T
<1> QED
    BY <1>3, <1>5 DEF IndexedPartitions, q

\* The partition after a vertex was broken out of the cell at k.
BrokenOut(p, k, u) ==
    [v \in Vertices |-> IF p[v] = k /\ v # u THEN k + 1 ELSE p[v]]

\* Breaking a vertex out splits its cell in two.
LEMMA BrokenOutIs ==
    ASSUME NEW p \in IndexedPartitions, NEW u \in Vertices, NEW k, k = p[u],
           Cardinality(Cell(p, k)) > 1, NEW q, q = BrokenOut(p, k, u)
    PROVE  q \in IndexedPartitions /\ IsSplit(p, q, k, {k + 1})
<1>1. p \in [Vertices -> Vertices] /\ k \in Nest!Indices(p)
    BY IndicesIs DEF IndexedPartitions
<1>2. PICK m : m = Cardinality(Cell(p, k))
    OBVIOUS
<1>3. /\ k \in Vertices /\ m \in Nat /\ m > 1 /\ k + m <= N
      /\ \A v \in Vertices : p[v] > k => p[v] >= k + m
      /\ k = Cardinality({w \in Vertices : p[w] < k})
    BY <1>1, <1>2, CellsFit
<1>4. k \in Nat /\ \A v \in Vertices : p[v] \in Nat
    BY <1>1, <1>3 DEF Vertices
<1>5. k + 1 \in Vertices
    BY <1>3, <1>4, VerticesFinite DEF Vertices
<1>6. q \in [Vertices -> Vertices]
    BY <1>1, <1>5 DEF BrokenOut
<1>7. /\ q[u] = k
      /\ \A v \in Vertices : p[v] = k /\ v # u => q[v] = k + 1
      /\ \A v \in Vertices : p[v] # k => q[v] = p[v]
    BY DEF BrokenOut
<1>8. ASSUME NEW v \in Vertices PROVE p[v] # k + 1
    <2>1. PICK a, b : a = k /\ b = p[v]
        OBVIOUS
    <2>2. a \in Nat /\ b \in Nat /\ m \in Nat /\ m > 1 /\ (b > a => b >= a + m)
        BY <1>3, <1>4, <2>1
    <2>3. b # a + 1
        BY <2>2
    <2> QED
        BY <2>1, <2>3
<1>9. IsSplit(p, q, k, {k + 1})
    BY <1>4, <1>7, <1>8, IndicesIs DEF IsSplit
<1>10. ASSUME NEW v \in Vertices
       PROVE  q[v] = Cardinality({w \in Vertices : q[w] < q[v]})
    <2>1. p[v] = Cardinality({w \in Vertices : p[w] < p[v]})
        BY DEF IndexedPartitions
    <2>2. CASE p[v] # k \/ v = u
        <3>1. q[v] = p[v]
            BY <1>7, <2>2
        <3>2. ASSUME NEW w \in Vertices
              PROVE  q[w] < q[v] <=> p[w] < p[v]
            <4>1. CASE p[w] # k \/ w = u
                BY <1>7, <3>1, <4>1
            <4>2. CASE p[w] = k /\ w # u
                <5>1. q[w] = k + 1
                    BY <1>7, <4>2
                <5>2. p[v] > k => p[v] >= k + m
                    BY <1>3
                <5> QED
                    BY <1>3, <1>4, <3>1, <4>2, <5>1, <5>2
            <4> QED
                BY <4>1, <4>2
        <3>3. {w \in Vertices : q[w] < q[v]} = {w \in Vertices : p[w] < p[v]}
            BY <3>2
        <3> QED
            BY <2>1, <3>1, <3>3
    <2>3. CASE p[v] = k /\ v # u
        <3>1. q[v] = k + 1
            BY <1>7, <2>3
        <3>2. ASSUME NEW w \in Vertices
              PROVE  q[w] < k + 1 <=> (p[w] < k \/ w = u)
            <4>1. CASE w = u
                BY <1>4, <1>7, <4>1
            <4>2. CASE p[w] = k /\ w # u
                BY <1>4, <1>7, <4>2
            <4>3. CASE p[w] # k
                <5>1. q[w] = p[w] /\ p[w] \in Nat /\ p[w] # k + 1
                    BY <1>4, <1>7, <1>8, <4>3
                <5> QED
                    BY <1>4, <4>3, <5>1
            <4> QED
                BY <4>1, <4>2, <4>3
        <3> DEFINE L == {w \in Vertices : p[w] < k}
        <3>3. {w \in Vertices : q[w] < q[v]} = L \cup {u}
            BY <3>1, <3>2
        <3>4. u \notin L /\ IsFiniteSet(L)
            BY <1>4, SetsOfVertices
        <3>5. Cardinality(L \cup {u}) = Cardinality(L) + 1
            <4> HIDE DEF L
            <4> QED
                BY <3>4, FS_AddElement
        <3> QED
            BY <1>3, <3>1, <3>3, <3>5
    <2> QED
        BY <2>2, <2>3
<1> QED
    BY <1>6, <1>9, <1>10 DEF IndexedPartitions

\* Of the two parts of a cell of an equitable partition one is enough.
LEMMA OnePartIsEnough ==
    ASSUME NEW g, NEW p \in IndexedPartitions, NEW u \in Vertices, NEW k, k = p[u],
           Cardinality(Cell(p, k)) > 1, NEW q, q = BrokenOut(p, k, u),
           Accounted(g, p, {}, {})
    PROVE  Accounted(g, q, {k}, {})
<1>1. q \in IndexedPartitions /\ IsSplit(p, q, k, {k + 1}) /\ k \in Nest!Indices(p)
    BY BrokenOutIs, IndicesIs
<1>2. p \in [Vertices -> Vertices] /\ q \in [Vertices -> Vertices]
    BY <1>1 DEF IndexedPartitions
<1>3. PICK K, none : K = {k + 1} /\ none = {}
    OBVIOUS
<1>4. Accounted(g, q, none \cup K, none)
    BY <1>1, <1>2, <1>3, SplitAccounts
<1>5. SUFFICES ASSUME NEW x \in Vertices, NEW y \in Vertices, q[x] = q[y],
                      Same(g, Cell(q, k), x, y)
               PROVE  \A j \in Nest!Indices(q) : Same(g, Cell(q, j), x, y)
    BY DEF Accounted
<1>6. p[x] = p[y]
    <2>1. p[x] = k <=> q[x] \in {k, k + 1}
        BY <1>1, IndicesIs DEF IsSplit
    <2>2. p[y] = k <=> q[y] \in {k, k + 1}
        BY <1>1, IndicesIs DEF IsSplit
    <2> QED
        BY <1>1, <1>5, <2>1, <2>2 DEF IsSplit
<1>7. Same(g, {}, x, y)
    BY DEF Same, SownBy
<1>8. Same(g, Cell(p, k), x, y)
    BY <1>1, <1>6, <1>7 DEF Accounted
<1>9. /\ Cell(p, k) = Cell(q, k + 1) \cup Cell(q, k)
      /\ Cell(q, k + 1) \cap Cell(q, k) = {}
      /\ Cell(q, k + 1) \subseteq Vertices /\ Cell(q, k) \subseteq Vertices
    BY <1>1, IndicesIs DEF IsSplit, Cell
<1>10. Same(g, Cell(q, k + 1), x, y)
    BY <1>5, <1>8, <1>9, SameTogether
<1> QED
    BY <1>3, <1>4, <1>5, <1>7, <1>10 DEF Accounted

-----------------------------------------------------------------------------
\* The first call begins with all cells active.
LEMMA InitRefines == Init => RefineInv
<1> SUFFICES ASSUME Init PROVE RefineInv
    OBVIOUS
<1>1. /\ graph \in Graphs /\ start \in Starts /\ index_containing = start
      /\ active_indices = nontrivial_indices(start) /\ adjacent = {}
      /\ cmp = -1 /\ pc = "active"
    BY DEF Init
<1>2. graph \in SUBSET (Vertices \X Vertices) /\ start \in IndexedPartitions
    BY <1>1, ConstantsAssumption
<1>3. /\ active_indices \in Seq(Vertices)
      /\ Accounted(graph, index_containing, Range(active_indices), {})
    BY <1>1, <1>2, AllActive
<1>4. RefinerShape
    BY <1>1, <1>2, <1>3 DEF RefinerShape, KeepsOrder
<1>5. CoarseSoFar
    BY <1>1 DEF CoarseSoFar, EquitableFiner
<1>6. Recording
    BY <1>1 DEF Recording
<1>7. Progress
    BY <1>1, <1>3 DEF Progress
<1> QED
    BY <1>4, <1>5, <1>6, <1>7, InitSums DEF RefineInv

\* Every second call begins with what its active cells account for.
LEMMA SecondCallRefines ==
    ASSUME RefineInv,
           \/ \E s \in Renamings : CallRenamed(s)
           \/ \E u \in Vertices : CallIndividualized(u)
           \/ \E o \in Others \cup {<<graph, start>>} : CallCompared(o[1], o[2])
    PROVE  RefinerShape' /\ CoarseSoFar' /\ Recording' /\ Progress'
<1>1. RefinerShape
    BY DEF RefineInv
<1>2. /\ graph \in SUBSET (Vertices \X Vertices) /\ start \in IndexedPartitions
      /\ index_containing \in IndexedPartitions
    BY <1>1 DEF RefinerShape
<1>3. ASSUME NEW s \in Renamings, CallRenamed(s)
      PROVE  RefinerShape' /\ CoarseSoFar' /\ Recording' /\ Progress'
    <2>1. PICK g, p : g = Renamed(graph, s) /\ p = RenamedPartition(start, s)
        OBVIOUS
    <2>2. s \in [Vertices -> Vertices] /\ \A u, v \in Vertices : u # v => s[u] # s[v]
        BY ConstantsAssumption
    <2>3. g \in SUBSET (Vertices \X Vertices)
        BY <1>2, <2>1, <2>2 DEF Renamed
    <2>4. p \in IndexedPartitions
        BY <1>2, <2>1, <2>2, RenamedIsIndexed
    <2>5. Refine(g, p, ElementsOf(p), EmptyTrace, nontrivial_indices(p))
        BY <1>3, <2>1 DEF CallRenamed
    <2> QED
        BY <2>3, <2>4, <2>5, AllActive, CallRefines
<1>4. ASSUME NEW u \in Vertices, CallIndividualized(u)
      PROVE  RefinerShape' /\ CoarseSoFar' /\ Recording' /\ Progress'
    <2>1. PICK p, k : p = index_containing /\ k = p[u]
        OBVIOUS
    <2>2. /\ FirstDone /\ Cardinality(Cell(p, k)) > 1
          /\ \E e : Refine(graph, BrokenOut(p, k, u), e, EmptyTrace, <<k>>)
        BY <1>4, <2>1 DEF CallIndividualized, CellSize, BrokenOut
    <2>3. Accounted(graph, p, {}, {})
        <3>1. /\ active_indices = <<>>
              /\ Accounted(graph, index_containing, Range(active_indices), {})
            BY <2>2 DEF RefineInv, Recording, Progress, NewTrace, FirstDone
        <3>2. Range(active_indices) = {}
            BY <3>1 DEF Range
        <3> QED
            BY <2>1, <3>1, <3>2
    <2>4. PICK q : q = BrokenOut(p, k, u)
        OBVIOUS
    <2>5. q \in IndexedPartitions /\ Accounted(graph, q, {k}, {}) /\ k \in Vertices
        BY <1>2, <2>1, <2>2, <2>3, <2>4, BrokenOutIs, OnePartIsEnough DEF IndexedPartitions
    <2>6. <<k>> \in Seq(Vertices) /\ Range(<<k>>) = {k}
        BY <2>5 DEF Range
    <2>7. Accounted(graph, q, Range(<<k>>), {})
        BY <2>5, <2>6
    <2>8. PICK e : Refine(graph, q, e, EmptyTrace, <<k>>)
        BY <2>2, <2>4
    <2> QED
        BY <1>2, <2>5, <2>6, <2>7, <2>8, CallRefines
<1>5. ASSUME NEW o \in Others \cup {<<graph, start>>}, CallCompared(o[1], o[2])
      PROVE  RefinerShape' /\ CoarseSoFar' /\ Recording' /\ Progress'
    <2>1. PICK g, p : g = o[1] /\ p = o[2]
        OBVIOUS
    <2>2. g \in SUBSET (Vertices \X Vertices) /\ p \in IndexedPartitions
        BY <1>2, <2>1, ConstantsAssumption
    <2>3. Refine(g, p, ElementsOf(p), trace, nontrivial_indices(p)) /\ ~ NewTrace'
        BY <1>5, <2>1 DEF CallCompared, NewTrace
    <2> QED
        BY <2>2, <2>3, AllActive, CallRefines
<1> QED
    BY <1>3, <1>4, <1>5

\* RefineInv is inductive.
LEMMA NextRefines == RefineInv /\ [Next]_vars => RefineInv'
<1> SUFFICES ASSUME RefineInv, [Next]_vars PROVE RefineInv'
    OBVIOUS
<1>1. SumsOfAdjacent'
    BY NextSums DEF RefineInv
<1>2. CASE vars' = vars
    <2>1. UNCHANGED <<graph, start, call, index_containing, active_indices, attr_sums,
                      adjacent, cmp, pc>>
        BY <1>2 DEF vars, nestVars, callVars
    <2>2. RefinerShape'
        BY <2>1 DEF RefineInv, RefinerShape
    <2>3. CoarseSoFar'
        BY <2>1 DEF RefineInv, CoarseSoFar, EquitableFiner
    <2>4. Recording'
        BY <2>1 DEF RefineInv, Recording, NewTrace
    <2>5. Progress'
        BY <2>1 DEF RefineInv, Progress, NewTrace, SownWith, EquitableFiner
    <2> QED
        BY <1>1, <2>2, <2>3, <2>4, <2>5 DEF RefineInv
<1>3. CASE Step
    <2>1. RefinerShape' /\ CoarseSoFar' /\ Recording' /\ Progress'
        BY <1>3, EndRefines, SowRefines, SplitRefines, TrivialRefines, NextIndexRefines
           DEF Step
    <2> QED
        BY <1>1, <2>1 DEF RefineInv
<1>4. CASE \/ \E s \in Renamings : CallRenamed(s)
           \/ \E u \in Vertices : CallIndividualized(u)
           \/ \E o \in Others \cup {<<graph, start>>} : CallCompared(o[1], o[2])
    <2>1. RefinerShape' /\ CoarseSoFar' /\ Recording' /\ Progress'
        BY <1>4, SecondCallRefines
    <2> QED
        BY <1>1, <2>1 DEF RefineInv
<1> QED
    BY <1>2, <1>3, <1>4 DEF Next, Ended

\* When no cell is active, every cell is accounted for.
LEMMA EndIsCoarsest == RefineInv => CoarsestEquitable
<1> SUFFICES ASSUME RefineInv, NewTrace, pc = "done"
             PROVE  /\ Equitable(graph, index_containing)
                    /\ \A u, v \in Vertices :
                           start[u] < start[v] => index_containing[u] < index_containing[v]
                    /\ \A q \in IndexedPartitions :
                           Equitable(graph, q) /\ Refines(q, start) => Refines(q, index_containing)
    BY DEF CoarsestEquitable
<1>1. /\ active_indices = <<>>
      /\ Accounted(graph, index_containing, Range(active_indices), {})
    BY DEF RefineInv, Recording, Progress
<1>2. Accounted(graph, index_containing, {}, {})
    <2>1. Range(active_indices) = {}
        BY <1>1 DEF Range
    <2> QED
        BY <1>1, <2>1
<1>3. \A u, v : Same(graph, {}, u, v)
    BY DEF Same, SownBy
<1>4. Equitable(graph, index_containing)
    BY <1>2, <1>3, EquitableIs DEF Accounted
<1>5. \A u, v \in Vertices : start[u] < start[v] => index_containing[u] < index_containing[v]
    BY DEF RefineInv, RefinerShape, KeepsOrder
<1>6. \A q \in IndexedPartitions :
          Equitable(graph, q) /\ Refines(q, start) => Refines(q, index_containing)
    BY DEF RefineInv, CoarseSoFar, EquitableFiner
<1> QED
    BY <1>4, <1>5, <1>6

\* A refinement that records a new trace and returns leaves the coarsest equitable
\* partition that refines the one it was given, in the order of its cells: for any
\* graph and any partition, in whatever order std::sort leaves vertices with equal
\* sums, with all cells active at the start, or only the vertex that was broken out of
\* a cell of an equitable partition; the first part of a cell that was split need not
\* become active.
THEOREM CoarsestEquitableTheorem == Spec => []CoarsestEquitable
BY InitRefines, NextRefines, EndIsCoarsest, PTL DEF Spec

-----------------------------------------------------------------------------
(* Where the vertices of a split cell are *)

\* Every element of the list is in the part that is named after the block of its position.
SplitPlaced(p, P, e, k, s, q) ==
    /\ \A i \in P : q[e[i]] = Block(k, Changes(s, P, k, e), i)
    /\ k \in P /\ Changes(s, P, k, e) \subseteq P
    /\ \A j \in {k} \cup Changes(s, P, k, e) : q[e[j]] = j
    /\ Nest!Indices(q) = Nest!Indices(p) \cup Changes(s, P, k, e)
    /\ \A u, v \in Cell(p, k) : q[u] < q[v] => LessSum(s[u], s[v])
    /\ \A i \in P : q[e[i]] <= i /\ \A j \in P : q[e[i]] <= j /\ j <= i => q[e[j]] = q[e[i]]

\* The positions of a cell.
LEMMA SpanIs ==
    ASSUME NEW k \in Int, NEW m \in Nat
    PROVE  IsFiniteSet(Span(k, m)) /\ Cardinality(Span(k, m)) = m
<1>1. k \in Int /\ k + m - 1 \in Int
    OBVIOUS
<1>2. Cardinality(k .. k + m - 1) = IF k > k + m - 1 THEN 0 ELSE k + m - 1 - k + 1
    BY <1>1, FS_Interval
<1>3. IsFiniteSet(k .. k + m - 1)
    BY <1>1, FS_Interval
<1> QED
    BY <1>2, <1>3 DEF Span

\* ListsAll, for all vertices of the cell.
LEMMA AllListed ==
    ASSUME NEW P, IsFiniteSet(P), NEW C, IsFiniteSet(C), Cardinality(P) = Cardinality(C),
           NEW e \in [P -> C], \A i, j \in P : i # j => e[i] # e[j]
    PROVE  \A u \in C : \E i \in P : e[i] = u
BY ListsAll

\* Split, for a cell whose elements are listed in the order of their sums.
LEMMA SplitPlacesIn ==
    ASSUME NEW p \in [Vertices -> Vertices], NEW k \in Nat, NEW m \in Nat, NEW C,
           IsCellOf(p, k, m, C),
           NEW s, NEW P, P = Span(k, m), NEW e, IsSortedBy(s, P, C, e),
           \A u \in C : s[u] \in [1 .. 3 -> Int],
           NEW q, q = Split(p, P, e, k, Changes(s, P, k, e))
    PROVE  SplitPlaced(p, P, e, k, s, q)
<1> DEFINE new == Changes(s, P, k, e)
           B(a) == Block(k, new, a)
<1> HIDE DEF new, B
<1>1. C \subseteq Vertices /\ m = Cardinality(C) /\ C = Cell(p, k)
    BY DEF IsCellOf, Cell
<1>2. m > 0 /\ m \in Int /\ k \in Int /\ k + m <= N /\ N \in Nat
    <2>1. m > 0 /\ k + m <= N
        BY DEF IsCellOf
    <2> QED
        BY <2>1, VerticesFinite
<1>3. P = k .. k + m - 1 /\ IsFiniteSet(C)
    BY <1>1, SetsOfVertices DEF Span
<1>4. IsFiniteSet(P) /\ Cardinality(P) = m
    BY <1>2, SpanIs
<1>5. /\ e \in [P -> C] /\ \A i, j \in P : i # j => e[i] # e[j]
      /\ \A i, j \in P : i < j => ~ LessSum(s[e[j]], s[e[i]])
      /\ \A u \in C : s[u] \in [1 .. 3 -> Int]
    BY <1>1 DEF IsSortedBy
<1>6. \A u \in C : \E i \in P : e[i] = u
    <2>1. e \in [P -> C] /\ \A i, j \in P : i # j => e[i] # e[j]
        BY <1>5
    <2>2. IsFiniteSet(C) /\ IsFiniteSet(P) /\ Cardinality(P) = Cardinality(C)
        BY <1>1, <1>3, <1>4
    <2> QED
        BY <2>1, <2>2, AllListed
<1>7. \A i \in P : PlaceOf(P, e, e[i]) = i
    BY <1>5 DEF PlaceOf
<1>8. /\ new \subseteq P /\ k \in P /\ k \notin new
      /\ \A j \in new : j \in Int /\ k < j /\ j < k + m
    BY <1>2, <1>3 DEF new, Changes
<1>9. ASSUME NEW a \in P
      PROVE  /\ B(a) \in {k} \cup new /\ B(a) \in P /\ B(a) \in Int /\ k <= B(a) /\ B(a) <= a
             /\ a \in Int /\ a < k + m
             /\ \A b \in {k} \cup new : b <= a => b <= B(a)
    <2>1. a \in Int /\ k <= a /\ k \in Int /\ a < k + m
        BY <1>2, <1>3
    <2>2. new \subseteq Int /\ \A b \in new : k < b
        BY <1>8
    <2>3. /\ B(a) \in {k} \cup new /\ B(a) \in Int /\ k <= B(a) /\ B(a) <= a
          /\ \A b \in {k} \cup new : b <= a => b <= B(a)
        BY <2>1, <2>2, BlockIs DEF B
    <2> QED
        BY <1>8, <2>1, <2>3
<1>10. \A u \in Vertices : q[u] = IF p[u] # k THEN p[u] ELSE B(PlaceOf(P, e, u))
    BY DEF Split, B, new
<1>11. \A u \in C : u \in Vertices /\ p[u] = k
    BY <1>1 DEF Cell
<1>12. \A i \in P : q[e[i]] = B(i)
    BY <1>5, <1>7, <1>10, <1>11
<1>13. \A j \in {k} \cup new : j \in P /\ B(j) = j
    <2> SUFFICES ASSUME NEW j \in {k} \cup new PROVE j \in P /\ B(j) = j
        OBVIOUS
    <2>1. j \in P
        BY <1>8
    <2>2. B(j) \in Int /\ j \in Int /\ B(j) <= j
        BY <1>9, <2>1
    <2>3. j <= j => j <= B(j)
        BY <1>9, <2>1
    <2> QED
        BY <2>1, <2>2, <2>3
<1>14. \A j \in {k} \cup new : q[e[j]] = j
    BY <1>12, <1>13
<1>15. Nest!Indices(q) = Nest!Indices(p) \cup new
    <2>1. ASSUME NEW u \in Vertices PROVE q[u] \in Nest!Indices(p) \cup new
        <3>1. CASE p[u] # k
            BY <1>10, <3>1, IndicesIs
        <3>2. CASE p[u] = k
            <4>1. u \in C
                BY <1>1, <3>2 DEF Cell
            <4>2. PICK i \in P : e[i] = u
                BY <1>6, <4>1
            <4>3. q[u] \in {k} \cup new
                BY <1>9, <1>12, <4>2
            <4>4. k \in Nest!Indices(p)
                BY <2>1, <3>2, IndicesIs
            <4> QED
                BY <4>3, <4>4
        <3> QED
            BY <3>1, <3>2
    <2>2. ASSUME NEW j \in {k} \cup new PROVE \E u \in Vertices : q[u] = j
        <3>1. e[j] \in Vertices /\ q[e[j]] = j
            BY <1>1, <1>5, <1>13, <1>14
        <3> QED
            BY <3>1
    <2>3. ASSUME NEW u \in Vertices PROVE \E v \in Vertices : q[v] = p[u]
        <3>1. CASE p[u] # k
            BY <1>10, <3>1
        <3>2. CASE p[u] = k
            BY <2>2, <3>2
        <3> QED
            BY <3>1, <3>2
    <2>4. Nest!Indices(q) = {q[u] : u \in Vertices} /\ Nest!Indices(p) = {p[u] : u \in Vertices}
        BY IndicesIs
    <2> QED
        BY <2>1, <2>2, <2>3, <2>4
<1>16. \A u, v \in C : q[u] = q[v] <=> s[u] = s[v]
    BY SplitInto
<1>17. ASSUME NEW u \in C, NEW v \in C, q[u] < q[v] PROVE LessSum(s[u], s[v])
    <2>1. PICK i \in P, j \in P : e[i] = u /\ e[j] = v
        BY <1>6
    <2>2. B(i) < B(j)
        BY <1>12, <1>17, <2>1
    <2>3. /\ B(i) \in Int /\ B(j) \in Int /\ i \in Int /\ j \in Int
          /\ B(j) \in {k} \cup new /\ B(j) <= j
        BY <1>9
    <2>4. B(j) <= i => B(j) <= B(i)
        BY <1>9, <2>3
    <2>5. i < j
        BY <2>2, <2>3, <2>4
    <2>6. ~ LessSum(s[v], s[u])
        BY <1>5, <2>1, <2>5
    <2>7. s[u] # s[v]
        <3>1. q[u] # q[v]
            BY <1>12, <2>1, <2>2, <2>3
        <3> QED
            BY <1>16, <3>1
    <2>8. s[u] \in [1 .. 3 -> Int] /\ s[v] \in [1 .. 3 -> Int]
        BY <1>5
    <2> QED
        BY <2>6, <2>7, <2>8, SumsCompare
<1>18. ASSUME NEW i \in P
       PROVE  q[e[i]] <= i /\ \A j \in P : q[e[i]] <= j /\ j <= i => q[e[j]] = q[e[i]]
    <2>1. q[e[i]] <= i
        BY <1>9, <1>12
    <2>2. ASSUME NEW j \in P, B(i) <= j, j <= i PROVE B(j) = B(i)
        <3>1. B(i) \in {k} \cup new /\ B(i) \in Int
            BY <1>9
        <3>2. B(i) <= B(j)
            BY <1>9, <2>2, <3>1
        <3>3. B(j) \in {k} \cup new /\ B(j) \in Int /\ B(j) <= j /\ j \in Int /\ i \in Int
            BY <1>9
        <3>4. B(j) <= i
            BY <2>2, <3>3
        <3>5. B(j) <= B(i)
            BY <1>9, <3>3, <3>4
        <3> QED
            BY <3>1, <3>2, <3>3, <3>5
    <2> QED
        BY <1>12, <2>1, <2>2
<1> QED
    BY <1>1, <1>8, <1>12, <1>14, <1>15, <1>17, <1>18 DEF SplitPlaced, B, new

\* SplitPlacesIn, for the cell at an index of a partition.
LEMMA SplitPlaces ==
    ASSUME NEW p \in IndexedPartitions, NEW k \in Nest!Indices(p), NEW s, NEW e, NEW P,
           P = k .. k + Cardinality(Cell(p, k)) - 1,
           IsSortedBy(s, P, Cell(p, k), e),
           \A u \in Cell(p, k) : s[u] \in [1 .. 3 -> Int],
           NEW q, q = Split(p, P, e, k, Changes(s, P, k, e))
    PROVE  SplitPlaced(p, P, e, k, s, q)
<1>1. PICK m, C : C = Cell(p, k) /\ m = Cardinality(C)
    OBVIOUS
<1>2. p \in [Vertices -> Vertices] /\ m \in Nat /\ m > 0 /\ k + m <= N /\ k \in Vertices
    BY <1>1, CellsFit
<1>3. k \in Nat
    BY <1>2 DEF Vertices
<1>4. IsCellOf(p, k, m, C)
    <2>1. /\ k = Cardinality({w \in Vertices : p[w] < k})
          /\ \A u \in Vertices : p[u] > k => p[u] >= k + m
        BY <1>1, CellsFit
    <2> QED
        BY <1>1, <1>2, <2>1 DEF IsCellOf
<1>5. P = Span(k, m)
    BY <1>1 DEF Span
<1> QED
    BY <1>1, <1>2, <1>3, <1>4, <1>5, SplitPlacesIn

-----------------------------------------------------------------------------
(* The elements, cell by cell *)

\* Every vertex is at a position of its cell.
InPlace(e, p) ==
    /\ e \in [Vertices -> Vertices]
    /\ \A i, j \in Vertices : i # j => e[i] # e[j]
    /\ \A i \in Vertices : p[e[i]] <= i /\ i < p[e[i]] + Cardinality(Cell(p, p[e[i]]))

\* Vertices of a set that come before another.
LEMMA RankGrows ==
    ASSUME NEW K, K \subseteq Vertices, NEW x \in K, NEW y \in K, Rank(K, x) < Rank(K, y)
    PROVE  x < y
<1>1. x \in Nat /\ y \in Nat
    BY DEF Vertices
<1>2. SUFFICES ASSUME y <= x PROVE FALSE
    BY <1>1
<1>3. {j \in K : j < y} \subseteq {j \in K : j < x}
    <2>1. \A j \in K : j \in Nat
        BY DEF Vertices
    <2>2. \A a, b, c \in Nat : a < b /\ b <= c => a < c
        OBVIOUS
    <2>3. \A j \in K : j < y => j < x
        BY <1>1, <1>2, <2>1, <2>2
    <2> QED
        BY <2>3
<1>4. /\ IsFiniteSet({j \in K : j < x}) /\ Cardinality({j \in K : j < x}) \in Nat
      /\ Cardinality({j \in K : j < y}) \in Nat
    BY SetsOfVertices
<1>5. Cardinality({j \in K : j < y}) <= Cardinality({j \in K : j < x})
    BY <1>3, <1>4, FS_Subset
<1> QED
    BY <1>4, <1>5 DEF Rank

\* The order of the list that the binding makes of a partition.
SortedElements(e, p) ==
    \A i, j \in Vertices : i < j =>
        p[e[i]] < p[e[j]] \/ (p[e[i]] = p[e[j]] /\ e[i] < e[j])

\* The vertices can be listed cell by cell.
LEMMA ElementsExist ==
    ASSUME NEW p \in IndexedPartitions
    PROVE  \E e \in [Vertices -> Vertices] : SortedElements(e, p)
<1> DEFINE at(v) == p[v] + Rank(Cell(p, p[v]), v)
<1>1. p \in [Vertices -> Vertices] /\ Vertices \subseteq Nat
    BY DEF IndexedPartitions, Vertices
<1>2. ASSUME NEW v \in Vertices
      PROVE  /\ Cell(p, p[v]) \subseteq Vertices /\ v \in Cell(p, p[v])
             /\ Rank(Cell(p, p[v]), v) \in Nat /\ p[v] \in Nat /\ at(v) \in Vertices
             /\ \A u \in Vertices : p[u] > p[v] => p[u] > at(v)
    <2>1. PICK k, C, m, r : k = p[v] /\ C = Cell(p, k) /\ m = Cardinality(C) /\ r = Rank(C, v)
        OBVIOUS
    <2>2. C \subseteq Vertices /\ v \in C
        BY <2>1 DEF Cell
    <2>3. k \in Nest!Indices(p) /\ k \in Nat
        BY <1>1, <2>1, IndicesIs
    <2>4. m \in Nat /\ k + m <= N /\ \A u \in Vertices : p[u] > k => p[u] >= k + m
        BY <2>1, <2>3, CellsFit
    <2>5. r \in 0 .. m - 1
        <3>1. C \subseteq Nat /\ IsFiniteSet(C)
            BY <1>1, <2>2, SetsOfVertices
        <3> QED
            BY <2>1, <2>2, <3>1, RanksAreAll
    <2>6. at(v) = k + r
        BY <2>1
    <2>7. r \in Nat /\ k + r \in Nat /\ k + r <= N - 1 /\ N \in Nat
        BY <2>3, <2>4, <2>5, VerticesFinite
    <2>8. k + r \in Vertices
        BY <2>7 DEF Vertices
    <2>9. ASSUME NEW u \in Vertices, p[u] > k PROVE p[u] > k + r
        <3>1. p[u] \in Nat /\ p[u] >= k + m
            BY <1>1, <2>4, <2>9
        <3> QED
            BY <2>3, <2>4, <2>5, <3>1
    <2> QED
        BY <2>1, <2>2, <2>3, <2>6, <2>7, <2>8, <2>9
<1>3. ASSUME NEW u \in Vertices, NEW v \in Vertices, p[u] < p[v]
      PROVE  at(u) < at(v)
    <2>1. p[v] > at(u)
        BY <1>2, <1>3
    <2>2. at(u) \in Nat /\ p[v] \in Nat /\ Rank(Cell(p, p[v]), v) \in Nat
        BY <1>1, <1>2
    <2> QED
        BY <2>1, <2>2
<1>4. ASSUME NEW u \in Vertices, NEW v \in Vertices, p[u] = p[v], at(u) = at(v)
      PROVE  u = v
    <2>1. Rank(Cell(p, p[u]), u) = Rank(Cell(p, p[u]), v)
        <3>1. PICK a, b, c : a = p[u] /\ b = Rank(Cell(p, p[u]), u) /\ c = Rank(Cell(p, p[u]), v)
            OBVIOUS
        <3>2. a \in Nat /\ b \in Nat /\ c \in Nat
            BY <1>2, <1>4, <3>1
        <3>3. a + b = a + c
            BY <1>4, <3>1
        <3> QED
            BY <3>1, <3>2, <3>3
    <2>2. PICK C : C = Cell(p, p[u])
        OBVIOUS
    <2>3. C \subseteq Nat /\ IsFiniteSet(C) /\ u \in C /\ v \in C
        BY <1>1, <1>2, <1>4, <2>2, SetsOfVertices
    <2>4. Rank(C, u) = Rank(C, v)
        BY <2>1, <2>2
    <2> QED
        BY <2>3, <2>4, RanksAreAll
<1>5. ASSUME NEW u \in Vertices, NEW v \in Vertices, at(u) = at(v)
      PROVE  u = v
    <2>1. ~ (p[u] < p[v]) /\ ~ (p[v] < p[u])
        <3>1. at(u) \in Nat /\ at(v) \in Nat
            BY <1>1, <1>2
        <3> QED
            BY <1>3, <1>5, <3>1
    <2>2. p[u] \in Nat /\ p[v] \in Nat
        BY <1>2
    <2>3. p[u] = p[v]
        BY <2>1, <2>2
    <2> QED
        BY <1>4, <1>5, <2>3
<1> DEFINE f == [v \in Vertices |-> at(v)]
<1>6. f \in [Vertices -> Vertices] /\ \A u, v \in Vertices : u # v => f[u] # f[v]
    BY <1>2, <1>5
<1>7. \A i \in Vertices : \E v \in Vertices : f[v] = i
    <2> HIDE DEF f
    <2> QED
        BY <1>6, VerticesFinite, AllListed
<1>8. \A i \in Vertices : \E v \in Vertices : at(v) = i
    BY <1>7
<1>9. PICK e \in [Vertices -> Vertices] : \A i \in Vertices : at(e[i]) = i
    <2> HIDE DEF at
    <2>1. [i \in Vertices |-> CHOOSE v \in Vertices : at(v) = i] \in [Vertices -> Vertices]
        BY <1>8
    <2>2. \A i \in Vertices :
              at([j \in Vertices |-> CHOOSE v \in Vertices : at(v) = j][i]) = i
        BY <1>8
    <2> QED
        BY <2>1, <2>2
<1>10. ASSUME NEW i \in Vertices, NEW j \in Vertices, i < j
       PROVE  p[e[i]] < p[e[j]] \/ (p[e[i]] = p[e[j]] /\ e[i] < e[j])
    <2>1. PICK u \in Vertices, v \in Vertices : u = e[i] /\ v = e[j] /\ at(u) = i /\ at(v) = j
        BY <1>9
    <2>2. p[u] \in Nat /\ p[v] \in Nat /\ i \in Nat /\ j \in Nat
        BY <1>1, <1>2
    <2>3. ~ (p[v] < p[u])
        <3>1. p[v] < p[u] => at(v) < at(u)
            BY <1>3
        <3> QED
            BY <1>10, <2>1, <2>2, <3>1
    <2>4. ASSUME p[u] = p[v] PROVE u < v
        <3>1. PICK C, a, b, c : /\ C = Cell(p, p[u]) /\ a = p[u]
                                /\ b = Rank(C, u) /\ c = Rank(C, v)
            OBVIOUS
        <3>2. a \in Nat /\ b \in Nat /\ c \in Nat /\ C \subseteq Vertices /\ u \in C /\ v \in C
            BY <1>2, <2>4, <3>1
        <3>3. a + b < a + c
            BY <1>10, <2>1, <2>4, <3>1
        <3>4. b < c
            BY <3>2, <3>3
        <3> QED
            BY <3>1, <3>2, <3>4, RankGrows
    <2> QED
        BY <2>1, <2>2, <2>3, <2>4
<1> QED
    BY <1>9, <1>10 DEF SortedElements

\* A sorted list has every vertex in place.
LEMMA ElementsInPlace ==
    ASSUME NEW p \in IndexedPartitions
    PROVE  InPlace(ElementsOf(p), p)
<1>1. PICK e : e = ElementsOf(p)
    OBVIOUS
<1>2. e \in [Vertices -> Vertices] /\ SortedElements(e, p)
    <2>1. e = CHOOSE x \in [Vertices -> Vertices] : SortedElements(x, p)
        BY <1>1 DEF ElementsOf, SortedElements
    <2> QED
        BY <2>1, ElementsExist
<1>3. p \in [Vertices -> Vertices] /\ Vertices \subseteq Nat
    BY DEF IndexedPartitions, Vertices
<1>4. ASSUME NEW i \in Vertices, NEW j \in Vertices, i # j
      PROVE  e[i] # e[j]
    <2>1. i < j \/ j < i
        BY <1>3, <1>4
    <2>2. \A x \in Nat : ~ (x < x)
        OBVIOUS
    <2>3. e[i] \in Nat /\ e[j] \in Nat /\ p[e[i]] \in Nat /\ p[e[j]] \in Nat
        BY <1>2, <1>3
    <2> QED
        BY <1>2, <2>1, <2>2, <2>3 DEF SortedElements
<1>5. ASSUME NEW i \in Vertices
      PROVE  p[e[i]] <= i /\ i < p[e[i]] + Cardinality(Cell(p, p[e[i]]))
    <2>1. PICK k : k = p[e[i]]
        OBVIOUS
    <2>2. PICK C, m, L : /\ C = Cell(p, k) /\ m = Cardinality(C)
                         /\ L = {w \in Vertices : p[w] < k}
        OBVIOUS
    <2>3. /\ k \in Nest!Indices(p) /\ k \in Nat /\ i \in Nat
        BY <1>2, <1>3, <2>1, IndicesIs
    <2>4. m \in Nat /\ k = Cardinality(L) /\ C \subseteq Vertices /\ L \subseteq Vertices
        BY <2>2, <2>3, CellsFit
    <2>5. IsFiniteSet(L) /\ IsFiniteSet(C) /\ IsFiniteSet(L \cup C)
        BY <2>4, SetsOfVertices
    <2>6. ASSUME NEW j \in Vertices
          PROVE  /\ j <= i => p[e[j]] <= k
                 /\ i <= j => k <= p[e[j]]
                 /\ p[e[j]] \in Nat
        <3>1. p[e[j]] \in Nat /\ j \in Nat
            BY <1>2, <1>3
        <3>2. i < j => k <= p[e[j]]
            BY <1>2, <2>1, <2>3, <3>1 DEF SortedElements
        <3>3. j < i => p[e[j]] <= k
            BY <1>2, <2>1, <2>3, <3>1 DEF SortedElements
        <3>4. i = j => p[e[j]] = k
            BY <2>1
        <3> QED
            BY <2>3, <3>1, <3>2, <3>3, <3>4
    <2>7. \A w \in Vertices : \E j \in Vertices : e[j] = w
        BY <1>2, <1>4, VerticesFinite, AllListed
    <2>8. IsFiniteSet(0 .. i - 1) /\ Cardinality(0 .. i - 1) = i
        <3>1. IsFiniteSet(Span(0, i)) /\ Cardinality(Span(0, i)) = i
            BY <2>3, SpanIs
        <3>2. Span(0, i) = 0 .. i - 1
            BY <2>3 DEF Span
        <3> QED
            BY <3>1, <3>2
    <2>9. IsFiniteSet(0 .. i) /\ Cardinality(0 .. i) = i + 1
        <3>1. IsFiniteSet(Span(0, i + 1)) /\ Cardinality(Span(0, i + 1)) = i + 1
            BY <2>3, SpanIs
        <3>2. Span(0, i + 1) = 0 .. i
            BY <2>3 DEF Span
        <3> QED
            BY <3>1, <3>2
    <2>10. 0 .. i \subseteq Vertices
        BY <2>3, VerticesFinite DEF Vertices
    <2>11. k <= i
        <3> DEFINE T == {e[j] : j \in 0 .. i - 1}
                   back == [w \in L |-> CHOOSE j \in Vertices : e[j] = w]
        <3>1. \A w \in L : back[w] \in Vertices /\ e[back[w]] = w
            BY <2>2, <2>7
        <3>2. \A w \in L : back[w] \in 0 .. i - 1
            <4> SUFFICES ASSUME NEW w \in L PROVE back[w] \in 0 .. i - 1
                OBVIOUS
            <4>1. PICK j \in Vertices : j = back[w] /\ e[j] = w
                BY <3>1
            <4>2. p[e[j]] < k
                BY <2>2, <4>1
            <4>3. ~ (i <= j)
                BY <2>3, <2>6, <4>2
            <4>4. j \in Nat
                BY <1>3
            <4>5. j \in 0 .. i - 1
                BY <2>3, <4>3, <4>4
            <4> QED
                BY <4>1, <4>5
        <3>3. \A w, x \in L : back[w] = back[x] => w = x
            BY <3>1
        <3>4. back \in [L -> 0 .. i - 1]
            BY <3>2
        <3> HIDE DEF back
        <3>5. back \in Injection(L, 0 .. i - 1)
            BY <3>3, <3>4 DEF Injection, IsInjective
        <3>6. Cardinality(L) <= Cardinality(0 .. i - 1)
            BY <2>5, <2>8, <3>5, FS_Injection
        <3> QED
            BY <2>4, <2>8, <3>6
    <2>12. i < k + m
        <3> DEFINE f == [j \in 0 .. i |-> e[j]]
        <3>1. \A j \in 0 .. i : e[j] \in L \cup C
            <4> SUFFICES ASSUME NEW j \in 0 .. i PROVE e[j] \in L \cup C
                OBVIOUS
            <4>1. j \in Vertices /\ j <= i
                BY <2>10
            <4>2. p[e[j]] <= k /\ p[e[j]] \in Nat /\ e[j] \in Vertices
                BY <1>2, <2>6, <4>1
            <4>3. p[e[j]] < k \/ p[e[j]] = k
                BY <2>3, <4>2
            <4> QED
                BY <2>2, <4>2, <4>3 DEF Cell
        <3>2. f \in Injection(0 .. i, L \cup C)
            BY <1>4, <2>10, <3>1 DEF Injection, IsInjective
        <3> HIDE DEF f
        <3>3. Cardinality(0 .. i) <= Cardinality(L \cup C)
            BY <2>5, <2>9, <3>2, FS_Injection
        <3>4. Cardinality(L \cup C) = Cardinality(L) + Cardinality(C) - Cardinality(L \cap C)
            BY <2>5, FS_Union
        <3>5. Cardinality(L \cap C) \in Nat
            BY <2>4, SetsOfVertices
        <3>6. PICK a, b, c, d : /\ a = Cardinality(0 .. i) /\ b = Cardinality(L \cup C)
                                /\ c = Cardinality(L \cap C) /\ d = Cardinality(L)
            OBVIOUS
        <3>7. /\ a = i + 1 /\ a <= b /\ b = d + m - c /\ c \in Nat /\ d = k /\ m \in Nat
              /\ i \in Nat /\ k \in Nat
            BY <2>2, <2>3, <2>4, <2>9, <3>3, <3>4, <3>5, <3>6
        <3> QED
            BY <3>7
    <2> QED
        BY <2>1, <2>2, <2>11, <2>12
<1> QED
    BY <1>1, <1>2, <1>4, <1>5 DEF InPlace

\* The positions of a block.
LEMMA SpanHas ==
    ASSUME NEW k \in Nat, NEW m \in Nat
    PROVE  \A i \in Nat : i \in Span(k, m) <=> k <= i /\ i < k + m
BY DEF Span

\* Every vertex has a position.
LEMMA EveryPlace ==
    ASSUME NEW e, NEW p, InPlace(e, p)
    PROVE  \A u \in Vertices : \E j \in Vertices : e[j] = u
<1>1. e \in [Vertices -> Vertices] /\ \A i, j \in Vertices : i # j => e[i] # e[j]
    BY DEF InPlace
<1> QED
    BY <1>1, VerticesFinite, AllListed

\* The positions of a cell hold its vertices.
LEMMA PlacesOfCell ==
    ASSUME NEW p \in IndexedPartitions, NEW e, InPlace(e, p), NEW k \in Nest!Indices(p),
           NEW i \in Vertices
    PROVE  (k <= i /\ i < k + Cardinality(Cell(p, k))) <=> p[e[i]] = k
<1>1. PICK m, x, y : /\ m = Cardinality(Cell(p, k)) /\ x = p[e[i]]
                     /\ y = Cardinality(Cell(p, x))
    OBVIOUS
<1>2. e \in [Vertices -> Vertices] /\ p \in [Vertices -> Vertices] /\ Vertices \subseteq Nat
    BY DEF InPlace, IndexedPartitions, Vertices
<1>3. x \in Nest!Indices(p)
    BY <1>1, <1>2, IndicesIs
<1>4. k \in Nat /\ x \in Nat /\ i \in Nat /\ m \in Nat /\ y \in Nat
    BY <1>1, <1>2, <1>3, CellsFit
<1>5. x <= i /\ i < x + y
    BY <1>1 DEF InPlace
<1>6. PICK v \in Vertices : p[v] = k
    BY IndicesIs
<1>7. k > x => k >= x + y
    BY <1>1, <1>3, <1>6, CellsFit
<1>8. x > k => x >= k + m
    BY <1>1, <1>2, CellsFit
<1>9. (k <= i /\ i < k + m) <=> x = k
    <2>1. CASE x = k
        BY <1>1, <1>5, <2>1
    <2>2. CASE x # k
        BY <1>4, <1>5, <1>7, <1>8, <2>2
    <2> QED
        BY <2>1, <2>2
<1> QED
    BY <1>1, <1>9

\* Breaking a vertex out exchanges it with the first one of its cell.
LEMMA PlaceInCell ==
    ASSUME NEW p \in IndexedPartitions, NEW e, InPlace(e, p), NEW u \in Vertices,
           NEW k, k = p[u], NEW m, m = Cardinality(Cell(p, k))
    PROVE  \E j \in k .. k + m - 1 : e[j] = u
<1>1. /\ e \in [Vertices -> Vertices] /\ p \in [Vertices -> Vertices] /\ Vertices \subseteq Nat
      /\ \A j, l \in Vertices : j # l => e[j] # e[l]
    BY DEF InPlace, IndexedPartitions, Vertices
<1>2. k \in Nest!Indices(p) /\ Cell(p, k) \subseteq Vertices /\ u \in Cell(p, k)
    BY IndicesIs DEF Cell
<1>3. k \in Vertices /\ k \in Nat /\ m \in Nat /\ k + m <= N /\ N \in Nat
    BY <1>1, <1>2, CellsFit, VerticesFinite
<1>4. PICK j \in Vertices : e[j] = u
    BY EveryPlace
<1>5. k <= j /\ j < k + m /\ j \in Nat
    BY <1>1, <1>2, <1>4, PlacesOfCell
<1>6. j \in k .. k + m - 1
    BY <1>3, <1>5
<1> QED
    BY <1>4, <1>6

\* Breaking a vertex out moves it to the first position of its cell.
LEMMA BrokenInPlace ==
    ASSUME NEW p \in IndexedPartitions, NEW e, InPlace(e, p), NEW u \in Vertices,
           NEW k, k = p[u], NEW m, m = Cardinality(Cell(p, k)), m > 1,
           NEW q, q = BrokenOut(p, k, u),
           NEW i \in k .. k + m - 1, e[i] = u
    PROVE  InPlace([e EXCEPT ![k] = u, ![i] = e[k]], q)
<1>1. /\ e \in [Vertices -> Vertices] /\ p \in [Vertices -> Vertices] /\ Vertices \subseteq Nat
      /\ \A j, l \in Vertices : j # l => e[j] # e[l]
    BY DEF InPlace, IndexedPartitions, Vertices
<1>2. k \in Nest!Indices(p) /\ Cell(p, k) \subseteq Vertices /\ u \in Cell(p, k)
    BY IndicesIs DEF Cell
<1>3. k \in Vertices /\ k \in Nat /\ m \in Nat /\ k + m <= N /\ N \in Nat
    BY <1>1, <1>2, CellsFit, VerticesFinite
<1>4. i \in k .. k + m - 1 /\ i \in Vertices /\ e[i] = u
    BY <1>3 DEF Vertices
<1>5. PICK f : f = [e EXCEPT ![k] = u, ![i] = e[k]]
    OBVIOUS
<1>6. /\ f \in [Vertices -> Vertices] /\ f[k] = u /\ f[i] = e[k]
      /\ \A j \in Vertices : j # k /\ j # i => f[j] = e[j]
    <2>1. f \in [Vertices -> Vertices]
        BY <1>1, <1>3, <1>5
    <2>2. f[i] = e[k]
        BY <1>1, <1>4, <1>5
    <2>3. f[k] = u
        BY <1>1, <1>3, <1>4, <1>5
    <2>4. \A j \in Vertices : j # k /\ j # i => f[j] = e[j]
        BY <1>1, <1>5
    <2> QED
        BY <2>1, <2>2, <2>3, <2>4
<1>7. \A j, l \in Vertices : j # l => f[j] # f[l]
    BY <1>1, <1>3, <1>4, <1>6
<1>8. /\ q \in IndexedPartitions /\ IsSplit(p, q, k, {k + 1})
      /\ q[u] = k
      /\ \A v \in Vertices : p[v] = k /\ v # u => q[v] = k + 1
      /\ \A v \in Vertices : p[v] # k => q[v] = p[v]
    <2>1. q \in IndexedPartitions /\ IsSplit(p, q, k, {k + 1})
        BY BrokenOutIs
    <2> QED
        BY <2>1 DEF BrokenOut
<1>9. \A v \in Vertices : p[v] # k + 1
    BY <1>8, IndicesIs DEF IsSplit
<1>10. Cell(q, k + 1) = Cell(p, k) \ {u}
    <2>1. \A v \in Vertices : q[v] = k + 1 <=> (p[v] = k /\ v # u)
        BY <1>3, <1>8, <1>9
    <2> QED
        BY <2>1 DEF Cell
<1>11. Cardinality(Cell(q, k + 1)) = m - 1
    BY <1>2, <1>10, SetsOfVertices, FS_RemoveElement
<1>12. u \in Cell(q, k) /\ Cardinality(Cell(q, k)) \in Nat /\ Cardinality(Cell(q, k)) > 0
    <2>1. u \in Cell(q, k) /\ k \in Nest!Indices(q)
        BY <1>8, IndicesIs DEF Cell
    <2> QED
        BY <1>8, <2>1, CellsFit
<1>13. ASSUME NEW j \in Vertices
       PROVE  q[f[j]] <= j /\ j < q[f[j]] + Cardinality(Cell(q, q[f[j]]))
    <2>1. CASE j = k
        BY <1>3, <1>6, <1>8, <1>12, <2>1
    <2>2. CASE j # k /\ k <= j /\ j < k + m
        <3>1. f[j] # u /\ f[j] \in Vertices
            BY <1>3, <1>6, <1>7, <2>2
        <3>2. p[f[j]] = k
            <4>1. p[e[j]] = k
                BY <1>2, <2>2, PlacesOfCell
            <4>2. p[e[k]] = k
                <5>1. k <= k /\ k < k + Cardinality(Cell(p, k))
                    BY <1>3
                <5> QED
                    BY <1>2, <1>3, <5>1, PlacesOfCell
            <4> QED
                BY <1>6, <2>2, <4>1, <4>2
        <3>3. q[f[j]] = k + 1
            BY <1>8, <3>1, <3>2
        <3>4. j \in Nat
            BY <1>1
        <3>5. k + 1 <= j /\ j < k + 1 + (m - 1)
            BY <1>3, <2>2, <3>4
        <3> QED
            BY <1>11, <3>3, <3>5
    <2>3. CASE ~ (k <= j /\ j < k + m)
        <3>1. p[e[j]] # k
            BY <1>2, <2>3, PlacesOfCell
        <3>2. j # k /\ j # i
            BY <1>3, <1>4, <2>3
        <3>3. f[j] = e[j] /\ q[e[j]] = p[e[j]]
            BY <1>1, <1>6, <1>8, <3>1, <3>2
        <3>4. PICK x : x = p[e[j]]
            OBVIOUS
        <3>5. Cell(q, x) = Cell(p, x)
            <4>1. x # k /\ x # k + 1
                BY <1>1, <1>9, <3>1, <3>4
            <4>2. \A v \in Vertices : q[v] = x <=> p[v] = x
                BY <1>8, <4>1
            <4> QED
                BY <4>2 DEF Cell
        <3>6. x <= j /\ j < x + Cardinality(Cell(p, x))
            BY <3>4 DEF InPlace
        <3> QED
            BY <3>3, <3>4, <3>5, <3>6
    <2> QED
        BY <2>1, <2>2, <2>3
<1> QED
    BY <1>5, <1>6, <1>7, <1>13 DEF InPlace


\* The list e, at its positions, in the place of a part of d.
Placed(d, P, e) == [i \in Vertices |-> IF i \in P THEN e[i] ELSE d[i]]

\* q is p with the cell at k, listed by e, split where the sums change.
SplitOf(p, k, s, P, e, q) ==
    /\ P = k .. k + Cardinality(Cell(p, k)) - 1 /\ P \subseteq Vertices
    /\ IsSortedBy(s, P, Cell(p, k), e)
    /\ q \in IndexedPartitions /\ IsSplit(p, q, k, Changes(s, P, k, e))
    /\ SplitPlaced(p, P, e, k, s, q)

\* Sorting and splitting a cell keeps every vertex in place.
LEMMA SplitInPlace ==
    ASSUME NEW p \in IndexedPartitions, NEW k \in Nest!Indices(p), NEW s, NEW e, NEW P, NEW q,
           SplitOf(p, k, s, P, e, q), NEW d, InPlace(d, p)
    PROVE  InPlace(Placed(d, P, e), q)
<1>0. PICK f : f = Placed(d, P, e)
    OBVIOUS
<1>10. /\ P = k .. k + Cardinality(Cell(p, k)) - 1 /\ P \subseteq Vertices
      /\ IsSortedBy(s, P, Cell(p, k), e)
      /\ q \in IndexedPartitions /\ IsSplit(p, q, k, Changes(s, P, k, e))
      /\ SplitPlaced(p, P, e, k, s, q)
    BY DEF SplitOf
<1>1. PICK m, C : C = Cell(p, k) /\ m = Cardinality(C)
    OBVIOUS
<1>2. /\ d \in [Vertices -> Vertices] /\ p \in [Vertices -> Vertices] /\ Vertices \subseteq Nat
      /\ \A i, j \in Vertices : i # j => d[i] # d[j]
      /\ e \in [P -> C] /\ \A i, j \in P : i # j => e[i] # e[j]
      /\ C \subseteq Vertices
    <2>1. p \in [Vertices -> Vertices] /\ Vertices \subseteq Nat
        BY DEF IndexedPartitions, Vertices
    <2>2. d \in [Vertices -> Vertices] /\ \A i, j \in Vertices : i # j => d[i] # d[j]
        BY DEF InPlace
    <2>3. e \in [P -> C] /\ (\A i, j \in P : i # j => e[i] # e[j])
        BY <1>1, <1>10 DEF IsSortedBy
    <2>4. C \subseteq Vertices
        BY <1>1 DEF Cell
    <2> QED
        BY <2>1, <2>2, <2>3, <2>4
<1>3. k \in Nat /\ m \in Nat /\ \A i \in Vertices : i \in P <=> k <= i /\ i < k + m
    <2>1. k \in Nat /\ m \in Nat
        BY <1>1, <1>2, CellsFit
    <2>2. P = Span(k, m)
        BY <1>1, <1>10 DEF Span
    <2>3. \A i \in Nat : i \in Span(k, m) <=> k <= i /\ i < k + m
        BY <2>1, SpanHas
    <2> QED
        BY <1>2, <1>10, <2>1, <2>2, <2>3
<1>4. \A i \in Vertices : i \in P <=> p[d[i]] = k
    <2> SUFFICES ASSUME NEW i \in Vertices PROVE i \in P <=> p[d[i]] = k
        OBVIOUS
    <2>1. (k <= i /\ i < k + Cardinality(Cell(p, k))) <=> p[d[i]] = k
        BY PlacesOfCell
    <2> QED
        BY <1>1, <1>3, <2>1
<1>5. \A i \in P : p[e[i]] = k /\ e[i] \in Vertices
    BY <1>1, <1>2, <1>10 DEF Cell
<1>6. f \in [Vertices -> Vertices]
    BY <1>0, <1>2, <1>5 DEF Placed
<1>7. /\ \A i \in P : f[i] = e[i]
      /\ \A i \in Vertices : i \notin P => f[i] = d[i]
    BY <1>0, <1>10 DEF Placed
<1>8. \A i, j \in Vertices : i # j => f[i] # f[j]
    BY <1>2, <1>4, <1>5, <1>7
<1>9. ASSUME NEW i \in Vertices
      PROVE  q[f[i]] <= i /\ i < q[f[i]] + Cardinality(Cell(q, q[f[i]]))
    <2>1. CASE i \notin P
        <3>1. PICK x : x = p[d[i]]
            OBVIOUS
        <3>2. x # k /\ q[d[i]] = x /\ f[i] = d[i] /\ x \in Nest!Indices(p)
            BY <1>2, <1>4, <1>7, <1>10, <2>1, <3>1, IndicesIs DEF IsSplit
        <3>3. Cell(q, x) = Cell(p, x)
            <4>1. x \notin Changes(s, P, k, e)
                BY <1>10, <3>2 DEF IsSplit
            <4>2. \A v \in Vertices : q[v] = x <=> p[v] = x
                BY <1>10, <3>2, <4>1 DEF IsSplit
            <4> QED
                BY <4>2 DEF Cell
        <3>4. x <= i /\ i < x + Cardinality(Cell(p, x))
            BY <3>1 DEF InPlace
        <3> QED
            BY <3>2, <3>3, <3>4
    <2>2. CASE i \in P
        <3>1. PICK b : b = q[e[i]]
            OBVIOUS
        <3>2. b <= i /\ \A j \in P : b <= j /\ j <= i => q[e[j]] = b
            BY <1>10, <2>2, <3>1 DEF SplitPlaced
        <3>3. b \in P
            <4>1. b \in {k} \cup Changes(s, P, k, e)
                BY <1>5, <1>10, <2>2, <3>1 DEF IsSplit
            <4> QED
                BY <1>10, <4>1 DEF SplitPlaced
        <3>4. b \in Nat /\ i \in Nat
            BY <1>2, <1>10, <2>2, <3>3
        <3>5. \A j \in b .. i : j \in P /\ b <= j /\ j <= i
            <4> SUFFICES ASSUME NEW j \in b .. i PROVE j \in P /\ b <= j /\ j <= i
                OBVIOUS
            <4>1. b <= j /\ j <= i /\ j \in Nat
                BY <3>4
            <4>2. k <= b /\ i < k + m
                BY <1>3, <1>10, <2>2, <3>3
            <4>3. j \in Vertices
                BY <3>4, <4>1, VerticesFinite DEF Vertices
            <4>4. k <= j /\ j < k + m
                BY <1>3, <3>4, <4>1, <4>2
            <4> QED
                BY <1>3, <4>1, <4>3, <4>4
        <3> DEFINE g == [j \in b .. i |-> e[j]]
        <3>6. \A j \in b .. i : e[j] \in Cell(q, b)
            BY <1>5, <3>2, <3>5 DEF Cell
        <3>7. g \in Injection(b .. i, Cell(q, b))
            BY <1>2, <3>5, <3>6 DEF Injection, IsInjective
        <3>8. IsFiniteSet(b .. i) /\ Cardinality(b .. i) = i - b + 1
            <4>1. PICK n : n = i - b + 1
                OBVIOUS
            <4>2. n \in Nat /\ b .. i = Span(b, n)
                BY <3>2, <3>4, <4>1 DEF Span
            <4>3. IsFiniteSet(Span(b, n)) /\ Cardinality(Span(b, n)) = n
                BY <3>4, <4>2, SpanIs
            <4> QED
                BY <4>1, <4>2, <4>3
        <3>9. IsFiniteSet(Cell(q, b)) /\ Cardinality(Cell(q, b)) \in Nat
            <4>1. Cell(q, b) \subseteq Vertices
                BY DEF Cell
            <4> QED
                BY <4>1, SetsOfVertices
        <3> HIDE DEF g
        <3>10. Cardinality(b .. i) <= Cardinality(Cell(q, b))
            BY <3>7, <3>8, <3>9, FS_Injection
        <3>11. PICK n : n = Cardinality(Cell(q, b))
            OBVIOUS
        <3>12. n \in Nat /\ i - b + 1 <= n
            BY <3>8, <3>9, <3>10, <3>11
        <3>13. i < b + n
            BY <3>4, <3>12
        <3> QED
            BY <1>7, <2>2, <3>1, <3>2, <3>11, <3>13
    <2> QED
        BY <2>1, <2>2
<1> QED
    BY <1>0, <1>6, <1>8, <1>9 DEF InPlace

-----------------------------------------------------------------------------
(* The trace *)

\* What the comparisons of a split cell keep of an outcome.
OutcomeFits(o) ==
    /\ o.trace \in Traces
    /\ Len(o.trace.sums) = Len(o.trace.active_indices)
    /\ active_count < Len(o.trace.sums)
    /\ o.cmp = -1 => Len(o.trace.sums) = active_count + 1
    /\ o.cmp \in {-1, 0, 1, 2}

\* A trace is cut to its first active indices.
LEMMA ResizedIs ==
    ASSUME NEW t \in Traces, NEW n \in Nat,
           Len(t.sums) = Len(t.active_indices), n <= Len(t.sums)
    PROVE  /\ Resized(t, n) \in Traces
           /\ Len(Resized(t, n).sums) = n /\ Len(Resized(t, n).active_indices) = n
           /\ \A i \in 1 .. n : Resized(t, n).sums[i] = t.sums[i]
<1> DEFINE S == Seq(Vertices \X Sums)
<1> HIDE DEF S
<1>1. t.active_indices \in Seq(Vertices) /\ t.sums \in Seq(S)
    BY DEF Traces, S
<1>2. PICK a, b : a = SubSeq(t.active_indices, 1, n) /\ b = SubSeq(t.sums, 1, n)
    OBVIOUS
<1>3. a \in Seq(Vertices) /\ Len(a) = n
    BY <1>1, <1>2
<1>4. b \in Seq(S) /\ Len(b) = n /\ \A i \in 1 .. n : b[i] = t.sums[i]
    BY <1>1, <1>2
<1>5. PICK r : r = Resized(t, n)
    OBVIOUS
<1>6. r = [active_indices |-> a, sums |-> b]
    BY <1>2, <1>5 DEF Resized
<1>7. r.active_indices = a /\ r.sums = b
    BY <1>6
<1>8. r \in Traces
    BY <1>3, <1>4, <1>6 DEF Traces, S
<1> QED
    BY <1>3, <1>4, <1>5, <1>7, <1>8

\* A new active index has seen nothing.
LEMMA PushedIs ==
    ASSUME NEW t \in Traces, NEW k \in Vertices, Len(t.sums) = Len(t.active_indices)
    PROVE  /\ Pushed(t, k) \in Traces
           /\ Len(Pushed(t, k).sums) = Len(t.sums) + 1
           /\ Len(Pushed(t, k).active_indices) = Len(t.sums) + 1
<1> DEFINE S == Seq(Vertices \X Sums)
<1>0. <<>> \in S
    OBVIOUS
<1> HIDE DEF S
<1>1. t.active_indices \in Seq(Vertices) /\ t.sums \in Seq(S)
    BY DEF Traces, S
<1>2. PICK a, b : a = Append(t.active_indices, k) /\ b = Append(t.sums, <<>>)
    OBVIOUS
<1>3. a \in Seq(Vertices) /\ Len(a) = Len(t.sums) + 1
    BY <1>1, <1>2
<1>4. b \in Seq(S) /\ Len(b) = Len(t.sums) + 1
    BY <1>0, <1>1, <1>2
<1>5. Pushed(t, k) = [active_indices |-> a, sums |-> b]
    BY <1>2 DEF Pushed
<1> QED
    BY <1>3, <1>4, <1>5 DEF Traces, S

\* The trace ends with the list of the active index at hand.
LEMMA WithEntryIs ==
    ASSUME NEW t \in Traces, NEW a \in Nat, a < Len(t.sums),
           Len(t.sums) = Len(t.active_indices),
           NEW n \in Nat, n <= Len(t.sums[a + 1]), NEW entry \in Vertices \X Sums
    PROVE  /\ WithEntry(t, a, n, entry) \in Traces
           /\ Len(WithEntry(t, a, n, entry).sums) = a + 1
           /\ Len(WithEntry(t, a, n, entry).active_indices) = a + 1
<1> DEFINE S == Seq(Vertices \X Sums)
<1>1. PICK r : r = Resized(t, a + 1)
    OBVIOUS
<1>2. t.sums \in Seq(S) /\ Len(t.sums) \in Nat
    BY DEF Traces
<1>3. /\ r \in Traces /\ Len(r.sums) = a + 1 /\ Len(r.active_indices) = a + 1
      /\ \A i \in 1 .. a + 1 : r.sums[i] = t.sums[i]
    <2>1. a + 1 \in Nat /\ a + 1 <= Len(t.sums)
        BY <1>2
    <2> QED
        BY <1>1, <2>1, ResizedIs
<1>4. PICK x : x = r.sums[a + 1]
    OBVIOUS
<1>5. x \in S /\ n <= Len(x)
    <2>1. a + 1 \in 1 .. Len(t.sums)
        BY <1>2
    <2>2. t.sums[a + 1] \in S
        BY <1>2, <2>1
    <2> QED
        BY <1>3, <1>4, <2>2
<1>6. PICK y : y = Append(SubSeq(x, 1, n), entry)
    OBVIOUS
<1>7. y \in S
    <2>1. SubSeq(x, 1, n) \in Seq(Vertices \X Sums)
        BY <1>5
    <2> QED
        BY <1>6, <2>1
<1> HIDE DEF S
<1>8. r.active_indices \in Seq(Vertices) /\ r.sums \in Seq(S)
    BY <1>3 DEF Traces, S
<1>9. PICK b : b = [r.sums EXCEPT ![a + 1] = y]
    OBVIOUS
<1>10. b \in Seq(S) /\ Len(b) = a + 1
    BY <1>3, <1>7, <1>8, <1>9
<1>11. WithEntry(t, a, n, entry) = [active_indices |-> r.active_indices, sums |-> b]
    <2>1. WithEntry(t, a, n, entry)
              = [r EXCEPT !.sums[a + 1] = Append(SubSeq(r.sums[a + 1], 1, n), entry)]
        BY <1>1 DEF WithEntry
    <2>2. WithEntry(t, a, n, entry) = [r EXCEPT !.sums[a + 1] = y]
        BY <1>4, <1>6, <2>1
    <2>3. WithEntry(t, a, n, entry) = [r EXCEPT !.sums = b]
        BY <1>9, <2>2
    <2>4. PICK c, d : c = r.active_indices /\ d = r.sums
        OBVIOUS
    <2>5. r = [active_indices |-> c, sums |-> d]
        BY <1>3, <2>4 DEF Traces
    <2>6. [r EXCEPT !.sums = b] = [active_indices |-> c, sums |-> b]
        BY <2>5
    <2> QED
        BY <2>3, <2>4, <2>6
<1> QED
    BY <1>3, <1>8, <1>10, <1>11 DEF Traces, S

\* Recording or comparing one entry.
LEMMA EntryFits ==
    ASSUME active_count \in Nat, NEW o, OutcomeFits(o), NEW n \in Nat,
           NEW entry \in Vertices \X Sums
    PROVE  OutcomeFits(trace_attr_sum(o, n, entry))
<1>1. PICK t : t = o.trace
    OBVIOUS
<1>2. /\ t \in Traces /\ Len(t.sums) = Len(t.active_indices) /\ active_count < Len(t.sums)
      /\ o.cmp \in {-1, 0, 1, 2}
    BY <1>1 DEF OutcomeFits
<1>3. PICK seen : seen = t.sums[active_count + 1]
    OBVIOUS
<1>4. seen \in Seq(Vertices \X Sums) /\ Len(seen) \in Nat
    <2>1. t.sums \in Seq(Seq(Vertices \X Sums))
        BY <1>2 DEF Traces
    <2>2. active_count + 1 \in 1 .. Len(t.sums)
        BY <1>2, <2>1
    <2> QED
        BY <1>3, <2>1, <2>2
<1>5. PICK x : x = trace_attr_sum(o, n, entry)
    OBVIOUS
<1>6. \/ x = Outcome(WithEntry(t, active_count, Len(seen), entry), -1)
      \/ x = Outcome(t, 2) /\ o.cmp = 0
      \/ x = Outcome(t, 1) /\ o.cmp = 0
      \/ x = Outcome(WithEntry(t, active_count, n, entry), -1) /\ n < Len(seen)
      \/ x = o
    BY <1>1, <1>3, <1>5 DEF trace_attr_sum
<1>7. ASSUME NEW l \in Nat, l <= Len(seen), x = Outcome(WithEntry(t, active_count, l, entry), -1)
      PROVE  OutcomeFits(x)
    <2>1. PICK w : w = WithEntry(t, active_count, l, entry)
        OBVIOUS
    <2>2. w \in Traces /\ Len(w.sums) = active_count + 1 /\ Len(w.active_indices) = active_count + 1
        BY <1>2, <1>3, <1>7, <2>1, WithEntryIs
    <2>3. x.trace = w /\ x.cmp = -1
        BY <1>7, <2>1 DEF Outcome
    <2> QED
        BY <2>2, <2>3 DEF OutcomeFits
<1>8. CASE x = Outcome(WithEntry(t, active_count, Len(seen), entry), -1)
    BY <1>4, <1>5, <1>7, <1>8
<1>9. CASE x = Outcome(WithEntry(t, active_count, n, entry), -1) /\ n < Len(seen)
    BY <1>4, <1>5, <1>7, <1>9
<1>10. CASE x = Outcome(t, 2) \/ x = Outcome(t, 1)
    BY <1>2, <1>5, <1>10 DEF Outcome, OutcomeFits
<1>11. CASE x = o
    BY <1>5, <1>11
<1> QED
    BY <1>6, <1>8, <1>9, <1>10, <1>11

\* Recording or comparing the entries of a split cell.
LEMMA OutcomesFit ==
    ASSUME active_count \in Nat, attr_sum_count \in Nat, OutcomeFits(Outcome(trace, cmp)),
           NEW k, NEW e, NEW n \in Nat, NEW f, OutcomesUpTo(f, k, e, n),
           <<k, attr_sums[e[k]]>> \in Vertices \X Sums,
           \A i \in 1 .. n : <<NewIndices(k, e)[i], attr_sums[e[NewIndices(k, e)[i]]]>>
                                 \in Vertices \X Sums,
           NEW i \in 0 .. n
    PROVE  OutcomeFits(f[i])
<1>1. SUFFICES ASSUME ~ OutcomeFits(f[i]) PROVE FALSE
    OBVIOUS
<1> DEFINE T == {j \in 0 .. n : ~ OutcomeFits(f[j])}
<1>2. T \in SUBSET Nat /\ T # {}
    BY <1>1
<1>3. PICK j \in T : \A l \in T : j <= l
    BY <1>2, Least
<1>4. j \in 0 .. n /\ ~ OutcomeFits(f[j]) /\ j \in Nat
    OBVIOUS
<1>5. f[j] = IF j = 0 THEN FirstOutcome(k, e) ELSE NextOutcome(k, e, j, f[j - 1])
    BY <1>4 DEF OutcomesUpTo
<1>6. CASE j = 0
    <2>1. OutcomeFits(FirstOutcome(k, e))
        BY EntryFits DEF FirstOutcome
    <2> QED
        BY <1>4, <1>5, <1>6, <2>1
<1>7. CASE j # 0
    <2>1. j - 1 \in 0 .. n /\ j \in 1 .. n /\ ~ (j <= j - 1)
        BY <1>4, <1>7
    <2>2. OutcomeFits(f[j - 1])
        BY <1>3, <2>1
    <2>3. attr_sum_count + j - 1 \in Nat
        BY <2>1
    <2>4. OutcomeFits(NextOutcome(k, e, j, f[j - 1]))
        BY <2>1, <2>2, <2>3, EntryFits DEF NextOutcome
    <2> QED
        BY <1>4, <1>5, <1>7, <2>4
<1> QED
    BY <1>6, <1>7

-----------------------------------------------------------------------------
(* All that a split does *)

\* P: the positions of the cell at k; e: its sorted list; K: the positions at which a new
\* sum begins, listed by s; r of them are enqueued, with outcome o at the end.
SplitBy(k, e, P, K, s, r, o) ==
    /\ k = Min(adjacent) /\ k \in adjacent /\ k \in Nest!Indices(index_containing)
    /\ P = k .. k + Cardinality(Cell(index_containing, k)) - 1 /\ P \subseteq Vertices
    /\ IsSortedBy(attr_sums, P, Cell(index_containing, k), e)
    /\ K = Changes(attr_sums, P, k, e) /\ K \subseteq P
    /\ s = Ascending(K) /\ s = NewIndices(k, e)
    /\ s \in Seq(Vertices) /\ Len(s) = Cardinality(K) /\ Range(s) = K
    /\ r \in 0 .. Len(s) /\ (o.cmp \notin {1, 2} => r = Len(s))
    /\ o = Outcomes(k, e)[r] /\ (cmp = -1 => o.cmp = -1)

\* The changes that sort_and_split_index makes.
SplitDoes(k, e, P, K, s, r, o) ==
    /\ AfterAdjacent(k, o)
    /\ active_indices' = active_indices \o SubSeq(s, 1, r)
    /\ attr_sum_count' = attr_sum_count + r
    /\ elements' = [i \in Vertices |-> IF i \in P THEN e[i] ELSE elements[i]]
    /\ IF o.cmp \in {1, 2}
       THEN pending' = Range(SubSeq(s, 1, r)) /\ index_containing' = index_containing
       ELSE pending' = pending /\ index_containing' = Split(index_containing, P, e, k, K)

\* sort_and_split_index splits the first of the adjacent cells.
LEMMA SplitsBy ==
    ASSUME RefinerShape, sort_and_split_index
    PROVE  \E k, e, P, K, s, r, o :
               /\ SplitBy(k, e, P, K, s, r, o) /\ SplitDoes(k, e, P, K, s, r, o)
               /\ HaveSums({k})
<1>1. PICK k : k = Min(adjacent)
    OBVIOUS
<1>2. adjacent # {} /\ HaveSums({k})
    BY <1>1 DEF sort_and_split_index
<1>3. /\ k \in adjacent /\ k \in Nest!Indices(index_containing)
      /\ index_containing \in IndexedPartitions
    BY <1>1, <1>2, FirstAdjacent DEF RefinerShape
<1>4. PICK e \in SortedCell(k) :
        LET n == Reached(k, e)
            new == SubSeq(NewIndices(k, e), 1, n)
            o == Outcomes(k, e)[n]
        IN  /\ elements' = [i \in Vertices |->
                   IF i \in PositionsOf(k) THEN e[i] ELSE elements[i]]
            /\ active_indices' = active_indices \o new
            /\ attr_sum_count' = attr_sum_count + n
            /\ IF o.cmp \in {1, 2}
               THEN pending' = Range(new) /\ UNCHANGED index_containing
               ELSE /\ index_containing' = [u \in Vertices |->
                           IF index_containing[u] # k THEN index_containing[u]
                           ELSE LET i == CHOOSE i \in PositionsOf(k) : e[i] = u
                                IN  Max({j \in {k} \cup Range(new) : j <= i})]
                    /\ UNCHANGED pending
            /\ AfterAdjacent(k, o)
    BY <1>1 DEF sort_and_split_index
<1>5. PICK P : P = PositionsOf(k)
    OBVIOUS
<1>6. PICK K : K = Changes(attr_sums, P, k, e)
    OBVIOUS
<1>7. PICK s : s = NewIndices(k, e)
    OBVIOUS
<1>8. PICK r : r = Reached(k, e)
    OBVIOUS
<1>9. PICK o : o = Outcomes(k, e)[r]
    OBVIOUS
<1>10. /\ elements' = [i \in Vertices |-> IF i \in P THEN e[i] ELSE elements[i]]
       /\ attr_sum_count' = attr_sum_count + r
       /\ active_indices' = active_indices \o SubSeq(s, 1, r)
       /\ AfterAdjacent(k, o)
    BY <1>4, <1>5, <1>7, <1>8, <1>9
<1>11. IF o.cmp \in {1, 2}
       THEN pending' = Range(SubSeq(s, 1, r)) /\ index_containing' = index_containing
       ELSE /\ pending' = pending
            /\ index_containing' = Split(index_containing, P, e, k, Range(SubSeq(s, 1, r)))
    BY <1>4, <1>5, <1>7, <1>8, <1>9 DEF Split, Block, PlaceOf
<1>12. /\ P = k .. k + Cardinality(Cell(index_containing, k)) - 1
       /\ s \in Seq(Vertices) /\ Len(s) \in Nat /\ Range(s) = K
    BY <1>3, <1>5, <1>6, <1>7, NewIndicesAre
<1>13. P \subseteq Vertices
    <2>1. PICK m : m = Cardinality(Cell(index_containing, k))
        OBVIOUS
    <2>2. k \in Vertices /\ m \in Nat /\ k + m <= N
        BY <1>3, <2>1, CellsFit
    <2> QED
        BY <1>12, <2>1, <2>2, VerticesFinite DEF Vertices
<1>14. K \subseteq P
    BY <1>6 DEF Changes
<1>15. s = Ascending(K)
    BY <1>5, <1>6, <1>7 DEF NewIndices, Changes
<1>16. Len(s) = Cardinality(K)
    <2>1. K \subseteq Vertices
        BY <1>13, <1>14
    <2>2. K \subseteq Nat /\ IsFiniteSet(K)
        <3>1. Vertices \subseteq Nat
            BY DEF Vertices
        <3>2. IsFiniteSet(K)
            BY <2>1, SetsOfVertices
        <3> QED
            BY <2>1, <3>1, <3>2
    <2> QED
        BY <1>15, <2>2, AscendingIs
<1>17. r \in 0 .. Len(s) /\ (o.cmp \notin {1, 2} => r = Len(s)) /\ (cmp = -1 => o.cmp = -1)
    BY <1>7, <1>8, <1>9, <1>12, ReachedIs
<1>18. IsSortedBy(attr_sums, P, Cell(index_containing, k), e)
    BY <1>5 DEF SortedCell, IsSortedBy
<1>19. IF o.cmp \in {1, 2}
       THEN pending' = Range(SubSeq(s, 1, r)) /\ index_containing' = index_containing
       ELSE pending' = pending /\ index_containing' = Split(index_containing, P, e, k, K)
    <2>1. CASE o.cmp \in {1, 2}
        BY <1>11, <2>1
    <2>2. CASE o.cmp \notin {1, 2}
        <3>1. SubSeq(s, 1, r) = s
            <4>1. r = Len(s)
                BY <1>17, <2>2
            <4> QED
                BY <1>12, <4>1
        <3> QED
            BY <1>11, <1>12, <2>2, <3>1
    <2> QED
        BY <2>1, <2>2
<1>20. SplitDoes(k, e, P, K, s, r, o)
    BY <1>10, <1>19 DEF SplitDoes
<1>21. SplitBy(k, e, P, K, s, r, o)
    BY <1>1, <1>3, <1>6, <1>7, <1>9, <1>12, <1>13, <1>14, <1>15, <1>16, <1>17, <1>18 DEF SplitBy
<1> QED
    BY <1>2, <1>20, <1>21

\* A cell is split where the sums change.
LEMMA SplitByIs ==
    ASSUME index_containing \in IndexedPartitions,
           NEW k, NEW e, NEW P, NEW K, NEW s, NEW r, NEW o, SplitBy(k, e, P, K, s, r, o),
           \A u \in Cell(index_containing, k) : attr_sums[u] \in [1 .. 3 -> Int],
           NEW q, q = Split(index_containing, P, e, k, K)
    PROVE  /\ IsSplit(index_containing, q, k, K) /\ q \in IndexedPartitions
           /\ KeepsOrder(index_containing, q)
           /\ \A u, v \in Cell(index_containing, k) : q[u] = q[v] <=> attr_sums[u] = attr_sums[v]
           /\ SplitPlaced(index_containing, P, e, k, attr_sums, q)
<1>1. PICK p : p = index_containing
    OBVIOUS
<1>2. /\ k \in Nest!Indices(p) /\ p \in IndexedPartitions
      /\ P = k .. k + Cardinality(Cell(p, k)) - 1
      /\ IsSortedBy(attr_sums, P, Cell(p, k), e)
      /\ K = Changes(attr_sums, P, k, e)
      /\ \A u \in Cell(p, k) : attr_sums[u] \in [1 .. 3 -> Int]
    BY <1>1 DEF SplitBy
<1>3. q = Split(p, P, e, k, Changes(attr_sums, P, k, e))
    BY <1>1, <1>2
<1>4. /\ IsSplit(p, q, k, Changes(attr_sums, P, k, e)) /\ q \in IndexedPartitions
      /\ KeepsOrder(p, q)
      /\ \A u, v \in Cell(p, k) : q[u] = q[v] <=> attr_sums[u] = attr_sums[v]
    BY <1>2, <1>3, SortAndSplit
<1>5. SplitPlaced(p, P, e, k, attr_sums, q)
    BY <1>2, <1>3, SplitPlaces
<1> QED
    BY <1>1, <1>2, <1>4, <1>5

-----------------------------------------------------------------------------
(* The types *)

\* While cells are split, the active index at hand has its list in the trace, and it is
\* the last one if the trace is new.
TraceFits ==
    /\ trace \in Traces /\ Len(trace.sums) = Len(trace.active_indices)
    /\ cmp \in {-1, 0, 1, 2}
    /\ pc \in {"active", "split"} => cmp \in {-1, 0}
    /\ pc = "active" /\ cmp = -1 => Len(trace.sums) = active_count
    /\ pc = "split" => OutcomeFits(Outcome(trace, cmp))

\* Every vertex with an arc has a sum, and so has one of every cell next to the active one.
SumsTyped ==
    /\ \E n \in 0 .. N : attr_sums \in [0 .. n - 1 -> Sums]
    /\ \A u, v \in Vertices : <<u, v>> \in graph => u \in DOMAIN attr_sums /\ v \in DOMAIN attr_sums
    /\ pc = "split" =>
           \A j \in adjacent : \E v \in DOMAIN attr_sums : index_containing[v] = j

\* An index becomes active once.
CountsFit ==
    LET cells == Cardinality(Nest!Indices(index_containing))
    IN  /\ active_count \in 0 .. N /\ attr_sum_count \in 0 .. N
        /\ pc = "active" => active_count + Len(active_indices) <= cells
        /\ pc = "split" => /\ active_count + 1 + Len(active_indices) <= cells
                           /\ attr_sum_count < cells

\* The vertices are listed cell by cell until a comparison makes the refinement bail out.
Elsewhere ==
    /\ elements \in [Vertices -> Vertices]
    /\ pc \in {"active", "split"} \/ (pc = "done" /\ NewTrace) => InPlace(elements, index_containing)
    /\ pending \in SUBSET Vertices
    /\ pc \in {"active", "split", "done", "throw", "undefined"}
    /\ call \in {"first", "renamed", "individualized", "again", "compared"}
    /\ first.trace \in Traces /\ first.index \in [Vertices -> Vertices]

\* RefineInv, with the types.
TypeInv == RefineInv /\ TraceFits /\ SumsTyped /\ CountsFit /\ Elsewhere

\* The types follow.
LEMMA TypesFollow == TypeInv => TypeOK
<1> SUFFICES ASSUME TypeInv PROVE TypeOK
    OBVIOUS
<1>1. /\ graph \in SUBSET (Vertices \X Vertices)
      /\ start \in IndexedPartitions /\ index_containing \in IndexedPartitions
      /\ active_indices \in Seq(Vertices)
      /\ adjacent \subseteq Nest!Indices(index_containing)
    BY DEF TypeInv, RefineInv, RefinerShape
<1>2. adjacent \in SUBSET Vertices
    <2>1. index_containing \in [Vertices -> Vertices]
        BY <1>1 DEF IndexedPartitions
    <2> QED
        BY <1>1, <2>1, IndicesIs
<1>3. active_count \in 0 .. 2 * N /\ attr_sum_count \in 0 .. N
    BY VerticesFinite DEF TypeInv, CountsFit
<1>4. {start, index_containing} \subseteq IndexedPartitions
    BY <1>1
<1>5. /\ trace \in Traces /\ cmp \in {-1, 0, 1, 2}
      /\ \E n \in 0 .. N : attr_sums \in [0 .. n - 1 -> Sums]
    BY DEF TypeInv, TraceFits, SumsTyped
<1>6. Elsewhere
    BY DEF TypeInv
<1> QED
    BY <1>1, <1>2, <1>3, <1>4, <1>5, <1>6 DEF TypeOK, Elsewhere

-----------------------------------------------------------------------------
\* There are at most N cells.
LEMMA CellsCount ==
    ASSUME NEW p \in [Vertices -> Vertices]
    PROVE  /\ Nest!Indices(p) \subseteq Vertices /\ IsFiniteSet(Nest!Indices(p))
           /\ Cardinality(Nest!Indices(p)) \in 1 .. N
<1>1. Nest!Indices(p) \subseteq Vertices
    BY IndicesIs
<1>2. 0 \in Vertices
    BY VerticesFinite DEF Vertices
<1>3. p[0] \in Nest!Indices(p)
    BY <1>2, IndicesIs
<1>4. /\ IsFiniteSet(Nest!Indices(p)) /\ Cardinality(Nest!Indices(p)) \in Nat
      /\ Cardinality(Nest!Indices(p)) <= N
    BY <1>1, SetsOfVertices
<1>5. Cardinality(Nest!Indices(p)) # 0
    BY <1>3, <1>4, FS_EmptySet
<1> QED
    BY <1>1, <1>4, <1>5, VerticesFinite

\* The sums of a vertex are small.
LEMMA SownTyped ==
    ASSUME NEW g, NEW C, C \subseteq Vertices, NEW v
    PROVE  SownBy(g, C, v) \in Sums
<1> SUFFICES ASSUME NEW i \in 1 .. 3
             PROVE  Cardinality({u \in C : <<"in", "out", "both">>[i] \in Kinds(g, u, v)}) \in 0 .. N
    BY DEF SownBy, Sums
<1>1. {u \in C : <<"in", "out", "both">>[i] \in Kinds(g, u, v)} \subseteq Vertices
    OBVIOUS
<1> QED
    BY <1>1, SetsOfVertices, VerticesFinite

\* Zero is a sum.
LEMMA NoSumTyped == NoSum \in Sums
BY VerticesFinite DEF NoSum, Sums

\* Vertices with arcs come before the vertex count.
LEMMA ArcsCounted ==
    ASSUME NEW g \in SUBSET (Vertices \X Vertices), NEW u \in Vertices, NEW v \in Vertices,
           <<u, v>> \in g
    PROVE  u < vertex_count(g) /\ v < vertex_count(g)
<1> DEFINE T == {-1} \cup {a[1] : a \in g} \cup {a[2] : a \in g}
<1>1. T \in SUBSET Int /\ T # {} /\ \A x \in T : x \in -1 .. N - 1
    BY ConstantsAssumption DEF Vertices
<1>2. u \in T /\ v \in T
    <2>1. <<u, v>>[1] = u /\ <<u, v>>[2] = v
        OBVIOUS
    <2> QED
        BY <2>1
<1>3. vertex_count(g) = Max(T) + 1
    BY DEF vertex_count
<1> HIDE DEF T
<1>4. \E x \in T : \A y \in T : y <= x
    <2>1. N - 1 \in Int /\ \A x \in T : x <= N - 1
        BY <1>1, ConstantsAssumption
    <2> QED
        BY <1>1, <2>1, Greatest
<1>5. Max(T) \in T /\ \A y \in T : y <= Max(T)
    BY <1>1, <1>4 DEF Max
<1>6. Max(T) \in Int /\ u \in Int /\ v \in Int /\ u <= Max(T) /\ v <= Max(T)
    BY <1>1, <1>2, <1>5
<1> QED
    BY <1>3, <1>6

-----------------------------------------------------------------------------
(* The types are kept *)

\* All cells are active at the start of a refinement.
LEMMA AllListedOnce ==
    ASSUME NEW p \in IndexedPartitions
    PROVE  /\ nontrivial_indices(p) \in Seq(Vertices)
           /\ Len(nontrivial_indices(p)) = Cardinality(Nest!Indices(p))
<1>1. p \in [Vertices -> Vertices]
    BY DEF IndexedPartitions
<1>2. PICK K : K = Nest!Indices(p)
    OBVIOUS
<1>3. K \subseteq Nat /\ IsFiniteSet(K)
    <2>1. Vertices \subseteq Nat
        BY DEF Vertices
    <2> QED
        BY <1>1, <1>2, <2>1, CellsCount
<1>4. Len(Ascending(K)) = Cardinality(K)
    BY <1>3, AscendingIs
<1> QED
    BY <1>2, <1>4, AllActive DEF nontrivial_indices

\* The trace of a refinement that has not begun.
LEMMA EmptyTraceTyped ==
    EmptyTrace \in Traces /\ Len(EmptyTrace.sums) = 0 /\ Len(EmptyTrace.active_indices) = 0
<1> DEFINE S == Seq(Vertices \X Sums)
<1> HIDE DEF S
<1>1. <<>> \in Seq(Vertices) /\ <<>> \in Seq(S) /\ Len(<<>>) = 0
    OBVIOUS
<1> QED
    BY <1>1 DEF EmptyTrace, Traces, S

\* The state at the start of a refinement.
StartState ==
    /\ pc = "active" /\ index_containing = start /\ pending = {}
    /\ start \in IndexedPartitions /\ InPlace(elements, start)
    /\ active_indices \in Seq(Vertices)
    /\ Len(active_indices) <= Cardinality(Nest!Indices(start))
    /\ active_count = 0 /\ attr_sum_count = 0 /\ adjacent = {}
    /\ trace \in Traces /\ Len(trace.sums) = Len(trace.active_indices)
    /\ cmp = IF trace = EmptyTrace THEN -1 ELSE 0
    /\ \E n \in 0 .. N : attr_sums \in [0 .. n - 1 -> Sums]
    /\ graph \in SUBSET (Vertices \X Vertices) /\ vertex_count(graph) \in Nat
    /\ \A u \in Vertices : u < vertex_count(graph) => u \in DOMAIN attr_sums
    /\ call \in {"first", "renamed", "individualized", "again", "compared"}
    /\ first.trace \in Traces /\ first.index \in [Vertices -> Vertices]

\* What TypeInv adds to RefineInv.
Typed == TraceFits /\ SumsTyped /\ CountsFit /\ Elsewhere

\* A refinement starts with all variables of their types.
LEMMA StartTypes == StartState => Typed
<1> SUFFICES ASSUME StartState PROVE TraceFits /\ SumsTyped /\ CountsFit /\ Elsewhere
    BY DEF Typed
<1> USE DEF StartState
<1>1. TraceFits
    BY EmptyTraceTyped DEF TraceFits
<1>2. SumsTyped
    <2>1. ASSUME NEW u \in Vertices, NEW v \in Vertices, <<u, v>> \in graph
          PROVE  u \in DOMAIN attr_sums /\ v \in DOMAIN attr_sums
        BY <2>1, ArcsCounted
    <2> QED
        BY <2>1 DEF SumsTyped
<1>3. CountsFit
    <2>1. PICK m : m = Cardinality(Nest!Indices(index_containing))
        OBVIOUS
    <2>2. Len(active_indices) <= m /\ m \in Nat /\ Len(active_indices) \in Nat
        BY <2>1, CellsCount DEF IndexedPartitions
    <2>3. 0 + Len(active_indices) <= m
        BY <2>2
    <2> QED
        BY <2>1, <2>3, VerticesFinite DEF CountsFit
<1>4. Elsewhere
    BY DEF Elsewhere, InPlace
<1> QED
    BY <1>1, <1>2, <1>3, <1>4

\* The first call starts.
LEMMA InitTypes == Init => TypeInv
<1> SUFFICES ASSUME Init PROVE TypeInv
    OBVIOUS
<1>1. start \in IndexedPartitions /\ graph \in SUBSET (Vertices \X Vertices)
    BY ConstantsAssumption DEF Init
<1>2. vertex_count(graph) \in 0 .. N
    BY <1>1, VertexCount
<1>3. InPlace(elements, start)
    BY <1>1, ElementsInPlace DEF Init
<1>4. /\ active_indices \in Seq(Vertices)
      /\ Len(active_indices) = Cardinality(Nest!Indices(start))
    BY <1>1, AllListedOnce DEF Init
<1>5. Cardinality(Nest!Indices(start)) \in Nat
    BY <1>1, CellsCount DEF IndexedPartitions
<1>6. attr_sums = [v \in 0 .. vertex_count(graph) - 1 |-> NoSum]
    BY DEF Init
<1>7. \E n \in 0 .. N : attr_sums \in [0 .. n - 1 -> Sums]
    BY <1>2, <1>6, NoSumTyped
<1>8. \A u \in Vertices : u < vertex_count(graph) => u \in DOMAIN attr_sums
    BY <1>2, <1>6 DEF Vertices
<1>9. trace = EmptyTrace /\ first.trace = EmptyTrace /\ first.index = start
    BY DEF Init
<1>10. TraceFits /\ SumsTyped /\ CountsFit /\ Elsewhere
    <2>1. /\ pc = "active" /\ index_containing = start /\ pending = {} /\ active_count = 0
          /\ attr_sum_count = 0 /\ adjacent = {} /\ cmp = -1 /\ call = "first"
        BY DEF Init
    <2>2. vertex_count(graph) \in Nat
        BY <1>2
    <2>3. Len(active_indices) <= Cardinality(Nest!Indices(start))
        BY <1>4, <1>5
    <2>4. start \in [Vertices -> Vertices]
        BY <1>1 DEF IndexedPartitions
    <2>5. trace \in Traces /\ Len(trace.sums) = Len(trace.active_indices) /\ first.trace \in Traces
        BY <1>9, EmptyTraceTyped
    <2>6. cmp = IF trace = EmptyTrace THEN -1 ELSE 0
        BY <1>9, <2>1
    <2>7. /\ call \in {"first", "renamed", "individualized", "again", "compared"}
          /\ first.index \in [Vertices -> Vertices]
        BY <1>9, <2>1, <2>4
    <2> QED
        BY <1>1, <1>3, <1>4, <1>7, <1>8, <2>1, <2>2, <2>3, <2>5, <2>6, <2>7, StartTypes
               DEF StartState, Typed
<1> QED
    BY <1>10, InitRefines DEF TypeInv

\* StartTypes, for the state after a step.
LEMMA StartTypesNext == StartState' => Typed'
BY StartTypes, PTL

\* A call begins with sums for every vertex that may have an arc.
LEMMA CallStarts ==
    ASSUME SumsTyped,
           NEW g \in SUBSET (Vertices \X Vertices), NEW p \in IndexedPartitions,
           NEW e, InPlace(e, p), NEW t \in Traces, Len(t.sums) = Len(t.active_indices),
           NEW a \in Seq(Vertices), Len(a) <= Cardinality(Nest!Indices(p)),
           Refine(g, p, e, t, a),
           call' \in {"renamed", "individualized", "again", "compared"},
           first'.trace \in Traces, first'.index \in [Vertices -> Vertices]
    PROVE  Typed'
<1>1. PICK n \in 0 .. N : attr_sums \in [0 .. n - 1 -> Sums]
    BY DEF SumsTyped
<1>2. Cardinality(DOMAIN attr_sums) = n
    <2>1. n \in Nat /\ 0 \in Int /\ n - 1 \in Int
        BY <1>1, ConstantsAssumption
    <2>2. Cardinality(0 .. n - 1) = IF 0 > n - 1 THEN 0 ELSE n - 1 - 0 + 1
        BY <2>1, FS_Interval
    <2>3. DOMAIN attr_sums = 0 .. n - 1
        BY <1>1
    <2> QED
        BY <2>1, <2>2, <2>3
<1>3. vertex_count(g) \in 0 .. N
    BY VertexCount
<1>4. PICK m : m = Max({n, vertex_count(g)})
    OBVIOUS
<1>5. m \in 0 .. N /\ vertex_count(g) <= m
    <2>1. PICK x : x = vertex_count(g)
        OBVIOUS
    <2>2. x \in Nat /\ n \in Nat /\ x <= N /\ n <= N /\ m = Max({n, x}) /\ N \in Nat
        BY <1>3, <1>4, <2>1, ConstantsAssumption
    <2>3. \E z \in {n, x} : \A y \in {n, x} : z >= y
        <3>1. CASE n >= x
            BY <2>2, <3>1
        <3>2. CASE ~ (n >= x)
            BY <2>2, <3>2
        <3> QED
            BY <3>1, <3>2
    <2>4. m \in {n, x} /\ m >= x
        BY <2>2, <2>3 DEF Max
    <2> QED
        BY <2>1, <2>2, <2>4
<1>6. attr_sums' = [v \in 0 .. m - 1 |-> IF v \in DOMAIN attr_sums THEN attr_sums[v] ELSE NoSum]
    BY <1>2, <1>4 DEF Refine
<1>7. attr_sums' \in [0 .. m - 1 -> Sums]
    BY <1>1, <1>6, NoSumTyped
<1>8. \A u \in Vertices : u < vertex_count(g) => u \in DOMAIN attr_sums'
    <2> SUFFICES ASSUME NEW u \in Vertices, u < vertex_count(g) PROVE u \in 0 .. m - 1
        BY <1>6
    <2>1. u \in Nat
        BY DEF Vertices
    <2> QED
        BY <1>3, <1>5, <2>1
<1>9. /\ graph' = g /\ start' = p /\ elements' = e /\ index_containing' = p /\ pending' = {}
      /\ active_indices' = a /\ active_count' = 0 /\ adjacent' = {} /\ attr_sum_count' = 0
      /\ trace' = t /\ cmp' = (IF t = EmptyTrace THEN -1 ELSE 0) /\ pc' = "active"
    BY DEF Refine
<1>10. vertex_count(graph)' = vertex_count(g)
    BY <1>9 DEF vertex_count
<1>11. Nest!Indices(start)' = Nest!Indices(p) /\ InPlace(elements, start)'
    BY <1>9 DEF Nest!Indices, InPlace, Cell
<1>12. vertex_count(g) \in Nat
    BY <1>3
<1>13. \E l \in 0 .. N : attr_sums' \in [0 .. l - 1 -> Sums]
    BY <1>5, <1>7
<1>14. StartState'
    BY <1>8, <1>9, <1>10, <1>11, <1>12, <1>13 DEF StartState
<1> QED
    BY <1>14, StartTypesNext

\* The second call begins with typed variables.
LEMMA SecondCallTypes ==
    ASSUME TypeInv,
           \/ \E s \in Renamings : CallRenamed(s)
           \/ \E u \in Vertices : CallIndividualized(u)
           \/ \E o \in Others \cup {<<graph, start>>} : CallCompared(o[1], o[2])
    PROVE  Typed'
<1>1. /\ graph \in SUBSET (Vertices \X Vertices) /\ start \in IndexedPartitions
      /\ index_containing \in IndexedPartitions
    BY DEF TypeInv, RefineInv, RefinerShape
<1>2. SumsTyped
    BY DEF TypeInv
<1>3. trace \in Traces /\ Len(trace.sums) = Len(trace.active_indices)
    BY DEF TypeInv, TraceFits
<1>4. first.trace \in Traces /\ first.index \in [Vertices -> Vertices]
    BY DEF TypeInv, Elsewhere
<1>5. \A p \in IndexedPartitions :
          /\ nontrivial_indices(p) \in Seq(Vertices)
          /\ Len(nontrivial_indices(p)) <= Cardinality(Nest!Indices(p))
    <2> TAKE p \in IndexedPartitions
    <2>1. Cardinality(Nest!Indices(p)) \in Nat
        BY CellsCount DEF IndexedPartitions
    <2> QED
        BY <2>1, AllListedOnce
<1>6. ASSUME NEW s \in Renamings, CallRenamed(s)
      PROVE  Typed'
    <2>1. PICK g, p : g = Renamed(graph, s) /\ p = RenamedPartition(start, s)
        OBVIOUS
    <2>2. s \in [Vertices -> Vertices] /\ \A u, v \in Vertices : u # v => s[u] # s[v]
        BY ConstantsAssumption
    <2>3. g \in SUBSET (Vertices \X Vertices)
        BY <1>1, <2>1, <2>2 DEF Renamed
    <2>4. p \in IndexedPartitions
        BY <1>1, <2>1, <2>2, RenamedIsIndexed
    <2>5. Refine(g, p, ElementsOf(p), EmptyTrace, nontrivial_indices(p))
        BY <1>6, <2>1 DEF CallRenamed
    <2>6. first'.trace = trace /\ first'.index = index_containing /\ call' = "renamed"
        BY <1>6 DEF CallRenamed
    <2>7. first'.trace \in Traces /\ first'.index \in [Vertices -> Vertices]
        BY <1>1, <1>3, <2>6 DEF IndexedPartitions
    <2>8. call' \in {"renamed", "individualized", "again", "compared"}
        BY <2>6
    <2>9. EmptyTrace \in Traces /\ Len(EmptyTrace.sums) = Len(EmptyTrace.active_indices)
        BY EmptyTraceTyped
    <2>10. InPlace(ElementsOf(p), p)
        BY <2>4, ElementsInPlace
    <2> QED
        BY <1>2, <1>5, <2>3, <2>4, <2>5, <2>7, <2>8, <2>9, <2>10, CallStarts
<1>7. ASSUME NEW u \in Vertices, CallIndividualized(u)
      PROVE  Typed'
    <2>1. PICK p : p = index_containing
        OBVIOUS
    <2>2. PICK k : k = p[u]
        OBVIOUS
    <2>3. PICK m : m = Cardinality(Cell(p, k))
        OBVIOUS
    <2>4. PICK i : i = CHOOSE j \in k .. k + m - 1 : elements[j] = u
        OBVIOUS
    <2>5. PICK q : q = BrokenOut(p, k, u)
        OBVIOUS
    <2>6. PICK e : e = [elements EXCEPT ![k] = u, ![i] = elements[k]]
        OBVIOUS
    <2>7. FirstDone /\ m > 1 /\ Refine(graph, q, e, EmptyTrace, <<k>>)
        BY <1>7, <2>1, <2>2, <2>3, <2>4, <2>5, <2>6
        DEF CallIndividualized, PositionsOf, CellSize, BrokenOut
    <2>8. InPlace(elements, p)
        BY <2>1, <2>7 DEF TypeInv, Elsewhere, FirstDone, NewTrace
    <2>9. InPlace(e, q)
        <3>1. p \in IndexedPartitions /\ m > 1
            BY <1>1, <2>1, <2>7
        <3>2. \E j \in k .. k + m - 1 : elements[j] = u
            BY <2>2, <2>3, <2>8, <3>1, PlaceInCell
        <3>3. i \in k .. k + m - 1 /\ elements[i] = u
            BY <2>4, <3>2
        <3> QED
            BY <2>2, <2>3, <2>5, <2>6, <2>8, <3>1, <3>3, BrokenInPlace
    <2>10. p \in IndexedPartitions /\ Cardinality(Cell(p, k)) > 1
        BY <1>1, <2>1, <2>3, <2>7
    <2>11. q \in IndexedPartitions
        BY <2>2, <2>5, <2>10, BrokenOutIs
    <2>12. k \in Vertices
        BY <2>2, <2>10 DEF IndexedPartitions
    <2>13. <<k>> \in Seq(Vertices) /\ Len(<<k>>) <= Cardinality(Nest!Indices(q))
        <3>1. Cardinality(Nest!Indices(q)) \in 1 .. N
            BY <2>11, CellsCount DEF IndexedPartitions
        <3> QED
            BY <2>12, <3>1
    <2>14. call' = "individualized" /\ first' = first
        BY <1>7 DEF CallIndividualized
    <2>15. call' \in {"renamed", "individualized", "again", "compared"}
        BY <2>14
    <2>16. EmptyTrace \in Traces /\ Len(EmptyTrace.sums) = Len(EmptyTrace.active_indices)
        BY EmptyTraceTyped
    <2>17. first'.trace \in Traces /\ first'.index \in [Vertices -> Vertices]
        BY <1>4, <2>14
    <2>18. Refine(graph, q, e, EmptyTrace, <<k>>)
        BY <2>7
    <2> QED
        BY <1>1, <1>2, <2>9, <2>11, <2>13, <2>15, <2>16, <2>17, <2>18, CallStarts
<1>8. ASSUME NEW o \in Others \cup {<<graph, start>>}, CallCompared(o[1], o[2])
      PROVE  Typed'
    <2>1. PICK g, p : g = o[1] /\ p = o[2]
        OBVIOUS
    <2>2. g \in SUBSET (Vertices \X Vertices) /\ p \in IndexedPartitions
        BY <1>1, <2>1, ConstantsAssumption
    <2>3. Refine(g, p, ElementsOf(p), trace, nontrivial_indices(p)) /\ first' = first
        BY <1>8, <2>1 DEF CallCompared
    <2>4. call' \in {"renamed", "individualized", "again", "compared"}
        BY <1>8 DEF CallCompared
    <2>5. InPlace(ElementsOf(p), p)
        BY <2>2, ElementsInPlace
    <2>6. first'.trace \in Traces /\ first'.index \in [Vertices -> Vertices]
        BY <1>4, <2>3
    <2> QED
        BY <1>2, <1>3, <1>5, <2>2, <2>3, <2>4, <2>5, <2>6, CallStarts
<1> QED
    BY <1>6, <1>7, <1>8

\* The end of a call leaves all but the comparison.
LEMMA EndTypes ==
    ASSUME TypeInv, Throw \/ LargerActiveIndex \/ ReadsPastSums \/ Return
    PROVE  Typed'
<1>1. /\ UNCHANGED <<elements, index_containing, pending, active_count, attr_sums, adjacent,
                     attr_sum_count, trace, graph, start, call, first>>
      /\ pc' \in {"throw", "done", "undefined"} /\ (pc' = "done" => pc = "active")
      /\ cmp' \in {cmp, 1}
    BY DEF Throw, LargerActiveIndex, ReadsPastSums, Return, nestVars, callVars
<1>2. TraceFits /\ SumsTyped /\ CountsFit /\ Elsewhere
    BY DEF TypeInv
<1>3. TraceFits'
    BY <1>1, <1>2 DEF TraceFits
<1>4. SumsTyped'
    BY <1>1, <1>2 DEF SumsTyped
<1>5. CountsFit'
    BY <1>1, <1>2 DEF CountsFit, Nest!Indices
<1>6. Elsewhere'
    BY <1>1, <1>2 DEF Elsewhere, InPlace, Cell, NewTrace
<1> QED
    BY <1>3, <1>4, <1>5, <1>6 DEF Typed

\* The next active index is counted.
LEMMA NextIndexTypes ==
    ASSUME TypeInv, NextActiveIndex
    PROVE  Typed'
<1>1. /\ UNCHANGED <<elements, index_containing, pending, active_indices, attr_sums, adjacent,
                     attr_sum_count, trace, cmp, graph, start, call, first>>
      /\ active_count' = active_count + 1 /\ pc = "split" /\ pc' = "active"
    BY DEF NextActiveIndex, nestVars, callVars
<1>2. TraceFits /\ SumsTyped /\ CountsFit /\ Elsewhere
    BY DEF TypeInv
<1>3. TraceFits'
    BY <1>1, <1>2 DEF TraceFits, OutcomeFits, Outcome
<1>4. SumsTyped'
    BY <1>1, <1>2 DEF SumsTyped
<1>5. CountsFit'
    <2>1. PICK m : m = Cardinality(Nest!Indices(index_containing))
        OBVIOUS
    <2>2. m \in 1 .. N
        BY <2>1, CellsCount DEF TypeInv, RefineInv, RefinerShape, IndexedPartitions
    <2>3. Cardinality(Nest!Indices(index_containing))' = m
        BY <1>1, <2>1 DEF Nest!Indices
    <2>4. /\ active_count \in 0 .. N /\ attr_sum_count \in 0 .. N
          /\ active_count + 1 + Len(active_indices) <= m
        BY <1>1, <1>2, <2>1 DEF CountsFit
    <2>5. Len(active_indices) \in Nat
        BY DEF TypeInv, RefineInv, RefinerShape
    <2>6. active_count' \in 0 .. N /\ active_count' + Len(active_indices) <= m
        BY <1>1, <2>2, <2>4, <2>5, VerticesFinite
    <2> QED
        BY <1>1, <2>3, <2>4, <2>6 DEF CountsFit
<1>6. Elsewhere'
    BY <1>1, <1>2 DEF Elsewhere, InPlace, Cell, NewTrace
<1> QED
    BY <1>3, <1>4, <1>5, <1>6 DEF Typed

\* The trace when the next active index is recorded or compared.
LEMMA ActiveFits ==
    ASSUME trace \in Traces, Len(trace.sums) = Len(trace.active_indices), cmp \in {-1, 0},
           active_count \in Nat, cmp = -1 => Len(trace.sums) = active_count,
           NEW k \in Vertices, NEW o, o = trace_active_index(k), o.cmp # 1
    PROVE  OutcomeFits(o) /\ o.cmp \in {-1, 0}
<1>1. Len(trace.sums) \in Nat
    BY DEF Traces
<1>2. CASE cmp = -1
    <2>1. o.trace = Pushed(trace, k) /\ o.cmp = -1
        BY <1>2 DEF trace_active_index, Outcome
    <2>2. PICK w : w = Pushed(trace, k)
        OBVIOUS
    <2>3. /\ w \in Traces /\ Len(w.sums) = active_count + 1
          /\ Len(w.active_indices) = active_count + 1
        BY <1>2, <2>2, PushedIs
    <2> QED
        BY <2>1, <2>2, <2>3 DEF OutcomeFits
<1>3. CASE cmp # -1
    <2>1. \/ o = Outcome(trace, 1)
          \/ /\ ~ (active_count >= Len(trace.active_indices))
             /\ \/ o = Outcome(Pushed(Resized(trace, active_count), k), -1)
                \/ o = Outcome(trace, 0)
        BY <1>3 DEF trace_active_index
    <2>2. active_count < Len(trace.sums)
        BY <1>1, <2>1 DEF Outcome
    <2>3. CASE o = Outcome(trace, 0)
        BY <2>2, <2>3 DEF Outcome, OutcomeFits
    <2>4. CASE o = Outcome(Pushed(Resized(trace, active_count), k), -1)
        <3>1. PICK r : r = Resized(trace, active_count)
            OBVIOUS
        <3>2. r \in Traces /\ Len(r.sums) = active_count /\ Len(r.active_indices) = active_count
            BY <1>1, <2>2, <3>1, ResizedIs
        <3>3. PICK w : w = Pushed(r, k)
            OBVIOUS
        <3>4. /\ w \in Traces /\ Len(w.sums) = active_count + 1
              /\ Len(w.active_indices) = active_count + 1
            BY <3>2, <3>3, PushedIs
        <3>5. o.trace = w /\ o.cmp = -1
            BY <2>4, <3>1, <3>3 DEF Outcome
        <3> QED
            BY <3>4, <3>5 DEF OutcomeFits
    <2>5. CASE o = Outcome(trace, 1)
        BY <2>5 DEF Outcome
    <2> QED
        BY <2>1, <2>3, <2>4, <2>5
<1> QED
    BY <1>2, <1>3

\* A sum is sown into every vertex next to the active cell.
LEMMA SowTypes ==
    ASSUME TypeInv, SowActiveCell
    PROVE  Typed'
<1>1. PICK k : k = Last(active_indices)
    OBVIOUS
<1>2. PICK C : C = Cell(index_containing, k)
    OBVIOUS
<1>3. PICK o : o = trace_active_index(k)
    OBVIOUS
<1>4. /\ pc = "active" /\ active_indices # <<>> /\ o.cmp # 1
      /\ trace' = o.trace /\ cmp' = o.cmp
      /\ attr_sums' = [v \in DOMAIN attr_sums |->
             [i \in 1 .. 3 |-> attr_sums[v][i] + SownBy(graph, C, v)[i]]]
      /\ adjacent' = {index_containing[v] : v \in UNION {Neighbours(graph, u) : u \in C}}
      /\ active_indices' = Front(active_indices) /\ attr_sum_count' = 0 /\ pc' = "split"
      /\ UNCHANGED <<elements, index_containing, pending, active_count, graph, start, call, first>>
    BY <1>1, <1>2, <1>3 DEF SowActiveCell, nestVars, callVars
<1>5. TraceFits /\ SumsTyped /\ CountsFit /\ Elsewhere
    BY DEF TypeInv
<1>6. active_indices \in Seq(Vertices) /\ C \subseteq Vertices
    BY <1>2 DEF TypeInv, RefineInv, RefinerShape, Cell
<1>7. k \in Vertices
    <2>1. Len(active_indices) \in 1 .. Len(active_indices)
        BY <1>4, <1>6
    <2> QED
        BY <1>1, <1>6, <2>1 DEF Last
<1>8. TraceFits'
    <2>1. /\ trace \in Traces /\ Len(trace.sums) = Len(trace.active_indices) /\ cmp \in {-1, 0}
          /\ cmp = -1 => Len(trace.sums) = active_count
        BY <1>4, <1>5 DEF TraceFits
    <2>2. active_count \in Nat
        BY <1>5, VerticesFinite DEF CountsFit
    <2>3. OutcomeFits(o) /\ o.cmp \in {-1, 0}
        BY <1>3, <1>4, <1>7, <2>1, <2>2, ActiveFits
    <2>4. Outcome(trace, cmp)' = [trace |-> o.trace, cmp |-> o.cmp]
        BY <1>4 DEF Outcome
    <2>5. OutcomeFits(Outcome(trace, cmp))'
        BY <1>4, <2>3 DEF OutcomeFits, Outcome
    <2> QED
        BY <1>4, <2>3, <2>5 DEF TraceFits, OutcomeFits
<1>9. SumsTyped'
    <2>1. PICK n \in 0 .. N : attr_sums \in [0 .. n - 1 -> Sums]
        BY <1>5 DEF SumsTyped
    <2>2. attr_sums' \in [0 .. n - 1 -> Sums]
        <3> SUFFICES ASSUME NEW v \in 0 .. n - 1
                     PROVE  [i \in 1 .. 3 |-> attr_sums[v][i] + SownBy(graph, C, v)[i]] \in Sums
            BY <1>4, <2>1
        <3>1. attr_sums[v] = NoSum
            BY <1>4, <2>1 DEF TypeInv, RefineInv, SumsOfAdjacent
        <3>2. PICK d : d = SownBy(graph, C, v)
            OBVIOUS
        <3>3. d \in Sums
            BY <1>6, <3>2, SownTyped
        <3>4. \A i \in 1 .. 3 : attr_sums[v][i] = 0 /\ d[i] \in Nat /\ d[i] \in 0 .. N
            BY <3>1, <3>3, NoSumIsZero, VerticesFinite DEF Sums
        <3>5. \A i \in 1 .. 3 : attr_sums[v][i] + d[i] = d[i]
            BY <3>4
        <3> QED
            BY <3>2, <3>3, <3>4, <3>5 DEF Sums
    <2>3. DOMAIN attr_sums' = DOMAIN attr_sums
        BY <1>4
    <2>4. \A u, v \in Vertices : <<u, v>> \in graph =>
              u \in DOMAIN attr_sums' /\ v \in DOMAIN attr_sums'
        BY <1>5, <2>3 DEF SumsTyped
    <2>5. ASSUME NEW j \in adjacent'
          PROVE  \E v \in DOMAIN attr_sums' : index_containing[v] = j
        <3>1. PICK u \in C : \E v \in Neighbours(graph, u) : j = index_containing[v]
            BY <1>4
        <3>0. PICK v \in Neighbours(graph, u) : j = index_containing[v]
            BY <3>1
        <3>2. u \in Vertices /\ v \in Vertices /\ Kinds(graph, u, v) # {}
            BY <1>6, <3>0 DEF Neighbours
        <3>3. <<u, v>> \in graph \/ <<v, u>> \in graph
            BY <3>2 DEF Kinds
        <3> QED
            BY <2>4, <3>0, <3>2, <3>3
    <2> QED
        BY <1>4, <2>1, <2>2, <2>4, <2>5 DEF SumsTyped
<1>10. CountsFit'
    <2>1. PICK m : m = Cardinality(Nest!Indices(index_containing))
        OBVIOUS
    <2>2. m \in 1 .. N
        BY <2>1, CellsCount DEF TypeInv, RefineInv, RefinerShape, IndexedPartitions
    <2>3. Cardinality(Nest!Indices(index_containing))' = m
        BY <1>4, <2>1 DEF Nest!Indices
    <2>4. active_count \in 0 .. N /\ active_count + Len(active_indices) <= m
        BY <1>4, <1>5, <2>1 DEF CountsFit
    <2>5. Len(active_indices') = Len(active_indices) - 1 /\ Len(active_indices) \in Nat
        BY <1>4, <1>6, FrontIs
    <2>6. active_count + 1 + Len(active_indices') <= m /\ 0 < m /\ 0 \in 0 .. N
        BY <2>2, <2>4, <2>5, VerticesFinite
    <2> QED
        BY <1>4, <2>3, <2>4, <2>6 DEF CountsFit
<1>11. Elsewhere'
    BY <1>4, <1>5 DEF Elsewhere, InPlace, Cell, NewTrace
<1> QED
    BY <1>8, <1>9, <1>10, <1>11 DEF Typed

\* What the loop over the adjacent cells leaves of a cell.
LEMMA AfterTypes ==
    ASSUME TypeInv, pc = "split", NEW k \in adjacent, NEW o, AfterAdjacent(k, o), OutcomeFits(o),
           o.cmp \notin {1, 2} =>
               \A v \in Vertices : index_containing[v] # k =>
                   index_containing'[v] = index_containing[v]
    PROVE  TraceFits' /\ SumsTyped'
<1>1. TraceFits /\ SumsTyped
    BY DEF TypeInv
<1>2. /\ trace' = o.trace /\ cmp' = o.cmp
      /\ attr_sums' = Erased(IF o.cmp = 1 THEN adjacent ELSE {k})
      /\ adjacent' = IF o.cmp = 1 THEN {} ELSE adjacent \ {k}
      /\ pc' \in {"split", "done", "undefined"}
      /\ (pc' = "split" => o.cmp \in {-1, 0})
      /\ active_count' = active_count /\ graph' = graph
    BY DEF AfterAdjacent, callVars
<1>3. TraceFits'
    <2>1. OutcomeFits(Outcome(trace, cmp))'
        BY <1>2 DEF OutcomeFits, Outcome
    <2> QED
        BY <1>2, <2>1 DEF TraceFits, OutcomeFits
<1>4. PICK n \in 0 .. N : attr_sums \in [0 .. n - 1 -> Sums]
    BY <1>1 DEF SumsTyped
<1>5. DOMAIN attr_sums' = DOMAIN attr_sums /\ attr_sums' \in [0 .. n - 1 -> Sums]
    BY <1>2, <1>4, NoSumTyped DEF Erased
<1>6. \A u, v \in Vertices : <<u, v>> \in graph' =>
          u \in DOMAIN attr_sums' /\ v \in DOMAIN attr_sums'
    BY <1>1, <1>2, <1>5 DEF SumsTyped
<1>7. ASSUME pc' = "split", NEW j \in adjacent'
      PROVE  \E v \in DOMAIN attr_sums' : index_containing'[v] = j
    <2>1. j \in adjacent /\ j # k /\ o.cmp \notin {1, 2}
        BY <1>2, <1>7
    <2>2. PICK v \in DOMAIN attr_sums : index_containing[v] = j
        BY <1>1, <2>1 DEF SumsTyped
    <2>3. v \in Vertices
        BY <1>4, <2>2, VerticesFinite DEF Vertices
    <2> QED
        BY <1>5, <2>1, <2>2, <2>3
<1> QED
    BY <1>3, <1>4, <1>5, <1>6, <1>7 DEF SumsTyped

\* The vertex of a trivial cell is at its index.
LEMMA OnlyMember ==
    ASSUME NEW p \in IndexedPartitions, NEW e, InPlace(e, p), NEW k \in Nest!Indices(p),
           Cardinality(Cell(p, k)) = 1, NEW v \in Vertices, p[v] = k
    PROVE  k \in Vertices /\ e[k] = v
<1>1. k \in Vertices /\ IsFiniteSet(Cell(p, k))
    BY CellsFit, SetsOfVertices
<1>2. k \in Nat
    BY <1>1 DEF Vertices
<1>3. k <= k /\ k < k + 1
    BY <1>2
<1>4. k <= k /\ k < k + Cardinality(Cell(p, k))
    BY <1>3
<1>5. p[e[k]] = k
    BY <1>1, <1>4, PlacesOfCell
<1>6. e[k] \in Vertices
    BY <1>1 DEF InPlace
<1>7. e[k] \in Cell(p, k) /\ v \in Cell(p, k)
    BY <1>5, <1>6 DEF Cell
<1>8. PICK C : C = Cell(p, k)
    OBVIOUS
<1>9. \E x : C = {x}
    <2>1. IsFiniteSet(C) /\ Cardinality(C) = 1
        BY <1>1, <1>8
    <2> QED
        BY <2>1, FS_Singleton
<1> QED
    BY <1>1, <1>7, <1>8, <1>9

\* A trivial cell is compared.
LEMMA TrivialTypes ==
    ASSUME TypeInv, TraceTrivial
    PROVE  Typed'
<1>1. PICK k : k = Min(adjacent)
    OBVIOUS
<1>2. PICK entry : entry = <<k, attr_sums[elements[k]]>>
    OBVIOUS
<1>3. PICK o : o = trace_attr_sum(Outcome(trace, cmp), attr_sum_count, entry)
    OBVIOUS
<1>4. /\ pc = "split" /\ adjacent # {} /\ CellSize(k) = 1 /\ AfterAdjacent(k, o)
      /\ UNCHANGED <<elements, index_containing, pending, active_indices, attr_sum_count>>
    BY <1>1, <1>2, <1>3 DEF TraceTrivial, nestVars
<1>5. TraceFits /\ SumsTyped /\ CountsFit /\ Elsewhere
    BY DEF TypeInv
<1>6. /\ index_containing \in IndexedPartitions /\ k \in adjacent
      /\ k \in Nest!Indices(index_containing)
    BY <1>1, <1>4, FirstAdjacent DEF TypeInv, RefineInv, RefinerShape
<1>7. PICK n \in 0 .. N : attr_sums \in [0 .. n - 1 -> Sums]
    BY <1>5 DEF SumsTyped
<1>8. entry \in Vertices \X Sums
    <2>1. InPlace(elements, index_containing)
        BY <1>4, <1>5 DEF Elsewhere
    <2>2. PICK v \in DOMAIN attr_sums : index_containing[v] = k
        BY <1>4, <1>5, <1>6 DEF SumsTyped
    <2>3. v \in Vertices /\ attr_sums[v] \in Sums
        BY <1>7, <2>2, VerticesFinite DEF Vertices
    <2>4. Cardinality(Cell(index_containing, k)) = 1
        BY <1>4 DEF CellSize
    <2>5. k \in Vertices /\ elements[k] = v
        BY <1>6, <2>1, <2>2, <2>3, <2>4, OnlyMember
    <2> QED
        BY <1>2, <2>3, <2>5
<1>9. attr_sum_count \in Nat /\ active_count \in Nat
    BY <1>5, VerticesFinite DEF CountsFit
<1>10. OutcomeFits(Outcome(trace, cmp))
    BY <1>4, <1>5 DEF TraceFits
<1>11. OutcomeFits(o)
    BY <1>3, <1>8, <1>9, <1>10, EntryFits
<1>12. TraceFits' /\ SumsTyped'
    BY <1>4, <1>6, <1>11, AfterTypes
<1>13. /\ active_count' = active_count /\ UNCHANGED <<start, call, first>>
       /\ pc' \in {"split", "done", "undefined"}
    BY <1>4 DEF AfterAdjacent, callVars
<1>14. CountsFit'
    BY <1>4, <1>5, <1>13 DEF CountsFit, Nest!Indices
<1>15. Elsewhere'
    BY <1>4, <1>5, <1>13 DEF Elsewhere, InPlace, Cell, NewTrace
<1> QED
    BY <1>12, <1>14, <1>15 DEF Typed

\* Every entry that a split cell compares has a sum.
LEMMA SplitEntries ==
    ASSUME SumsTyped, index_containing \in IndexedPartitions,
           NEW k, NEW e, NEW P, NEW K, NEW s, NEW r, NEW o, SplitBy(k, e, P, K, s, r, o),
           HaveSums({k})
    PROVE  /\ \A u \in Cell(index_containing, k) : attr_sums[u] \in Sums
           /\ k \in P /\ k \in Vertices
           /\ \A i \in P : i \in Vertices /\ attr_sums[e[i]] \in Sums
           /\ \A i \in 1 .. Len(s) : s[i] \in K /\ s[i] \in P
<1>1. PICK n \in 0 .. N : attr_sums \in [0 .. n - 1 -> Sums]
    BY DEF SumsTyped
<1>2. \A u \in Cell(index_containing, k) : attr_sums[u] \in Sums
    BY <1>1 DEF HaveSums, Cell
<1>3. PICK C : C = Cell(index_containing, k)
    OBVIOUS
<1>4. e \in [P -> C] /\ P \subseteq Vertices
    BY <1>3 DEF SplitBy, IsSortedBy
<1>5. k \in P /\ k \in Vertices
    <2>1. k \in Nest!Indices(index_containing)
        BY DEF SplitBy
    <2>2. PICK m : m = Cardinality(Cell(index_containing, k))
        OBVIOUS
    <2>3. k \in Vertices /\ m \in Nat /\ m > 0
        BY <2>1, <2>2, CellsFit
    <2>4. P = k .. k + m - 1
        BY <2>2 DEF SplitBy
    <2>5. k \in Nat
        BY <2>3 DEF Vertices
    <2> QED
        BY <2>3, <2>4, <2>5
<1>6. \A i \in 1 .. Len(s) : s[i] \in K /\ s[i] \in P
    <2>1. Range(s) = K /\ K \subseteq P /\ s \in Seq(Vertices)
        BY DEF SplitBy
    <2> QED
        BY <2>1 DEF Range
<1> QED
    BY <1>2, <1>3, <1>4, <1>5, <1>6

\* The entries of a split cell are typed, and so is the trace they are appended to.
LEMMA SplitFits ==
    ASSUME TypeInv, pc = "split",
           NEW k, NEW e, NEW P, NEW K, NEW s, NEW r, NEW o, SplitBy(k, e, P, K, s, r, o),
           HaveSums({k})
    PROVE  OutcomeFits(o)
<1>1. SumsTyped /\ index_containing \in IndexedPartitions
    BY DEF TypeInv, RefineInv, RefinerShape
<1>2. /\ k \in P /\ k \in Vertices
      /\ \A i \in P : i \in Vertices /\ attr_sums[e[i]] \in Sums
      /\ \A i \in 1 .. Len(s) : s[i] \in K /\ s[i] \in P
    BY <1>1, SplitEntries
<1>3. PICK n : n = Len(s)
    OBVIOUS
<1>4. s = NewIndices(k, e) /\ n \in Nat /\ r \in 0 .. n
    BY <1>3 DEF SplitBy
<1>5. n = Len(NewIndices(k, e))
    BY <1>3, <1>4
<1>6. PICK f : f = Outcomes(k, e)
    OBVIOUS
<1>7. OutcomesUpTo(f, k, e, n) /\ o = f[r]
    <2>1. OutcomesUpTo(Outcomes(k, e), k, e, n)
        BY <1>4, <1>5, OutcomesAre
    <2> QED
        BY <1>6, <2>1 DEF SplitBy
<1>8. active_count \in Nat /\ attr_sum_count \in Nat
    BY VerticesFinite DEF TypeInv, CountsFit
<1>9. OutcomeFits(Outcome(trace, cmp))
    BY DEF TypeInv, TraceFits
<1>10. <<k, attr_sums[e[k]]>> \in Vertices \X Sums
    BY <1>2
<1>11. \A i \in 1 .. n : <<NewIndices(k, e)[i], attr_sums[e[NewIndices(k, e)[i]]]>>
                             \in Vertices \X Sums
    BY <1>2, <1>3, <1>4
<1> QED
    BY <1>4, <1>7, <1>8, <1>9, <1>10, <1>11, OutcomesFit

\* A cell is sorted and split.
LEMMA SplitTypes ==
    ASSUME TypeInv, sort_and_split_index
    PROVE  Typed'
<1>1. RefinerShape /\ TraceFits /\ SumsTyped /\ CountsFit /\ Elsewhere
    BY DEF TypeInv, RefineInv
<1>2. PICK k, e, P, K, s, r, o :
          /\ SplitBy(k, e, P, K, s, r, o) /\ SplitDoes(k, e, P, K, s, r, o)
          /\ HaveSums({k})
    BY <1>1, SplitsBy
<1>3. pc = "split"
    BY DEF sort_and_split_index
<1>4. index_containing \in IndexedPartitions /\ index_containing \in [Vertices -> Vertices]
    BY <1>1 DEF RefinerShape, IndexedPartitions
<1>5. /\ \A u \in Cell(index_containing, k) : attr_sums[u] \in Sums
      /\ k \in P /\ k \in Vertices
    BY <1>1, <1>2, <1>4, SplitEntries
<1>6. \A u \in Cell(index_containing, k) : attr_sums[u] \in [1 .. 3 -> Int]
    BY <1>5, VerticesFinite DEF Sums
<1>7. PICK q : q = Split(index_containing, P, e, k, K)
    OBVIOUS
<1>8. /\ IsSplit(index_containing, q, k, K) /\ q \in IndexedPartitions
      /\ SplitPlaced(index_containing, P, e, k, attr_sums, q)
    BY <1>2, <1>4, <1>6, <1>7, SplitByIs
<1>9. OutcomeFits(o)
    BY <1>2, <1>3, SplitFits
<1>10. /\ k \in adjacent /\ k \in Nest!Indices(index_containing)
       /\ P = k .. k + Cardinality(Cell(index_containing, k)) - 1 /\ P \subseteq Vertices
       /\ IsSortedBy(attr_sums, P, Cell(index_containing, k), e)
       /\ K = Changes(attr_sums, P, k, e) /\ K \subseteq P /\ K \subseteq Vertices
       /\ s \in Seq(Vertices) /\ Len(s) = Cardinality(K) /\ Range(s) = K
       /\ r \in 0 .. Len(s) /\ (o.cmp \notin {1, 2} => r = Len(s))
       /\ (cmp = -1 => o.cmp = -1)
    BY <1>2 DEF SplitBy
<1>11. /\ AfterAdjacent(k, o)
       /\ active_indices' = active_indices \o SubSeq(s, 1, r)
       /\ attr_sum_count' = attr_sum_count + r
       /\ elements' = [i \in Vertices |-> IF i \in P THEN e[i] ELSE elements[i]]
       /\ o.cmp \in {1, 2} =>
              pending' = Range(SubSeq(s, 1, r)) /\ index_containing' = index_containing
       /\ o.cmp \notin {1, 2} => pending' = pending /\ index_containing' = q
    BY <1>2, <1>7 DEF SplitDoes
<1>12. /\ pc' \in {"split", "done", "undefined"}
       /\ (pc' = "split" => o.cmp \in {-1, 0})
       /\ active_count' = active_count /\ UNCHANGED <<start, call, first>>
       /\ (pc' = "done" => o.cmp = 1)
    BY <1>11 DEF AfterAdjacent, callVars
<1>13. TraceFits' /\ SumsTyped'
    <2>1. o.cmp \notin {1, 2} =>
              \A v \in Vertices : index_containing[v] # k =>
                  index_containing'[v] = index_containing[v]
        BY <1>8, <1>11 DEF IsSplit
    <2> QED
        BY <1>3, <1>9, <1>10, <1>11, <2>1, AfterTypes
<1>14. PICK c : c = Cardinality(Nest!Indices(index_containing))
    OBVIOUS
<1>15. PICK l : l = Cardinality(K)
    OBVIOUS
<1>16. /\ l \in Nat /\ c \in 1 .. N /\ c + l <= N
       /\ Cardinality(Nest!Indices(q)) = c + l
    <2>1. PICK I : I = Nest!Indices(index_containing)
        OBVIOUS
    <2>2. I \subseteq Vertices /\ IsFiniteSet(I) /\ c = Cardinality(I) /\ c \in 1 .. N
        BY <1>4, <1>14, <2>1, CellsCount
    <2>3. IsFiniteSet(K) /\ l \in Nat
        BY <1>10, <1>15, SetsOfVertices
    <2>4. I \cap K = {} /\ Nest!Indices(q) = I \cup K
        BY <1>8, <1>10, <2>1 DEF IsSplit, SplitPlaced
    <2>5. Cardinality(I \cup K) = c + l
        <3>1. Cardinality(I \cup K) = Cardinality(I) + Cardinality(K) - Cardinality(I \cap K)
            BY <2>2, <2>3, FS_Union
        <3>2. Cardinality(I \cap K) = 0
            BY <2>4, FS_EmptySet
        <3> QED
            BY <1>15, <2>2, <2>3, <3>1, <3>2
    <2>6. Cardinality(I \cup K) <= N
        BY <1>10, <2>2, SetsOfVertices
    <2> QED
        BY <2>2, <2>3, <2>4, <2>5, <2>6
<1>17. /\ active_count \in 0 .. N /\ attr_sum_count \in 0 .. N
       /\ active_count + 1 + Len(active_indices) <= c /\ attr_sum_count < c
    BY <1>1, <1>3, <1>14 DEF CountsFit
<1>18. /\ active_indices \in Seq(Vertices) /\ Len(active_indices) \in Nat
       /\ Len(s) = l /\ r \in 0 .. l
    BY <1>1, <1>10, <1>15 DEF RefinerShape
<1>19. Len(active_indices') = Len(active_indices) + r
    <2>1. SubSeq(s, 1, r) \in Seq(Vertices) /\ Len(SubSeq(s, 1, r)) = r
        BY <1>10, <1>16, <1>18
    <2> QED
        BY <1>11, <1>18, <2>1
<1>20. CountsFit'
    <2>1. attr_sum_count' \in 0 .. N /\ active_count' \in 0 .. N
        BY <1>11, <1>12, <1>16, <1>17, <1>18, VerticesFinite
    <2>2. CASE pc' = "split"
        <3>1. o.cmp \notin {1, 2}
            BY <1>12, <2>2
        <3>2. index_containing' = q /\ r = l
            BY <1>10, <1>11, <1>18, <3>1
        <3>3. Cardinality(Nest!Indices(index_containing))' = c + l
            BY <1>16, <3>2 DEF Nest!Indices
        <3>4. /\ active_count' + 1 + Len(active_indices') <= c + l
              /\ attr_sum_count' < c + l
            <4>1. PICK a : a = Len(active_indices)
                OBVIOUS
            <4>2. a \in Nat /\ Len(active_indices') = a + l /\ active_count + 1 + a <= c
                BY <1>17, <1>18, <1>19, <3>2, <4>1
            <4>3. /\ active_count \in Nat /\ attr_sum_count \in Nat /\ c \in Nat /\ l \in Nat
                  /\ attr_sum_count < c /\ attr_sum_count' = attr_sum_count + l
                  /\ active_count' = active_count
                BY <1>11, <1>12, <1>16, <1>17, <3>2, VerticesFinite
            <4> QED
                BY <4>2, <4>3
        <3> QED
            BY <2>1, <2>2, <3>3, <3>4 DEF CountsFit
    <2>3. CASE pc' # "split"
        BY <1>12, <2>1, <2>3 DEF CountsFit
    <2> QED
        BY <2>2, <2>3
<1>21. Elsewhere'
    <2>1. InPlace(elements, index_containing)
        BY <1>1, <1>3 DEF Elsewhere
    <2>2. pending' \in SUBSET Vertices
        <3>1. \A x \in Range(SubSeq(s, 1, r)) : x \in Vertices
            <4>1. SubSeq(s, 1, r) \in Seq(Vertices)
                BY <1>10, <1>16, <1>18
            <4> QED
                BY <4>1 DEF Range
        <3> QED
            BY <1>1, <1>11, <3>1 DEF Elsewhere
    <2>3. elements' \in [Vertices -> Vertices]
        <3>1. e \in [P -> Vertices]
            BY <1>10 DEF IsSortedBy, Cell
        <3> QED
            BY <1>1, <1>11, <3>1 DEF Elsewhere
    <2>4. ASSUME pc' \in {"active", "split"} \/ (pc' = "done" /\ NewTrace')
          PROVE  InPlace(elements', index_containing')
        <3>1. o.cmp \notin {1, 2}
            <4>1. CASE pc' = "split"
                BY <1>12, <4>1
            <4>2. CASE pc' # "split"
                <5>1. NewTrace /\ o.cmp = 1
                    BY <1>12, <2>4, <4>2 DEF NewTrace
                <5>2. cmp = -1
                    BY <1>3, <5>1 DEF TypeInv, RefineInv, Recording
                <5> QED
                    BY <1>10, <5>1, <5>2
            <4> QED
                BY <4>1, <4>2
        <3>2. index_containing' = q
            BY <1>11, <3>1
        <3>3. SplitOf(index_containing, k, attr_sums, P, e, q)
            BY <1>8, <1>10 DEF SplitOf
        <3>4. InPlace(Placed(elements, P, e), q)
            BY <1>4, <1>10, <2>1, <3>3, SplitInPlace
        <3> QED
            BY <1>11, <3>2, <3>4 DEF Placed
    <2>5. (pc \in {"active", "split"} \/ (pc = "done" /\ NewTrace) =>
               InPlace(elements, index_containing))'
        BY <2>4 DEF InPlace, Cell, NewTrace
    <2> QED
        BY <1>1, <1>12, <2>2, <2>3, <2>5 DEF Elsewhere
<1> QED
    BY <1>13, <1>20, <1>21 DEF Typed

\* TypeInv is inductive.
LEMMA NextTypes == TypeInv /\ [Next]_vars => TypeInv'
<1> SUFFICES ASSUME TypeInv, [Next]_vars PROVE TypeInv'
    OBVIOUS
<1>1. RefineInv'
    BY NextRefines DEF TypeInv
<1>2. Typed'
    <2>1. CASE Step
        BY <2>1, EndTypes, SowTypes, TrivialTypes, SplitTypes, NextIndexTypes DEF Step
    <2>2. CASE \/ \E s \in Renamings : CallRenamed(s)
               \/ \E u \in Vertices : CallIndividualized(u)
               \/ \E o \in Others \cup {<<graph, start>>} : CallCompared(o[1], o[2])
        BY <2>2, SecondCallTypes
    <2>3. CASE Ended \/ UNCHANGED vars
        <3>1. UNCHANGED vars
            BY <2>3 DEF Ended
        <3>2. TraceFits /\ SumsTyped /\ CountsFit /\ Elsewhere
            BY DEF TypeInv
        <3>3. TraceFits'
            BY <3>1, <3>2 DEF vars, TraceFits, OutcomeFits, Outcome
        <3>4. SumsTyped'
            BY <3>1, <3>2 DEF vars, nestVars, callVars, SumsTyped
        <3>5. CountsFit'
            BY <3>1, <3>2 DEF vars, nestVars, CountsFit, Nest!Indices
        <3>6. Elsewhere'
            BY <3>1, <3>2 DEF vars, nestVars, callVars, Elsewhere, InPlace, Cell, NewTrace
        <3> QED
            BY <3>3, <3>4, <3>5, <3>6 DEF Typed
    <2> QED
        BY <2>1, <2>2, <2>3 DEF Next
<1> QED
    BY <1>1, <1>2 DEF TypeInv, Typed

\* The types of the variables: sums never outgrow their vector while they are sown, an index
\* becomes active once, and the cut of a recorded trace is always a trace.
THEOREM TypeCorrect == Spec => []TypeOK
<1>1. Spec => []TypeInv
    BY InitTypes, NextTypes, PTL DEF Spec
<1> QED
    BY <1>1, TypesFollow, PTL

-----------------------------------------------------------------------------
(* What a new trace records *)

\* The trace with the list L at the end of what was seen of the active index at hand.
Recorded(t, a, L) ==
    [active_indices |-> t.active_indices,
     sums |-> [t.sums EXCEPT ![a + 1] = t.sums[a + 1] \o L]]

\* A new trace is recorded, in the list of the active index at hand.
RecordsAt(t, a) ==
    t \in Traces /\ Len(t.sums) = a + 1 /\ Len(t.active_indices) = a + 1

\* A list grows at its end.
LEMMA AppendIs ==
    ASSUME NEW T, NEW s \in Seq(T), NEW x \in T
    PROVE  Append(s, x) = s \o <<x>>
<1>1. Append(s, x) \in Seq(T) /\ <<x>> \in Seq(T)
    OBVIOUS
<1>2. s \o <<x>> \in Seq(T)
    BY <1>1
<1>3. Len(Append(s, x)) = Len(s) + 1 /\ Len(s \o <<x>>) = Len(s) + 1
    OBVIOUS
<1>4. \A i \in 1 .. Len(s) + 1 : Append(s, x)[i] = (s \o <<x>>)[i]
    OBVIOUS
<1> QED
    BY <1>1, <1>2, <1>3, <1>4

\* The list of the active index at hand is one of entries.
LEMMA SeenIs ==
    ASSUME NEW a \in Nat, NEW t, RecordsAt(t, a)
    PROVE  t.sums[a + 1] \in Seq(Vertices \X Sums)
<1> DEFINE S == Seq(Vertices \X Sums)
<1>1. t.sums \in Seq(S) /\ Len(t.sums) = a + 1
    BY DEF RecordsAt, Traces
<1>2. a + 1 \in 1 .. Len(t.sums)
    BY <1>1
<1> QED
    BY <1>1, <1>2

\* Recorded appends to the list of the active index at hand and changes no other.
LEMMA RecordedIs ==
    ASSUME NEW a \in Nat, NEW t, RecordsAt(t, a), NEW L \in Seq(Vertices \X Sums)
    PROVE  /\ RecordsAt(Recorded(t, a, L), a)
           /\ Recorded(t, a, L).sums[a + 1] = t.sums[a + 1] \o L
           /\ t.sums[a + 1] \in Seq(Vertices \X Sums)
<1> DEFINE S == Seq(Vertices \X Sums)
<1>1. t.sums \in Seq(S) /\ Len(t.sums) = a + 1
    BY DEF RecordsAt, Traces
<1>2. a + 1 \in 1 .. Len(t.sums)
    BY <1>1
<1>3. t.sums[a + 1] \in S
    BY <1>1, <1>2
<1>4. PICK x : x = t.sums[a + 1] \o L
    OBVIOUS
<1>5. x \in S
    BY <1>3, <1>4
<1> HIDE DEF S
<1>6. PICK b : b = [t.sums EXCEPT ![a + 1] = x]
    OBVIOUS
<1>7. b \in Seq(S) /\ Len(b) = a + 1 /\ b[a + 1] = x
    BY <1>1, <1>2, <1>5, <1>6
<1>8. t.active_indices \in Seq(Vertices) /\ Len(t.active_indices) = a + 1
    BY DEF RecordsAt, Traces
<1>9. Recorded(t, a, L) = [active_indices |-> t.active_indices, sums |-> b]
    BY <1>4, <1>6 DEF Recorded
<1>10. RecordsAt(Recorded(t, a, L), a)
    BY <1>7, <1>8, <1>9 DEF RecordsAt, Traces, S
<1>11. Recorded(t, a, L).sums[a + 1] = x
    BY <1>7, <1>9
<1> QED
    BY <1>3, <1>4, <1>10, <1>11 DEF S

\* A recorded entry is appended.
LEMMA EntryRecorded ==
    ASSUME active_count \in Nat, NEW o, o.cmp = -1, RecordsAt(o.trace, active_count),
           NEW n, NEW entry \in Vertices \X Sums
    PROVE  trace_attr_sum(o, n, entry) =
               Outcome(Recorded(o.trace, active_count, <<entry>>), -1)
<1>1. PICK t, a : t = o.trace /\ a = active_count
    OBVIOUS
<1>2. a \in Nat /\ RecordsAt(t, a)
    BY <1>1
<1> DEFINE S == Seq(Vertices \X Sums)
<1>3. PICK seen : seen = t.sums[a + 1]
    OBVIOUS
<1>4. seen \in S
    BY <1>2, <1>3, SeenIs
<1>5. t.sums \in Seq(S) /\ Len(t.sums) = a + 1
    BY <1>2 DEF RecordsAt, Traces
<1>6. t.active_indices \in Seq(Vertices) /\ Len(t.active_indices) = a + 1
    BY <1>2 DEF RecordsAt, Traces
<1>7. SubSeq(seen, 1, Len(seen)) = seen
    BY <1>4
<1>8. Append(seen, entry) = seen \o <<entry>>
    BY <1>4, AppendIs
<1> HIDE DEF S
<1>9. SubSeq(t.sums, 1, a + 1) = t.sums
    BY <1>5
<1>10. SubSeq(t.active_indices, 1, a + 1) = t.active_indices
    BY <1>6
<1>11. PICK c, d : c = t.active_indices /\ d = t.sums
    OBVIOUS
<1>12. Resized(t, a + 1) = [active_indices |-> c, sums |-> d]
    BY <1>9, <1>10, <1>11 DEF Resized
<1>13. WithEntry(t, a, Len(seen), entry)
         = [[active_indices |-> c, sums |-> d] EXCEPT
                !.sums[a + 1] = Append(SubSeq(d[a + 1], 1, Len(seen)), entry)]
    <2>1. PICK r : r = Resized(t, a + 1)
        OBVIOUS
    <2>2. WithEntry(t, a, Len(seen), entry)
            = [r EXCEPT !.sums[a + 1] = Append(SubSeq(r.sums[a + 1], 1, Len(seen)), entry)]
        BY <2>1 DEF WithEntry
    <2>3. r.sums = d
        BY <1>12, <2>1
    <2>4. PICK y : y = Append(SubSeq(d[a + 1], 1, Len(seen)), entry)
        OBVIOUS
    <2>5. WithEntry(t, a, Len(seen), entry) = [r EXCEPT !.sums[a + 1] = y]
        BY <2>2, <2>3, <2>4
    <2> QED
        BY <1>12, <2>1, <2>4, <2>5
<1>14. Append(SubSeq(d[a + 1], 1, Len(seen)), entry) = d[a + 1] \o <<entry>>
    BY <1>3, <1>7, <1>8, <1>11
<1>15. PICK b : b = [d EXCEPT ![a + 1] = d[a + 1] \o <<entry>>]
    OBVIOUS
<1>16. WithEntry(t, a, Len(seen), entry) = [active_indices |-> c, sums |-> b]
    <2>1. WithEntry(t, a, Len(seen), entry)
            = [[active_indices |-> c, sums |-> d] EXCEPT !.sums[a + 1] = d[a + 1] \o <<entry>>]
        BY <1>13, <1>14
    <2> QED
        BY <1>15, <2>1
<1>17. WithEntry(t, a, Len(seen), entry) = Recorded(t, a, <<entry>>)
    BY <1>11, <1>15, <1>16 DEF Recorded
<1>18. trace_attr_sum(o, n, entry) = Outcome(WithEntry(t, a, Len(seen), entry), -1)
    BY <1>1, <1>3 DEF trace_attr_sum
<1> QED
    BY <1>1, <1>17, <1>18

\* Entries are recorded one after the other.
LEMMA RecordedTwice ==
    ASSUME NEW a \in Nat, NEW t, RecordsAt(t, a), NEW L \in Seq(Vertices \X Sums),
           NEW M \in Seq(Vertices \X Sums)
    PROVE  Recorded(Recorded(t, a, L), a, M) = Recorded(t, a, L \o M)
<1>1. PICK r : r = Recorded(t, a, L)
    OBVIOUS
<1>2. PICK x : x = t.sums[a + 1]
    OBVIOUS
<1>3. x \in Seq(Vertices \X Sums) /\ r.sums[a + 1] = x \o L
    BY <1>1, <1>2, RecordedIs
<1>4. r.sums[a + 1] \o M = x \o (L \o M)
    <2>1. (x \o L) \o M = x \o (L \o M)
        BY <1>3
    <2> QED
        BY <1>3, <2>1
<1>5. PICK y : y = x \o (L \o M)
    OBVIOUS
<1>6. PICK z : z = x \o L
    OBVIOUS
<1>7. r.sums = [t.sums EXCEPT ![a + 1] = z] /\ r.active_indices = t.active_indices
    BY <1>1, <1>2, <1>6 DEF Recorded
<1>8. [r.sums EXCEPT ![a + 1] = y] = [t.sums EXCEPT ![a + 1] = y]
    BY <1>7
<1>9. Recorded(r, a, M) = [active_indices |-> t.active_indices,
                           sums |-> [t.sums EXCEPT ![a + 1] = y]]
    BY <1>4, <1>5, <1>7, <1>8 DEF Recorded
<1>10. Recorded(t, a, L \o M) = [active_indices |-> t.active_indices,
                                 sums |-> [t.sums EXCEPT ![a + 1] = y]]
    BY <1>2, <1>5 DEF Recorded
<1> QED
    BY <1>1, <1>9, <1>10

\* A prefix and the next element.
LEMMA PrefixGrows ==
    ASSUME NEW T, NEW L \in Seq(T), NEW j \in Nat, j + 1 <= Len(L)
    PROVE  SubSeq(L, 1, j + 1) = SubSeq(L, 1, j) \o <<L[j + 1]>>
<1>1. PICK x : x = L[j + 1]
    OBVIOUS
<1>2. x \in T
    BY <1>1
<1>3. PICK M : M = SubSeq(L, 1, j)
    OBVIOUS
<1>4. M \in Seq(T) /\ Len(M) = j /\ \A i \in 1 .. j : M[i] = L[i]
    BY <1>3
<1>5. Append(M, x) = M \o <<x>>
    BY <1>2, <1>4, AppendIs
<1>6. PICK s : s = SubSeq(L, 1, j + 1)
    OBVIOUS
<1>7. s \in Seq(T) /\ Len(s) = j + 1 /\ \A i \in 1 .. j + 1 : s[i] = L[i]
    BY <1>6
<1>8. PICK r : r = Append(M, x)
    OBVIOUS
<1>9. r \in Seq(T) /\ Len(r) = j + 1
    BY <1>2, <1>4, <1>8
<1>10. \A i \in 1 .. j + 1 : r[i] = L[i]
    BY <1>1, <1>4, <1>8
<1>11. s = r
    BY <1>7, <1>9, <1>10
<1> QED
    BY <1>1, <1>3, <1>5, <1>6, <1>8, <1>11

\* L has what the first n + 1 comparisons of a split cell compare.
IsRecord(L, k, e, n) ==
    /\ L \in Seq(Vertices \X Sums) /\ Len(L) = n + 1 /\ L[1] = <<k, attr_sums[e[k]]>>
    /\ \A i \in 1 .. n : L[i + 1] = <<NewIndices(k, e)[i], attr_sums[e[NewIndices(k, e)[i]]]>>

\* A new trace records one entry after the other.
LEMMA AllRecorded ==
    ASSUME active_count \in Nat, cmp = -1, RecordsAt(trace, active_count),
           NEW k, NEW e, NEW n \in Nat, NEW f, OutcomesUpTo(f, k, e, n),
           NEW L, IsRecord(L, k, e, n)
    PROVE  f[n] = Outcome(Recorded(trace, active_count, L), -1)
<1>0. /\ L \in Seq(Vertices \X Sums) /\ Len(L) = n + 1 /\ L[1] = <<k, attr_sums[e[k]]>>
      /\ \A i \in 1 .. n :
             L[i + 1] = <<NewIndices(k, e)[i], attr_sums[e[NewIndices(k, e)[i]]]>>
    BY DEF IsRecord
<1> DEFINE Good(i) == f[i] = Outcome(Recorded(trace, active_count, SubSeq(L, 1, i + 1)), -1)
<1> DEFINE T == {j \in 0 .. n : ~ Good(j)}
<1>1. ASSUME NEW j \in 0 .. n, j # 0 => Good(j - 1)
      PROVE  Good(j)
    <2>1. f[j] = IF j = 0 THEN FirstOutcome(k, e) ELSE NextOutcome(k, e, j, f[j - 1])
        BY <1>1 DEF OutcomesUpTo
    <2>2. L[j + 1] \in Vertices \X Sums
        BY <1>0, <1>1
    <2>3. PICK entry : entry = L[j + 1]
        OBVIOUS
    <2>4. CASE j = 0
        <3>1. PICK o : o = Outcome(trace, cmp)
            OBVIOUS
        <3>2. o.cmp = -1 /\ o.trace = trace
            BY <3>1 DEF Outcome
        <3>3. f[j] = trace_attr_sum(o, attr_sum_count, entry)
            <4>1. entry = <<k, attr_sums[e[k]]>>
                BY <1>0, <2>3, <2>4
            <4>2. f[j] = FirstOutcome(k, e)
                BY <2>1, <2>4
            <4> QED
                BY <3>1, <4>1, <4>2 DEF FirstOutcome
        <3>4. f[j] = Outcome(Recorded(trace, active_count, <<entry>>), -1)
            <4>1. RecordsAt(o.trace, active_count) /\ entry \in Vertices \X Sums
                BY <2>2, <2>3, <3>2
            <4> QED
                BY <3>2, <3>3, <4>1, EntryRecorded
        <3>5. SubSeq(L, 1, 1) = <<entry>>
            <4>1. PICK s : s = SubSeq(L, 1, 1)
                OBVIOUS
            <4>2. s \in Seq(Vertices \X Sums) /\ Len(s) = 1 /\ s[1] = L[1]
                BY <1>0, <4>1
            <4>3. s = <<L[1]>>
                BY <4>2
            <4>4. L[1] = entry
                BY <2>3, <2>4
            <4> QED
                BY <4>1, <4>3, <4>4
        <3>6. j + 1 = 1
            BY <2>4
        <3> QED
            BY <3>4, <3>5, <3>6
    <2>5. CASE j # 0
        <3>1. j \in 1 .. n /\ j - 1 \in 0 .. n /\ j \in Nat
            BY <1>1, <2>5
        <3>2. PICK M : M = SubSeq(L, 1, j)
            OBVIOUS
        <3>3. M \in Seq(Vertices \X Sums)
            BY <1>0, <3>1, <3>2
        <3>4. PICK r : r = Recorded(trace, active_count, M)
            OBVIOUS
        <3>5. RecordsAt(r, active_count)
            BY <3>3, <3>4, RecordedIs
        <3>6. PICK o : o = f[j - 1]
            OBVIOUS
        <3>7. o = Outcome(r, -1)
            <4>1. j - 1 + 1 = j
                BY <3>1
            <4> QED
                BY <1>1, <2>5, <3>2, <3>4, <3>6, <4>1
        <3>8. o.cmp = -1 /\ o.trace = r
            BY <3>7 DEF Outcome
        <3>9. f[j] = trace_attr_sum(o, attr_sum_count + j - 1, entry)
            BY <1>0, <2>1, <2>3, <2>5, <3>1, <3>6 DEF NextOutcome
        <3>10. f[j] = Outcome(Recorded(r, active_count, <<entry>>), -1)
            <4>1. RecordsAt(o.trace, active_count) /\ entry \in Vertices \X Sums
                BY <2>2, <2>3, <3>5, <3>8
            <4> QED
                BY <3>8, <3>9, <4>1, EntryRecorded
        <3>11. PICK x : x = <<entry>>
            OBVIOUS
        <3>12. x \in Seq(Vertices \X Sums)
            BY <2>2, <2>3, <3>11
        <3>13. Recorded(r, active_count, x) = Recorded(trace, active_count, M \o x)
            BY <3>3, <3>4, <3>12, RecordedTwice
        <3>14. M \o x = SubSeq(L, 1, j + 1)
            <4>1. j + 1 <= Len(L)
                BY <1>0, <3>1
            <4> QED
                BY <1>0, <2>3, <3>1, <3>2, <3>11, <4>1, PrefixGrows
        <3> QED
            BY <3>10, <3>11, <3>13, <3>14
    <2> QED
        BY <2>4, <2>5
<1> HIDE DEF Good
<1>2. T = {}
    <2> SUFFICES ASSUME T # {} PROVE FALSE
        OBVIOUS
    <2>1. T \in SUBSET Nat
        OBVIOUS
    <2>2. PICK j \in T : \A l \in T : j <= l
        BY <2>1, Least
    <2>3. j \in 0 .. n /\ ~ Good(j)
        OBVIOUS
    <2>4. j # 0 => j - 1 \in 0 .. n /\ ~ (j <= j - 1)
        BY <2>3
    <2>5. j # 0 => Good(j - 1)
        BY <2>2, <2>4
    <2> QED
        BY <1>1, <2>3, <2>5
<1>3. Good(n)
    BY <1>2
<1>4. SubSeq(L, 1, n + 1) = L
    BY <1>0
<1> QED
    BY <1>3, <1>4 DEF Good

-----------------------------------------------------------------------------
(* A refinement as a function *)

\* The sum of a cell whose vertices have equal sums.
SumAt(g, C, p, j) == CHOOSE x \in {SownBy(g, C, v) : v \in Cell(p, j)} : TRUE

\* The cell at k split by what C sows.
SplitBySums(g, p, C, k) ==
    [u \in Vertices |->
        IF p[u] # k THEN p[u]
        ELSE Cardinality({w \in Vertices :
                 p[w] < k \/ (p[w] = k /\ LessSum(SownBy(g, C, w), SownBy(g, C, u)))})]

\* The new indices of a partition.
NewOf(p, q) == Nest!Indices(q) \ Nest!Indices(p)

\* What is recorded when the cell at k is split at the indices K.
EntriesOf(g, C, q, k, K) ==
    [i \in 1 .. Cardinality(K) + 1 |->
        <<IF i = 1 THEN k ELSE Ascending(K)[i - 1],
          SumAt(g, C, q, IF i = 1 THEN k ELSE Ascending(K)[i - 1])>>]

\* The order of the sums.
LessNotBoth ==
    \A a, b \in [1 .. 3 -> Int] : ~ (LessSum(a, b) /\ LessSum(b, a))

\* Of two sums at most one is less than the other.
LEMMA SumsOrder == LessNotBoth
<1> SUFFICES ASSUME NEW a \in [1 .. 3 -> Int], NEW b \in [1 .. 3 -> Int],
                    LessSum(a, b), LessSum(b, a)
             PROVE  FALSE
    BY DEF LessNotBoth
<1>1. PICK i \in 1 .. 3 : a[i] < b[i] /\ \A j \in 1 .. i - 1 : a[j] = b[j]
    BY DEF LessSum
<1>2. PICK l \in 1 .. 3 : b[l] < a[l] /\ \A j \in 1 .. l - 1 : b[j] = a[j]
    BY DEF LessSum
<1>3. /\ a[i] \in Int /\ b[i] \in Int /\ a[l] \in Int /\ b[l] \in Int
      /\ i \in 1 .. l - 1 \/ l \in 1 .. i - 1 \/ i = l
    OBVIOUS
<1> QED
    BY <1>1, <1>2, <1>3

\* Splitting a cell with several vertices.
LEMMA SplitIsBySums ==
    ASSUME NEW g, NEW C, C \subseteq Vertices, NEW p \in IndexedPartitions,
           NEW q \in IndexedPartitions, NEW k \in Nest!Indices(p),
           KeepsOrder(p, q), \A u \in Vertices : p[u] # k => q[u] = p[u],
           \A u, v \in Cell(p, k) : q[u] = q[v] <=> SownBy(g, C, u) = SownBy(g, C, v),
           \A u, v \in Cell(p, k) : q[u] < q[v] => LessSum(SownBy(g, C, u), SownBy(g, C, v))
    PROVE  q = SplitBySums(g, p, C, k)
<1>1. /\ q \in [Vertices -> Vertices] /\ p \in [Vertices -> Vertices] /\ Vertices \subseteq Nat
      /\ k \in Vertices
    <2>1. k \in Vertices
        BY CellsFit
    <2>2. Vertices \subseteq Nat
        BY DEF Vertices
    <2> QED
        BY <2>1, <2>2 DEF IndexedPartitions
<1>2. ASSUME NEW u \in Vertices, p[u] = k, NEW w \in Vertices
      PROVE  q[w] < q[u] <=> (p[w] < k \/ (p[w] = k /\ LessSum(SownBy(g, C, w), SownBy(g, C, u))))
    <2>1. p[w] \in Nat /\ p[u] \in Nat /\ q[w] \in Nat /\ q[u] \in Nat /\ k \in Nat
        BY <1>1
    <2>2. CASE p[w] < k
        BY <1>2, <2>1, <2>2 DEF KeepsOrder
    <2>3. CASE p[w] > k
        <3>1. q[u] < q[w]
            BY <1>2, <2>1, <2>3 DEF KeepsOrder
        <3> QED
            BY <2>1, <2>3, <3>1
    <2>4. CASE p[w] = k
        <3>1. u \in Cell(p, k) /\ w \in Cell(p, k)
            BY <1>2, <2>4 DEF Cell
        <3>2. SownBy(g, C, u) \in [1 .. 3 -> Int] /\ SownBy(g, C, w) \in [1 .. 3 -> Int]
            <4>1. \A v : SownBy(g, C, v) \in [1 .. 3 -> Nat]
                BY SownIs
            <4> QED
                BY <4>1
        <3>3. PICK a, b : a = SownBy(g, C, w) /\ b = SownBy(g, C, u)
            OBVIOUS
        <3>4. /\ a \in [1 .. 3 -> Int] /\ b \in [1 .. 3 -> Int]
              /\ (q[w] = q[u] <=> a = b) /\ (q[w] < q[u] => LessSum(a, b))
              /\ (q[u] < q[w] => LessSum(b, a))
            BY <3>1, <3>2, <3>3
        <3>5. ~ (LessSum(a, b) /\ LessSum(b, a)) /\ ~ (a = b /\ LessSum(a, b))
            BY <3>4, SumsOrder DEF LessNotBoth
        <3>6. q[w] < q[u] <=> LessSum(a, b)
            BY <2>1, <3>4, <3>5
        <3> QED
            BY <2>1, <2>4, <3>3, <3>6
    <2> QED
        BY <2>1, <2>2, <2>3, <2>4
<1>3. ASSUME NEW u \in Vertices, p[u] = k
      PROVE  q[u] = SplitBySums(g, p, C, k)[u]
    <2>1. q[u] = Cardinality({w \in Vertices : q[w] < q[u]})
        BY DEF IndexedPartitions
    <2>2. {w \in Vertices : q[w] < q[u]} =
              {w \in Vertices :
                 p[w] < k \/ (p[w] = k /\ LessSum(SownBy(g, C, w), SownBy(g, C, u)))}
        BY <1>2, <1>3
    <2> QED
        BY <1>3, <2>1, <2>2 DEF SplitBySums
<1>4. \A u \in Vertices : q[u] = SplitBySums(g, p, C, k)[u]
    BY <1>3 DEF SplitBySums
<1> QED
    BY <1>1, <1>4 DEF SplitBySums

\* A state of a refinement, the nest reduced to its indices and the sums to the cell that was
\* sown, "by".
State(p, A, n, C, J, t, x) ==
    [index |-> p, active |-> A, count |-> n, by |-> C, adjacent |-> J, trace |-> t, pc |-> x]

\* The cells of p next to C.
NextTo(g, p, C) == {p[v] : v \in UNION {Neighbours(g, u) : u \in C}}

\* The last active cell is sown.
SowAfter(g, a) ==
    LET C == Cell(a.index, Last(a.active))
    IN  State(a.index, Front(a.active), a.count, C, NextTo(g, a.index, C),
              Pushed(a.trace, Last(a.active)), "split")

\* The first adjacent cell is split by the sums, into its parts in ascending order.
SplitAfter(g, a) ==
    LET k == Min(a.adjacent)
        q == SplitBySums(g, a.index, a.by, k)
        K == NewOf(a.index, q)
    IN  State(q, a.active \o Ascending(K), a.count, a.by, a.adjacent \ {k},
              Recorded(a.trace, a.count, EntriesOf(g, a.by, q, k, K)), "split")

\* No adjacent cell is left.
CountAfter(a) ==
    State(a.index, a.active, a.count + 1, a.by, a.adjacent, a.trace, "active")

\* No active cell is left.
EndAfter(a) == State(a.index, a.active, a.count, a.by, a.adjacent, a.trace, "done")

\* What follows a state on a new trace.
After(g, a) ==
    IF a.pc = "active"
    THEN IF a.active = <<>> THEN EndAfter(a) ELSE SowAfter(g, a)
    ELSE IF a.adjacent = {} THEN CountAfter(a) ELSE SplitAfter(g, a)

\* The state at hand, if C was sown last.
Now(C) ==
    State(index_containing, active_indices, active_count, C, adjacent, trace, pc)

\* The cells that are still to be split have the sums of the arcs with C.
SowedBy(C) ==
    /\ C \subseteq Vertices
    /\ pc = "split" =>
           \A v \in DOMAIN attr_sums :
               index_containing[v] \in adjacent => attr_sums[v] = SownBy(graph, C, v)

\* No vertex was found that lies past the last one with an arc.
Going == pc \in {"active", "split", "done"}

\* Equal sums are the sum of their cell.
LEMMA SumAtIs ==
    ASSUME NEW g, NEW C, NEW q, NEW j, NEW x \in Cell(q, j),
           \A v \in Cell(q, j) : SownBy(g, C, v) = SownBy(g, C, x)
    PROVE  SumAt(g, C, q, j) = SownBy(g, C, x)
<1>1. PICK T : T = {SownBy(g, C, v) : v \in Cell(q, j)}
    OBVIOUS
<1>2. PICK y : y = SownBy(g, C, x)
    OBVIOUS
<1>3. y \in T /\ \A z \in T : z = y
    BY <1>1, <1>2
<1>4. (CHOOSE z \in T : TRUE) \in T
    BY <1>3
<1>5. (CHOOSE z \in T : TRUE) = y
    BY <1>3, <1>4
<1> QED
    BY <1>1, <1>2, <1>5 DEF SumAt

\* The next active index.
LEMMA NextFollows ==
    ASSUME TypeInv, NextActiveIndex, NEW C, SowedBy(C)
    PROVE  Now(C)' = After(graph, Now(C)) /\ SowedBy(C)'
<1>1. /\ UNCHANGED <<index_containing, active_indices, attr_sums, adjacent, trace, graph>>
      /\ active_count' = active_count + 1 /\ pc = "split" /\ pc' = "active" /\ adjacent = {}
    BY DEF NextActiveIndex, nestVars, callVars
<1>2. After(graph, Now(C)) = CountAfter(Now(C))
    BY <1>1 DEF After, Now, State
<1>3. Now(C)' = CountAfter(Now(C))
    BY <1>1 DEF Now, CountAfter, State
<1> QED
    BY <1>1, <1>2, <1>3 DEF SowedBy

\* The end.
LEMMA ReturnFollows ==
    ASSUME TypeInv, Return, NEW C, SowedBy(C)
    PROVE  Now(C)' = After(graph, Now(C)) /\ SowedBy(C)'
<1>1. /\ UNCHANGED <<index_containing, active_indices, attr_sums, adjacent, trace, graph,
                     active_count>>
      /\ pc = "active" /\ pc' = "done" /\ active_indices = <<>>
    BY DEF Return, nestVars, callVars
<1>2. After(graph, Now(C)) = EndAfter(Now(C))
    BY <1>1 DEF After, Now, State
<1>3. Now(C)' = EndAfter(Now(C))
    BY <1>1 DEF Now, EndAfter, State
<1> QED
    BY <1>1, <1>2, <1>3 DEF SowedBy

\* A new trace is never compared.
LEMMA NothingLarger ==
    ASSUME cmp = -1
    PROVE  \A k : trace_active_index(k) = Outcome(Pushed(trace, k), -1)
BY DEF trace_active_index

\* A cell is sown on a new trace.
LEMMA SowFollows ==
    ASSUME TypeInv, SowActiveCell, cmp = -1, NEW B, SowedBy(B)
    PROVE  \E C : Now(C)' = After(graph, Now(B)) /\ SowedBy(C)'
<1>1. PICK k : k = Last(active_indices)
    OBVIOUS
<1>2. PICK C : C = Cell(index_containing, k)
    OBVIOUS
<1>3. PICK o : o = trace_active_index(k)
    OBVIOUS
<1>4. /\ pc = "active" /\ active_indices # <<>>
      /\ trace' = o.trace
      /\ attr_sums' = [v \in DOMAIN attr_sums |->
             [i \in 1 .. 3 |-> attr_sums[v][i] + SownBy(graph, C, v)[i]]]
      /\ adjacent' = {index_containing[v] : v \in UNION {Neighbours(graph, u) : u \in C}}
      /\ active_indices' = Front(active_indices) /\ pc' = "split"
      /\ UNCHANGED <<index_containing, active_count, graph>>
    BY <1>1, <1>2, <1>3 DEF SowActiveCell, nestVars, callVars
<1>5. o.trace = Pushed(trace, k)
    BY <1>3, NothingLarger DEF Outcome
<1>6. After(graph, Now(B)) = SowAfter(graph, Now(B))
    BY <1>4 DEF After, Now, State
<1>7. PICK J : J = {index_containing[v] : v \in UNION {Neighbours(graph, u) : u \in C}}
    OBVIOUS
<1>8. SowAfter(graph, Now(B)) =
          State(index_containing, Front(active_indices), active_count, C, J, Pushed(trace, k), "split")
    <2>1. PICK a : a = Now(B)
        OBVIOUS
    <2>2. /\ a.index = index_containing /\ a.active = active_indices /\ a.count = active_count
          /\ a.trace = trace
        BY <2>1 DEF Now, State
    <2>3. SowAfter(graph, a) =
              State(index_containing, Front(active_indices), active_count, C,
                    NextTo(graph, index_containing, C), Pushed(trace, k), "split")
        BY <1>1, <1>2, <2>2 DEF SowAfter
    <2> QED
        BY <1>7, <2>1, <2>3 DEF NextTo
<1>9. Now(C)' = State(index_containing, Front(active_indices), active_count, C, J, Pushed(trace, k), "split")
    BY <1>4, <1>5, <1>7 DEF Now, State
<1>10. SowedBy(C)'
    <2>1. C \subseteq Vertices
        BY <1>2 DEF Cell
    <2>2. ASSUME NEW v \in DOMAIN attr_sums
          PROVE  attr_sums'[v] = SownBy(graph', C, v)
        <3>1. attr_sums[v] = NoSum
            BY <1>4 DEF TypeInv, RefineInv, SumsOfAdjacent
        <3>2. PICK d : d = SownBy(graph, C, v)
            OBVIOUS
        <3>3. d \in [1 .. 3 -> Nat]
            BY <2>1, <3>2, SownIs
        <3>4. \A i \in 1 .. 3 : attr_sums[v][i] = 0
            BY <3>1, NoSumIsZero
        <3>5. \A i \in 1 .. 3 : attr_sums[v][i] + d[i] = d[i]
            BY <3>3, <3>4
        <3>6. [i \in 1 .. 3 |-> attr_sums[v][i] + d[i]] = d
            BY <3>3, <3>5
        <3> QED
            BY <1>4, <3>2, <3>6
    <2>3. DOMAIN attr_sums' = DOMAIN attr_sums
        BY <1>4
    <2> QED
        BY <2>1, <2>2, <2>3 DEF SowedBy
<1> QED
    BY <1>6, <1>8, <1>9, <1>10

\* s lists the indices in K.
ListsIndices(s, K) ==
    /\ s = Ascending(K) /\ Len(s) = Cardinality(K)
    /\ s \in Seq(Vertices) /\ Range(s) = K

\* L has an entry for k and for each index that s lists.
IsEntries(L, g, C, q, k, s) ==
    /\ L \in Seq(Vertices \X Sums) /\ Len(L) = Len(s) + 1
    /\ L[1] = <<k, SumAt(g, C, q, k)>>
    /\ \A i \in 1 .. Len(s) : L[i + 1] = <<s[i], SumAt(g, C, q, s[i])>>

\* The entries of a split: indices with the sums of their cells.
LEMMA EntriesAre ==
    ASSUME NEW g, NEW C, NEW q, NEW k \in Vertices,
           NEW K, NEW s, ListsIndices(s, K), \A j \in {k} \cup K : SumAt(g, C, q, j) \in Sums,
           NEW L, L = EntriesOf(g, C, q, k, K)
    PROVE  IsEntries(L, g, C, q, k, s)
<1>0. /\ s = Ascending(K) /\ Len(s) = Cardinality(K)
      /\ s \in Seq(Vertices) /\ Range(s) = K
    BY DEF ListsIndices
<1>1. PICK n : n = Len(s)
    OBVIOUS
<1>2. n \in Nat /\ n = Cardinality(K)
    BY <1>0, <1>1
<1>3. PICK h : h = [i \in 1 .. n + 1 |-> IF i = 1 THEN k ELSE s[i - 1]]
    OBVIOUS
<1>4. \A i \in 1 .. n + 1 : h[i] \in {k} \cup K /\ h[i] \in Vertices
    <2> SUFFICES ASSUME NEW i \in 1 .. n + 1
                 PROVE  h[i] \in {k} \cup K /\ h[i] \in Vertices
        OBVIOUS
    <2>1. CASE i = 1
        BY <1>3, <2>1
    <2>2. CASE i # 1
        <3>1. i - 1 \in 1 .. Len(s)
            BY <1>1, <1>2, <2>2
        <3>2. s[i - 1] \in K /\ s[i - 1] \in Vertices
            BY <1>0, <3>1 DEF Range
        <3> QED
            BY <1>3, <2>2, <3>2
    <2> QED
        BY <2>1, <2>2
<1>5. L = [i \in 1 .. n + 1 |-> <<h[i], SumAt(g, C, q, h[i])>>]
    <2>1. L = [i \in 1 .. n + 1 |->
                 <<IF i = 1 THEN k ELSE s[i - 1],
                   SumAt(g, C, q, IF i = 1 THEN k ELSE s[i - 1])>>]
        BY <1>0, <1>2 DEF EntriesOf
    <2>2. \A i \in 1 .. n + 1 : h[i] = IF i = 1 THEN k ELSE s[i - 1]
        BY <1>3
    <2> QED
        BY <2>1, <2>2
<1>6. \A i \in 1 .. n + 1 : <<h[i], SumAt(g, C, q, h[i])>> \in Vertices \X Sums
    BY <1>4
<1>7. L \in [1 .. n + 1 -> Vertices \X Sums]
    BY <1>5, <1>6
<1>8. L \in Seq(Vertices \X Sums) /\ Len(L) = n + 1
    <2>1. n + 1 \in Nat
        BY <1>2
    <2> QED
        BY <1>7, <2>1
<1>9. h[1] = k /\ \A i \in 1 .. n : h[i + 1] = s[i]
    BY <1>2, <1>3
<1>10. L[1] = <<k, SumAt(g, C, q, k)>>
    BY <1>2, <1>5, <1>9
<1>11. \A i \in 1 .. n : L[i + 1] = <<s[i], SumAt(g, C, q, s[i])>>
    BY <1>2, <1>5, <1>9
<1> QED
    BY <1>1, <1>8, <1>10, <1>11 DEF IsEntries

\* A split that follows: the new indices, and the entries that are recorded.
LEMMA SplitStateIs ==
    ASSUME NEW k, adjacent # {}, k = Min(adjacent), pc = "split", NEW C,
           NEW q, q = SplitBySums(graph, index_containing, C, k),
           NEW K, K = NewOf(index_containing, q), NEW s, s = Ascending(K),
           index_containing' = q, active_indices' = active_indices \o s,
           active_count' = active_count, adjacent' = adjacent \ {k}, pc' = "split",
           trace' = Recorded(trace, active_count, EntriesOf(graph, C, q, k, K))
    PROVE  Now(C)' = After(graph, Now(C))
<1>1. PICK a : a = Now(C)
    OBVIOUS
<1>2. /\ a.index = index_containing /\ a.active = active_indices /\ a.count = active_count
      /\ a.trace = trace /\ a.by = C /\ a.adjacent = adjacent /\ a.pc = "split"
    BY <1>1 DEF Now, State
<1>3. After(graph, a) = SplitAfter(graph, a)
    BY <1>2 DEF After
<1>4. SplitAfter(graph, a) =
          State(q, active_indices \o s, active_count, C, adjacent \ {k},
                Recorded(trace, active_count, EntriesOf(graph, C, q, k, K)), "split")
    BY <1>2 DEF SplitAfter
<1>5. Now(C)' = State(q, active_indices \o s, active_count, C, adjacent \ {k},
                      Recorded(trace, active_count, EntriesOf(graph, C, q, k, K)), "split")
    BY DEF Now
<1> QED
    BY <1>1, <1>3, <1>4, <1>5

\* The cell of p at k, listed by e at P, is split at K where the sums s that C sows change.
SplitWhereSumsChange(g, C, p, q, k, K, P, e, s) ==
    /\ IsSplit(p, q, k, K) /\ k \in Nest!Indices(p)
    /\ \A i \in P : e[i] \in Cell(p, k)
    /\ \A u, v \in Cell(p, k) : q[u] = q[v] <=> s[u] = s[v]
    /\ \A u \in Cell(p, k) : s[u] = SownBy(g, C, u)
    /\ {k} \cup K \subseteq P /\ \A j \in {k} \cup K : q[e[j]] = j

\* The sums at hand are those of the cells they are recorded for.
LEMMA SumsOfNewCells ==
    ASSUME NEW g, NEW C, NEW p, NEW q, NEW k, NEW K, NEW P, NEW e, NEW s,
           SplitWhereSumsChange(g, C, p, q, k, K, P, e, s),
           NEW j \in {k} \cup K
    PROVE  SumAt(g, C, q, j) = s[e[j]]
<1> USE DEF SplitWhereSumsChange
<1>1. e[j] \in Cell(p, k) /\ q[e[j]] = j
    OBVIOUS
<1>2. e[j] \in Vertices /\ e[j] \in Cell(q, j)
    BY <1>1 DEF Cell
<1>3. ASSUME NEW v \in Cell(q, j)
      PROVE  SownBy(g, C, v) = SownBy(g, C, e[j])
    <2>1. v \in Vertices /\ q[v] = j
        BY DEF Cell
    <2>2. p[v] = k
        <3> SUFFICES ASSUME p[v] # k PROVE FALSE
            OBVIOUS
        <3>1. q[v] = p[v]
            BY <2>1 DEF IsSplit
        <3>2. p[v] \in Nest!Indices(p)
            BY <2>1, IndicesIs
        <3> QED
            BY <2>1, <3>1, <3>2 DEF IsSplit
    <2>3. v \in Cell(p, k)
        BY <2>1, <2>2 DEF Cell
    <2>4. s[v] = s[e[j]]
        BY <1>1, <2>1, <2>3
    <2> QED
        BY <1>1, <2>3, <2>4
<1>4. PICK x : x = e[j]
    OBVIOUS
<1>5. SumAt(g, C, q, j) = SownBy(g, C, x)
    BY <1>2, <1>3, <1>4, SumAtIs
<1> QED
    BY <1>1, <1>4, <1>5

\* In whatever order the elements with equal sums are left, the cell is split into the
\* same parts, and the same entries are recorded.
LEMMA SplitFollows ==
    ASSUME TypeInv, sort_and_split_index, cmp = -1, NEW C, SowedBy(C)
    PROVE  Now(C)' = After(graph, Now(C)) /\ SowedBy(C)'
<1>1. RefinerShape /\ TraceFits /\ SumsTyped /\ CountsFit
    BY DEF TypeInv, RefineInv
<1>2. PICK k, e, P, K, s, r, o :
          /\ SplitBy(k, e, P, K, s, r, o) /\ SplitDoes(k, e, P, K, s, r, o)
          /\ HaveSums({k})
    BY <1>1, SplitsBy
<1>3. pc = "split" /\ adjacent # {}
    BY DEF sort_and_split_index
<1>4. PICK p : p = index_containing
    OBVIOUS
<1>5. p \in IndexedPartitions /\ p \in [Vertices -> Vertices] /\ adjacent \subseteq Nest!Indices(p)
    BY <1>1, <1>4 DEF RefinerShape, IndexedPartitions
<1>6. /\ \A u \in Cell(p, k) : attr_sums[u] \in Sums
      /\ k \in P /\ k \in Vertices
      /\ \A i \in P : i \in Vertices /\ attr_sums[e[i]] \in Sums
      /\ \A i \in 1 .. Len(s) : s[i] \in K /\ s[i] \in P
    BY <1>1, <1>2, <1>4, <1>5, SplitEntries
<1>7. \A u \in Cell(p, k) : attr_sums[u] \in [1 .. 3 -> Int]
    BY <1>6, VerticesFinite DEF Sums
<1>8. PICK q : q = Split(p, P, e, k, K)
    OBVIOUS
<1>9. /\ IsSplit(p, q, k, K) /\ q \in IndexedPartitions /\ KeepsOrder(p, q)
      /\ \A u, v \in Cell(p, k) : q[u] = q[v] <=> attr_sums[u] = attr_sums[v]
      /\ SplitPlaced(p, P, e, k, attr_sums, q)
    BY <1>2, <1>4, <1>5, <1>7, <1>8, SplitByIs
<1>10. /\ k \in adjacent /\ k \in Nest!Indices(p) /\ P \subseteq Vertices
       /\ \A i \in P : e[i] \in Cell(p, k)
       /\ K = Changes(attr_sums, P, k, e) /\ K \subseteq P /\ K \subseteq Vertices
       /\ s = Ascending(K) /\ s = NewIndices(k, e)
       /\ s \in Seq(Vertices) /\ Len(s) = Cardinality(K) /\ Range(s) = K
       /\ r \in 0 .. Len(s) /\ (o.cmp \notin {1, 2} => r = Len(s))
       /\ o = Outcomes(k, e)[r] /\ o.cmp = -1
    BY <1>2, <1>4 DEF SplitBy, IsSortedBy
<1>11. r = Len(s) /\ SubSeq(s, 1, r) = s
    <2>1. r = Len(s)
        BY <1>10
    <2> QED
        BY <1>10, <2>1
<1>12. /\ active_indices' = active_indices \o s
       /\ index_containing' = q /\ trace' = o.trace
       /\ attr_sums' = Erased({k}) /\ adjacent' = adjacent \ {k} /\ pc' = "split"
       /\ active_count' = active_count /\ graph' = graph
    BY <1>2, <1>4, <1>8, <1>10, <1>11 DEF SplitDoes, AfterAdjacent, callVars
<1>13. /\ \A v \in DOMAIN attr_sums : p[v] \in adjacent => attr_sums[v] = SownBy(graph, C, v)
       /\ C \subseteq Vertices
    BY <1>3, <1>4 DEF SowedBy
<1>14. \A u \in Cell(p, k) : attr_sums[u] = SownBy(graph, C, u)
    BY <1>2, <1>4, <1>10, <1>13 DEF HaveSums, Cell
<1>15. q = SplitBySums(graph, p, C, k)
    <2>1. \A u \in Vertices : p[u] # k => q[u] = p[u]
        BY <1>9 DEF IsSplit
    <2>2. \A u, v \in Cell(p, k) : q[u] = q[v] <=> SownBy(graph, C, u) = SownBy(graph, C, v)
        BY <1>9, <1>14
    <2>3. \A u, v \in Cell(p, k) : q[u] < q[v] => LessSum(SownBy(graph, C, u), SownBy(graph, C, v))
        BY <1>9, <1>14 DEF SplitPlaced
    <2> QED
        BY <1>5, <1>9, <1>10, <1>13, <2>1, <2>2, <2>3, SplitIsBySums
<1>16. K = NewOf(p, q)
    <2>1. Nest!Indices(q) = Nest!Indices(p) \cup K /\ K \cap Nest!Indices(p) = {}
        BY <1>9, <1>10 DEF SplitPlaced, IsSplit
    <2> QED
        BY <2>1 DEF NewOf
<1>17. \A j \in {k} \cup K : SumAt(graph, C, q, j) = attr_sums[e[j]] /\ attr_sums[e[j]] \in Sums
    <2>1. {k} \cup K \subseteq P
        BY <1>6, <1>10
    <2>2. \A j \in {k} \cup K : q[e[j]] = j
        BY <1>9, <1>10 DEF SplitPlaced
    <2>3. PICK d : d = attr_sums
        OBVIOUS
    <2>4. \A j \in {k} \cup K : SumAt(graph, C, q, j) = d[e[j]]
        <3>1. IsSplit(p, q, k, K) /\ k \in Nest!Indices(p) /\ \A i \in P : e[i] \in Cell(p, k)
            BY <1>9, <1>10
        <3>2. /\ \A u, v \in Cell(p, k) : q[u] = q[v] <=> d[u] = d[v]
              /\ \A u \in Cell(p, k) : d[u] = SownBy(graph, C, u)
            BY <1>9, <1>14, <2>3
        <3>3. SplitWhereSumsChange(graph, C, p, q, k, K, P, e, d)
            BY <2>1, <2>2, <3>1, <3>2 DEF SplitWhereSumsChange
        <3> QED
            BY <3>3, SumsOfNewCells
    <2> QED
        BY <1>6, <2>1, <2>3, <2>4
<1>18. PICK L : L = EntriesOf(graph, C, q, k, K)
    OBVIOUS
<1>19. /\ L \in Seq(Vertices \X Sums) /\ Len(L) = Len(s) + 1
       /\ L[1] = <<k, SumAt(graph, C, q, k)>>
       /\ \A i \in 1 .. Len(s) : L[i + 1] = <<s[i], SumAt(graph, C, q, s[i])>>
    <2>1. \A j \in {k} \cup K : SumAt(graph, C, q, j) \in Sums
        BY <1>17
    <2> QED
        <3>1. /\ C \subseteq Vertices /\ k \in Vertices /\ K \subseteq Vertices
              /\ s = Ascending(K) /\ Len(s) = Cardinality(K) /\ s \in Seq(Vertices) /\ Range(s) = K
            BY <1>6, <1>10, <1>13
        <3>2. ListsIndices(s, K)
            BY <3>1 DEF ListsIndices
        <3>3. IsEntries(L, graph, C, q, k, s)
            BY <1>18, <2>1, <3>1, <3>2, EntriesAre
        <3> QED
            BY <3>3 DEF IsEntries
<1>20. o.trace = Recorded(trace, active_count, L)
    <2>1. PICK n : n = Len(s)
        OBVIOUS
    <2>2. PICK f : f = Outcomes(k, e)
        OBVIOUS
    <2>3. n \in Nat /\ n = Len(NewIndices(k, e)) /\ o = f[n]
        BY <1>10, <1>11, <2>1, <2>2
    <2>4. OutcomesUpTo(f, k, e, n)
        BY <2>2, <2>3, OutcomesAre
    <2>5. RecordsAt(trace, active_count) /\ active_count \in Nat
        <3>1. OutcomeFits(Outcome(trace, cmp)) /\ active_count \in Nat
            BY <1>1, <1>3, VerticesFinite DEF TraceFits, CountsFit
        <3> QED
            BY <3>1 DEF OutcomeFits, Outcome, RecordsAt
    <2>6. L[1] = <<k, attr_sums[e[k]]>>
        BY <1>17, <1>19
    <2>7. \A i \in 1 .. n : L[i + 1] = <<NewIndices(k, e)[i], attr_sums[e[NewIndices(k, e)[i]]]>>
        BY <1>6, <1>10, <1>17, <1>19, <2>1
    <2>8. Len(L) = n + 1 /\ L \in Seq(Vertices \X Sums)
        BY <1>19, <2>1
    <2>9. f[n] = Outcome(Recorded(trace, active_count, L), -1)
        <3>1. IsRecord(L, k, e, n)
            BY <2>6, <2>7, <2>8 DEF IsRecord
        <3> QED
            BY <2>3, <2>4, <2>5, <3>1, AllRecorded
    <2> QED
        BY <2>3, <2>9 DEF Outcome
<1>21. k = Min(adjacent)
    BY <1>2 DEF SplitBy
<1>22. Now(C)' = After(graph, Now(C))
    BY <1>3, <1>4, <1>10, <1>12, <1>15, <1>16, <1>18, <1>20, <1>21, SplitStateIs
<1>23. SowedBy(C)'
    <2>1. ASSUME NEW v \in DOMAIN attr_sums, q[v] \in adjacent \ {k}
          PROVE  attr_sums'[v] = SownBy(graph, C, v)
        <3>1. v \in Vertices
            <4>1. PICK n \in 0 .. N : attr_sums \in [0 .. n - 1 -> Sums]
                BY <1>1 DEF SumsTyped
            <4> QED
                BY <4>1, VerticesFinite DEF Vertices
        <3>2. p[v] # k /\ q[v] = p[v]
            BY <1>5, <1>9, <2>1, <3>1 DEF IsSplit
        <3> QED
            BY <1>4, <1>12, <1>13, <2>1, <3>2 DEF Erased
    <2>2. DOMAIN attr_sums' = DOMAIN attr_sums
        BY <1>12 DEF Erased
    <2> QED
        BY <1>12, <1>13, <2>1, <2>2 DEF SowedBy
<1> QED
    BY <1>22, <1>23

\* Nothing is split in a trivial cell.
LEMMA TrivialSplit ==
    ASSUME NEW g, NEW C, C \subseteq Vertices, NEW p \in IndexedPartitions,
           NEW k \in Nest!Indices(p), NEW v, Cell(p, k) = {v}
    PROVE  /\ SplitBySums(g, p, C, k) = p /\ NewOf(p, p) = {}
           /\ SumAt(g, C, p, k) = SownBy(g, C, v)
<1>1. \A u \in Vertices : p[u] # k => p[u] = p[u]
    OBVIOUS
<1>2. KeepsOrder(p, p)
    BY DEF KeepsOrder
<1>3. \A u, w \in Cell(p, k) : u = w
    OBVIOUS
<1>4. \A u, w \in Cell(p, k) : p[u] = p[w] <=> SownBy(g, C, u) = SownBy(g, C, w)
    BY <1>3
<1>5. \A u, w \in Cell(p, k) : p[u] < p[w] => LessSum(SownBy(g, C, u), SownBy(g, C, w))
    <2> SUFFICES ASSUME NEW u \in Cell(p, k), NEW w \in Cell(p, k), p[u] < p[w] PROVE FALSE
        OBVIOUS
    <2>1. u = w /\ u \in Vertices
        BY <1>3 DEF Cell
    <2>2. p[u] \in Vertices
        BY <2>1 DEF IndexedPartitions
    <2>3. p[u] \in Nat
        BY <2>2 DEF Vertices
    <2> QED
        BY <2>1, <2>3
<1>6. p = SplitBySums(g, p, C, k)
    BY <1>1, <1>2, <1>4, <1>5, SplitIsBySums
<1>7. SumAt(g, C, p, k) = SownBy(g, C, v)
    <2>1. v \in Cell(p, k)
        OBVIOUS
    <2>2. \A w \in Cell(p, k) : SownBy(g, C, w) = SownBy(g, C, v)
        OBVIOUS
    <2> QED
        BY <2>1, <2>2, SumAtIs
<1> QED
    BY <1>6, <1>7 DEF NewOf

\* No new index.
LEMMA NoIndices ==
    Ascending({}) = <<>> /\ Cardinality({}) = 0
<1>1. IsFiniteSet({}) /\ Cardinality({}) = 0
    BY FS_EmptySet
<1>2. {} \subseteq Nat
    OBVIOUS
<1>3. Ascending({}) \in Seq({}) /\ Len(Ascending({})) = 0
    BY <1>1, <1>2, AscendingIs
<1> QED
    BY <1>1, <1>3

\* A trivial cell is recorded with its index and not with its vertex.
LEMMA TrivialFollows ==
    ASSUME TypeInv, TraceTrivial, cmp = -1, NEW C, SowedBy(C)
    PROVE  Now(C)' = After(graph, Now(C)) /\ SowedBy(C)'
<1>1. PICK k : k = Min(adjacent)
    OBVIOUS
<1>2. PICK entry : entry = <<k, attr_sums[elements[k]]>>
    OBVIOUS
<1>3. PICK o : o = trace_attr_sum(Outcome(trace, cmp), attr_sum_count, entry)
    OBVIOUS
<1>4. /\ pc = "split" /\ adjacent # {} /\ CellSize(k) = 1 /\ AfterAdjacent(k, o)
      /\ UNCHANGED <<index_containing, active_indices>>
    BY <1>1, <1>2, <1>3 DEF TraceTrivial, nestVars
<1>5. RefinerShape /\ TraceFits /\ SumsTyped /\ CountsFit /\ Elsewhere
    BY DEF TypeInv, RefineInv
<1>6. PICK p : p = index_containing
    OBVIOUS
<1>7. /\ p \in IndexedPartitions /\ k \in adjacent /\ k \in Nest!Indices(p)
    BY <1>1, <1>4, <1>5, <1>6, FirstAdjacent DEF RefinerShape
<1>8. PICK n \in 0 .. N : attr_sums \in [0 .. n - 1 -> Sums]
    BY <1>5 DEF SumsTyped
<1>9. PICK v \in DOMAIN attr_sums : p[v] = k
    BY <1>4, <1>5, <1>6, <1>7 DEF SumsTyped
<1>10. v \in Vertices /\ attr_sums[v] \in Sums
    BY <1>8, <1>9, VerticesFinite DEF Vertices
<1>11. Cardinality(Cell(p, k)) = 1 /\ InPlace(elements, p)
    BY <1>4, <1>5, <1>6 DEF CellSize, Elsewhere
<1>12. k \in Vertices /\ elements[k] = v
    BY <1>7, <1>9, <1>10, <1>11, OnlyMember
<1>13. Cell(p, k) = {v}
    <2>1. PICK D : D = Cell(p, k)
        OBVIOUS
    <2>2. IsFiniteSet(D) /\ Cardinality(D) = 1 /\ v \in D
        BY <1>9, <1>10, <1>11, <2>1, SetsOfVertices DEF Cell
    <2>3. \E x : D = {x}
        BY <2>2, FS_Singleton
    <2> QED
        BY <2>1, <2>2, <2>3
<1>14. /\ C \subseteq Vertices
       /\ \A u \in DOMAIN attr_sums : p[u] \in adjacent => attr_sums[u] = SownBy(graph, C, u)
    BY <1>4, <1>6 DEF SowedBy
<1>15. /\ SplitBySums(graph, p, C, k) = p /\ NewOf(p, p) = {}
       /\ SumAt(graph, C, p, k) = attr_sums[v]
    BY <1>7, <1>9, <1>13, <1>14, TrivialSplit
<1>16. entry = <<k, attr_sums[v]>> /\ entry \in Vertices \X Sums
    BY <1>2, <1>10, <1>12
<1>17. EntriesOf(graph, C, p, k, {}) = <<entry>>
    <2>1. EntriesOf(graph, C, p, k, {}) = [i \in 1 .. 1 |-> <<k, SumAt(graph, C, p, k)>>]
        <3>1. 1 .. Cardinality({}) + 1 = 1 .. 1
            BY NoIndices
        <3>2. \A i \in 1 .. 1 : i = 1
            OBVIOUS
        <3> QED
            BY <3>1, <3>2 DEF EntriesOf
    <2>2. EntriesOf(graph, C, p, k, {}) = [i \in 1 .. 1 |-> entry]
        BY <1>15, <1>16, <2>1
    <2>3. PICK x : x = [i \in 1 .. 1 |-> entry]
        OBVIOUS
    <2>4. x \in Seq(Vertices \X Sums) /\ Len(x) = 1 /\ x[1] = entry
        <3>1. x \in [1 .. 1 -> Vertices \X Sums]
            BY <1>16, <2>3
        <3> QED
            BY <2>3, <3>1
    <2>5. x = <<entry>>
        BY <2>4
    <2> QED
        BY <2>2, <2>3, <2>5
<1>18. o = Outcome(Recorded(trace, active_count, <<entry>>), -1)
    <2>1. RecordsAt(trace, active_count) /\ active_count \in Nat
        <3>1. OutcomeFits(Outcome(trace, cmp)) /\ active_count \in Nat
            BY <1>4, <1>5, VerticesFinite DEF TraceFits, CountsFit
        <3> QED
            BY <3>1 DEF OutcomeFits, Outcome, RecordsAt
    <2>2. PICK x : x = Outcome(trace, cmp)
        OBVIOUS
    <2>3. x.cmp = -1 /\ x.trace = trace
        BY <2>2 DEF Outcome
    <2>4. RecordsAt(x.trace, active_count)
        BY <2>1, <2>3
    <2>5. o = Outcome(Recorded(x.trace, active_count, <<entry>>), -1)
        BY <1>3, <1>16, <2>1, <2>2, <2>3, <2>4, EntryRecorded
    <2> QED
        BY <2>3, <2>5
<1>19. /\ trace' = Recorded(trace, active_count, <<entry>>)
       /\ attr_sums' = Erased({k}) /\ adjacent' = adjacent \ {k} /\ pc' = "split"
       /\ active_count' = active_count /\ graph' = graph
       /\ index_containing' = p /\ active_indices' = active_indices
    BY <1>4, <1>6, <1>18 DEF AfterAdjacent, callVars, Outcome
<1>20. Now(C)' = After(graph, Now(C))
    <2>1. active_indices \o <<>> = active_indices
        BY <1>5 DEF RefinerShape
    <2>2. PICK s : s = Ascending({})
        OBVIOUS
    <2>3. active_indices' = active_indices \o s
        BY <1>19, <2>1, <2>2, NoIndices
    <2>4. PICK K : K = {}
        OBVIOUS
    <2>5. s = Ascending(K) /\ K = NewOf(index_containing, p)
        BY <1>6, <1>15, <2>2, <2>4
    <2>6. p = SplitBySums(graph, index_containing, C, k)
        BY <1>6, <1>15
    <2>7. trace' = Recorded(trace, active_count, EntriesOf(graph, C, p, k, K))
        BY <1>17, <1>19, <2>4
    <2> QED
        BY <1>1, <1>4, <1>19, <2>3, <2>5, <2>6, <2>7, SplitStateIs
<1>21. SowedBy(C)'
    <2>1. ASSUME NEW u \in DOMAIN attr_sums, p[u] \in adjacent \ {k}
          PROVE  attr_sums'[u] = SownBy(graph, C, u)
        BY <1>6, <1>14, <1>19, <2>1 DEF Erased
    <2>2. DOMAIN attr_sums' = DOMAIN attr_sums
        BY <1>19 DEF Erased
    <2> QED
        BY <1>14, <1>19, <2>1, <2>2 DEF SowedBy
<1> QED
    BY <1>20, <1>21

\* The code takes the steps of the function.
LEMMA StepFollows ==
    ASSUME TypeInv, Step, NewTrace, NEW B, SowedBy(B), Going'
    PROVE  \E C : Now(C)' = After(graph, Now(B)) /\ SowedBy(C)'
<1>1. pc \in {"active", "split"}
    BY DEF Step, Throw, LargerActiveIndex, SowActiveCell, ReadsPastSums, TraceTrivial,
           sort_and_split_index, NextActiveIndex, Return
<1>2. cmp = -1
    BY <1>1 DEF TypeInv, RefineInv, Recording
<1>3. ~ Throw /\ ~ ReadsPastSums
    BY DEF Throw, ReadsPastSums, Going
<1>4. ~ LargerActiveIndex
    BY <1>2, NothingLarger DEF LargerActiveIndex, Outcome
<1>5. CASE SowActiveCell
    BY <1>2, <1>5, SowFollows
<1>6. CASE TraceTrivial
    BY <1>2, <1>6, TrivialFollows
<1>7. CASE sort_and_split_index
    BY <1>2, <1>7, SplitFollows
<1>8. CASE NextActiveIndex
    BY <1>8, NextFollows
<1>9. CASE Return
    BY <1>9, ReturnFollows
<1> QED
    BY <1>3, <1>4, <1>5, <1>6, <1>7, <1>8, <1>9 DEF Step

-----------------------------------------------------------------------------
(* Renaming *)

\* A permutation of the vertices.
IsRenaming(s) ==
    s \in [Vertices -> Vertices] /\ \A u, v \in Vertices : u # v => s[u] # s[v]

\* The new names of some vertices.
Image(C, s) == {s[u] : u \in C}

\* Every vertex is a new name.
LEMMA EveryName ==
    ASSUME NEW s, IsRenaming(s)
    PROVE  \A v \in Vertices : \E u \in Vertices : s[u] = v
<1>1. s \in [Vertices -> Vertices] /\ \A i, j \in Vertices : i # j => s[i] # s[j]
    BY DEF IsRenaming
<1> TAKE v \in Vertices
<1> QED
    BY <1>1, VerticesFinite, ListsAll

\* A renamed vertex keeps its index.
LEMMA RenamedAt ==
    ASSUME NEW s, IsRenaming(s), NEW p
    PROVE  \A u \in Vertices : RenamedPartition(p, s)[s[u]] = p[u]
<1> TAKE u \in Vertices
<1>1. s[u] \in Vertices /\ \A w \in Vertices : s[w] = s[u] => w = u
    BY DEF IsRenaming
<1>2. (CHOOSE w \in Vertices : s[w] = s[u]) = u
    BY <1>1
<1> QED
    BY <1>1, <1>2 DEF RenamedPartition

\* A partition is known by the vertices' new names.
LEMMA RenamedIs ==
    ASSUME NEW s, IsRenaming(s), NEW p \in [Vertices -> Vertices], NEW q \in [Vertices -> Vertices],
           \A u \in Vertices : q[s[u]] = p[u]
    PROVE  q = RenamedPartition(p, s)
<1>1. ASSUME NEW v \in Vertices
      PROVE  q[v] = RenamedPartition(p, s)[v]
    <2>1. PICK u \in Vertices : s[u] = v
        BY EveryName
    <2> QED
        BY <2>1, RenamedAt
<1>2. RenamedPartition(p, s) = [v \in Vertices |-> RenamedPartition(p, s)[v]]
    BY DEF RenamedPartition
<1> QED
    BY <1>1, <1>2

\* Renaming keeps the number of vertices.
LEMMA ImageCounts ==
    ASSUME NEW s, IsRenaming(s), NEW S, S \subseteq Vertices, NEW T, T = Image(S, s)
    PROVE  Cardinality(T) = Cardinality(S) /\ T \subseteq Vertices
<1> DEFINE f == [w \in S |-> s[w]]
<1>1. f \in [S -> T] /\ T \subseteq Vertices
    BY DEF Image, IsRenaming
<1>2. \A x, y \in S : f[x] = f[y] => x = y
    BY DEF IsRenaming
<1>3. \A y \in T : \E x \in S : f[x] = y
    BY DEF Image
<1>4. IsFiniteSet(S) /\ IsFiniteSet(T)
    BY <1>1, SetsOfVertices
<1> HIDE DEF f
<1>5. f \in Bijection(S, T)
    BY <1>1, <1>2, <1>3 DEF Bijection, Injection, Surjection, IsInjective
<1>6. ExistsBijection(S, T)
    BY <1>5 DEF ExistsBijection
<1> QED
    BY <1>1, <1>4, <1>6, FS_Bijection

\* Renamed vertices have the arcs of the vertices.
LEMMA KindsRenamed ==
    ASSUME NEW s, IsRenaming(s), NEW g \in SUBSET (Vertices \X Vertices),
           NEW u \in Vertices, NEW v \in Vertices
    PROVE  Kinds(Renamed(g, s), s[u], s[v]) = Kinds(g, u, v)
<1>1. \A x, y \in Vertices : <<s[x], s[y]>> \in Renamed(g, s) <=> <<x, y>> \in g
    <2> TAKE x, y \in Vertices
    <2>1. ASSUME <<s[x], s[y]>> \in Renamed(g, s)
          PROVE  <<x, y>> \in g
        <3>1. PICK a \in g : <<s[x], s[y]>> = <<s[a[1]], s[a[2]]>>
            BY <2>1 DEF Renamed
        <3>2. a[1] \in Vertices /\ a[2] \in Vertices /\ a = <<a[1], a[2]>>
            OBVIOUS
        <3>3. s[x] = s[a[1]] /\ s[y] = s[a[2]]
            BY <3>1
        <3>4. x = a[1] /\ y = a[2]
            BY <3>2, <3>3 DEF IsRenaming
        <3> QED
            BY <3>2, <3>4
    <2>2. ASSUME <<x, y>> \in g
          PROVE  <<s[x], s[y]>> \in Renamed(g, s)
        <3>1. PICK a \in g : a = <<x, y>>
            BY <2>2
        <3>2. a[1] = x /\ a[2] = y
            BY <3>1
        <3> QED
            BY <3>2 DEF Renamed
    <2> QED
        BY <2>1, <2>2
<1>2. s[u] = s[v] <=> u = v
    BY DEF IsRenaming
<1>3. CASE u = v
    <2>1. s[u] = s[v]
        BY <1>3
    <2> QED
        BY <1>1, <1>3, <2>1 DEF Kinds
<1>4. CASE u # v
    <2>1. s[u] # s[v]
        BY <1>2, <1>4
    <2>2. /\ <<s[u], s[v]>> \in Renamed(g, s) <=> <<u, v>> \in g
          /\ <<s[v], s[u]>> \in Renamed(g, s) <=> <<v, u>> \in g
        BY <1>1
    <2>3. {<<s[u], s[v]>>, <<s[v], s[u]>>} \subseteq Renamed(g, s)
              <=> {<<u, v>>, <<v, u>>} \subseteq g
        BY <2>2
    <2> QED
        BY <1>4, <2>1, <2>2, <2>3 DEF Kinds
<1> QED
    BY <1>3, <1>4

\* Renamed cells sow what the cells sow.
LEMMA SownRenamed ==
    ASSUME NEW s, IsRenaming(s), NEW g \in SUBSET (Vertices \X Vertices),
           NEW C, C \subseteq Vertices, NEW v \in Vertices
    PROVE  SownBy(Renamed(g, s), Image(C, s), s[v]) = SownBy(g, C, v)
<1>1. ASSUME NEW x
      PROVE  Cardinality({w \in Image(C, s) : x \in Kinds(Renamed(g, s), w, s[v])})
               = Cardinality({u \in C : x \in Kinds(g, u, v)})
    <2>1. PICK S : S = {u \in C : x \in Kinds(g, u, v)}
        OBVIOUS
    <2>2. PICK T : T = {w \in Image(C, s) : x \in Kinds(Renamed(g, s), w, s[v])}
        OBVIOUS
    <2>3. \A u \in C : x \in Kinds(Renamed(g, s), s[u], s[v]) <=> x \in Kinds(g, u, v)
        BY KindsRenamed
    <2>4. T = Image(S, s)
        BY <2>1, <2>2, <2>3 DEF Image
    <2>5. S \subseteq Vertices
        BY <2>1
    <2>6. Cardinality(T) = Cardinality(S)
        BY <2>4, <2>5, ImageCounts
    <2> QED
        BY <2>1, <2>2, <2>6
<1> QED
    BY <1>1 DEF SownBy

\* Renaming keeps the indices, and gives the cells new names.
LEMMA CellsRenamed ==
    ASSUME NEW s, IsRenaming(s), NEW p \in [Vertices -> Vertices],
           NEW r, r = RenamedPartition(p, s)
    PROVE  /\ \A k : Cell(r, k) = Image(Cell(p, k), s)
           /\ Nest!Indices(r) = Nest!Indices(p)
<1>1. \A u \in Vertices : r[s[u]] = p[u] /\ s[u] \in Vertices
    BY RenamedAt DEF IsRenaming
<1>2. \A v \in Vertices : \E u \in Vertices : s[u] = v
    BY EveryName
<1>3. ASSUME NEW k
      PROVE  Cell(r, k) = Image(Cell(p, k), s)
    BY <1>1, <1>2 DEF Cell, Image
<1>4. {r[v] : v \in Vertices} = {p[u] : u \in Vertices}
    BY <1>1, <1>2
<1> QED
    BY <1>3, <1>4, IndicesIs

\* The cells next to a cell keep their indices.
LEMMA NextToRenamed ==
    ASSUME NEW s, IsRenaming(s), NEW g \in SUBSET (Vertices \X Vertices),
           NEW p \in [Vertices -> Vertices], NEW C, C \subseteq Vertices,
           NEW r, r = RenamedPartition(p, s)
    PROVE  NextTo(Renamed(g, s), r, Image(C, s)) = NextTo(g, p, C)
<1>1. \A u \in Vertices : r[s[u]] = p[u] /\ s[u] \in Vertices
    BY RenamedAt DEF IsRenaming
<1>2. \A v \in Vertices : \E u \in Vertices : s[u] = v
    BY EveryName
<1>3. \A u, v \in Vertices : s[v] \in Neighbours(Renamed(g, s), s[u]) <=> v \in Neighbours(g, u)
    BY <1>1, KindsRenamed DEF Neighbours
<1>4. PICK A : A = UNION {Neighbours(Renamed(g, s), u) : u \in Image(C, s)}
    OBVIOUS
<1>5. PICK B : B = UNION {Neighbours(g, u) : u \in C}
    OBVIOUS
<1>6. \A v \in Vertices : s[v] \in A <=> v \in B
    <2> TAKE v \in Vertices
    <2>1. s[v] \in A <=> \E w \in Image(C, s) : s[v] \in Neighbours(Renamed(g, s), w)
        BY <1>4
    <2>2. v \in B <=> \E u \in C : v \in Neighbours(g, u)
        BY <1>5
    <2>3. (\E w \in Image(C, s) : s[v] \in Neighbours(Renamed(g, s), w))
            <=> \E u \in C : s[v] \in Neighbours(Renamed(g, s), s[u])
        BY DEF Image
    <2>4. \A u \in C : s[v] \in Neighbours(Renamed(g, s), s[u]) <=> v \in Neighbours(g, u)
        BY <1>3
    <2> QED
        BY <2>1, <2>2, <2>3, <2>4
<1>7. A \subseteq Vertices /\ B \subseteq Vertices
    BY <1>4, <1>5 DEF Neighbours
<1>8. {r[v] : v \in A} = {p[v] : v \in B}
    <2>1. ASSUME NEW v \in A
          PROVE  \E u \in B : r[v] = p[u]
        <3>1. PICK u \in Vertices : s[u] = v
            BY <1>2, <1>7
        <3> QED
            BY <1>1, <1>6, <3>1
    <2>2. ASSUME NEW u \in B
          PROVE  \E v \in A : r[v] = p[u]
        BY <1>1, <1>6, <1>7
    <2> QED
        BY <2>1, <2>2
<1> QED
    BY <1>4, <1>5, <1>8 DEF NextTo

\* A renamed partition is split as the partition is.
LEMMA SplitRenamed ==
    ASSUME NEW s, IsRenaming(s), NEW g \in SUBSET (Vertices \X Vertices),
           NEW p \in [Vertices -> Vertices], NEW C, C \subseteq Vertices, NEW k,
           NEW h, h = Renamed(g, s), NEW r, r = RenamedPartition(p, s), NEW D, D = Image(C, s),
           NEW q, q = SplitBySums(g, p, C, k), q \in [Vertices -> Vertices]
    PROVE  SplitBySums(h, r, D, k) = RenamedPartition(q, s)
<1>1. \A u \in Vertices : r[s[u]] = p[u] /\ s[u] \in Vertices
    BY RenamedAt DEF IsRenaming
<1>2. \A v \in Vertices : SownBy(h, D, s[v]) = SownBy(g, C, v)
    BY SownRenamed
<1>3. \A v \in Vertices : \E u \in Vertices : s[u] = v
    BY EveryName
<1>4. PICK x : x = SplitBySums(h, r, D, k)
    OBVIOUS
<1>5. ASSUME NEW u \in Vertices
      PROVE  x[s[u]] = q[u]
    <2>1. CASE p[u] # k
        <3>1. q[u] = p[u]
            BY <2>1 DEF SplitBySums
        <3>2. x[s[u]] = r[s[u]]
            BY <1>1, <1>4, <2>1 DEF SplitBySums
        <3> QED
            BY <1>1, <3>1, <3>2
    <2>2. CASE p[u] = k
        <3>1. PICK S : S = {w \in Vertices :
                   p[w] < k \/ (p[w] = k /\ LessSum(SownBy(g, C, w), SownBy(g, C, u)))}
            OBVIOUS
        <3>2. PICK T : T = {w \in Vertices :
                   r[w] < k \/ (r[w] = k /\ LessSum(SownBy(h, D, w), SownBy(h, D, s[u])))}
            OBVIOUS
        <3>3. q[u] = Cardinality(S)
            BY <2>2, <3>1 DEF SplitBySums
        <3>4. x[s[u]] = Cardinality(T)
            BY <1>1, <1>4, <2>2, <3>2 DEF SplitBySums
        <3>5. \A w \in Vertices : s[w] \in T <=> w \in S
            <4> TAKE w \in Vertices
            <4>1. s[w] \in T <=>
                    (r[s[w]] < k \/ (r[s[w]] = k /\ LessSum(SownBy(h, D, s[w]), SownBy(h, D, s[u]))))
                BY <1>1, <3>2
            <4>2. r[s[w]] = p[w] /\ SownBy(h, D, s[w]) = SownBy(g, C, w)
                  /\ SownBy(h, D, s[u]) = SownBy(g, C, u)
                BY <1>1, <1>2
            <4> QED
                BY <3>1, <4>1, <4>2
        <3>6. S \subseteq Vertices /\ T \subseteq Vertices
            BY <3>1, <3>2
        <3>7. T = Image(S, s)
            <4>1. ASSUME NEW w \in T
                  PROVE  w \in Image(S, s)
                <5>1. PICK y \in Vertices : s[y] = w
                    BY <1>3, <3>6
                <5> QED
                    BY <3>5, <5>1 DEF Image
            <4>2. ASSUME NEW y \in S
                  PROVE  s[y] \in T
                BY <3>5, <3>6
            <4> QED
                BY <4>1, <4>2 DEF Image
        <3>8. Cardinality(T) = Cardinality(S)
            BY <3>6, <3>7, ImageCounts
        <3> QED
            BY <3>3, <3>4, <3>8
    <2> QED
        BY <2>1, <2>2
<1>6. x \in [Vertices -> Vertices]
    <2>1. ASSUME NEW v \in Vertices
          PROVE  x[v] \in Vertices
        <3>1. PICK u \in Vertices : s[u] = v
            BY <1>3
        <3>2. q[u] \in Vertices
            OBVIOUS
        <3> QED
            BY <1>5, <3>1, <3>2
    <2>2. x = [v \in Vertices |-> x[v]]
        BY <1>4 DEF SplitBySums
    <2> QED
        BY <2>1, <2>2
<1>7. x = RenamedPartition(q, s)
    BY <1>5, <1>6, RenamedIs
<1> QED
    BY <1>4, <1>7

\* Renamed cells have the sums of the cells.
LEMMA SumAtRenamed ==
    ASSUME NEW s, IsRenaming(s), NEW g \in SUBSET (Vertices \X Vertices),
           NEW q \in [Vertices -> Vertices], NEW C, C \subseteq Vertices,
           NEW h, h = Renamed(g, s), NEW r, r = RenamedPartition(q, s), NEW D, D = Image(C, s)
    PROVE  \A j : SumAt(h, D, r, j) = SumAt(g, C, q, j)
<1> TAKE j
<1>1. Cell(r, j) = Image(Cell(q, j), s)
    BY CellsRenamed
<1>2. \A v \in Vertices : SownBy(h, D, s[v]) = SownBy(g, C, v)
    BY SownRenamed
<1>3. {SownBy(h, D, v) : v \in Cell(r, j)} = {SownBy(g, C, v) : v \in Cell(q, j)}
    <2>1. {SownBy(h, D, v) : v \in Cell(r, j)} = {SownBy(h, D, s[v]) : v \in Cell(q, j)}
        BY <1>1 DEF Image
    <2>2. \A v \in Cell(q, j) : SownBy(h, D, s[v]) = SownBy(g, C, v)
        BY <1>2 DEF Cell
    <2> QED
        BY <2>1, <2>2
<1> QED
    BY <1>3 DEF SumAt

\* The partition and the cell that was sown are typed.
StateTyped(a) == a.index \in [Vertices -> Vertices] /\ a.by \subseteq Vertices

\* A state of the refinement of the renamed graph.
RenamedState(a, s) ==
    State(RenamedPartition(a.index, s), a.active, a.count, Image(a.by, s), a.adjacent, a.trace, a.pc)

\* The parts of a state.
LEMMA StateIs ==
    ASSUME NEW p, NEW A, NEW n, NEW C, NEW J, NEW t, NEW x, NEW a, a = State(p, A, n, C, J, t, x)
    PROVE  /\ a.index = p /\ a.active = A /\ a.count = n /\ a.by = C /\ a.adjacent = J
           /\ a.trace = t /\ a.pc = x
BY DEF State

\* A step of a renamed state is the renamed step.
LEMMA AfterRenamed ==
    ASSUME NEW s, IsRenaming(s), NEW g \in SUBSET (Vertices \X Vertices),
           NEW a, StateTyped(a), NEW b, b = After(g, a), StateTyped(b),
           NEW h, h = Renamed(g, s), NEW c, c = RenamedState(a, s)
    PROVE  After(h, c) = RenamedState(b, s)
<1>1. PICK p, A, n, C, J, t, x :
          p = a.index /\ A = a.active /\ n = a.count /\ C = a.by /\ J = a.adjacent
            /\ t = a.trace /\ x = a.pc
    OBVIOUS
<1>2. PICK r : r = RenamedPartition(p, s)
    OBVIOUS
<1>3. PICK D : D = Image(C, s)
    OBVIOUS
<1>4. c = State(r, A, n, D, J, t, x)
    BY <1>1, <1>2, <1>3 DEF RenamedState
<1>5. /\ c.index = r /\ c.active = A /\ c.count = n /\ c.by = D /\ c.adjacent = J
      /\ c.trace = t /\ c.pc = x
    BY <1>4, StateIs
<1>6. p \in [Vertices -> Vertices] /\ C \subseteq Vertices
    BY <1>1 DEF StateTyped
<1>7. CASE x = "active" /\ A = <<>>
    <2>1. b = State(p, A, n, C, J, t, "done")
        BY <1>1, <1>7 DEF After, EndAfter
    <2>2. After(h, c) = State(r, A, n, D, J, t, "done")
        BY <1>5, <1>7 DEF After, EndAfter
    <2>3. RenamedState(b, s) = State(r, A, n, D, J, t, "done")
        BY <1>2, <1>3, <2>1, StateIs DEF RenamedState
    <2> QED
        BY <2>2, <2>3
<1>8. CASE x = "active" /\ A # <<>>
    <2>1. PICK k : k = Last(A)
        OBVIOUS
    <2>2. PICK B : B = Cell(p, k)
        OBVIOUS
    <2>3. PICK E : E = Cell(r, k)
        OBVIOUS
    <2>4. B \subseteq Vertices /\ E = Image(B, s)
        <3>1. B \subseteq Vertices
            BY <2>2 DEF Cell
        <3> QED
            BY <1>2, <1>6, <2>2, <2>3, <3>1, CellsRenamed
    <2>5. PICK I : I = NextTo(g, p, B)
        OBVIOUS
    <2>6. NextTo(h, r, E) = I
        BY <1>2, <1>6, <2>4, <2>5, NextToRenamed
    <2>7. b = State(p, Front(A), n, B, I, Pushed(t, k), "split")
        <3>1. b = SowAfter(g, a)
            BY <1>1, <1>8 DEF After
        <3> QED
            BY <1>1, <2>1, <2>2, <2>5, <3>1 DEF SowAfter
    <2>8. After(h, c) = State(r, Front(A), n, E, I, Pushed(t, k), "split")
        <3>1. After(h, c) = SowAfter(h, c)
            BY <1>5, <1>8 DEF After
        <3>2. SowAfter(h, c) = State(r, Front(A), n, E, NextTo(h, r, E), Pushed(t, k), "split")
            BY <1>5, <2>1, <2>3 DEF SowAfter
        <3> QED
            BY <2>6, <3>1, <3>2
    <2>9. RenamedState(b, s) = State(r, Front(A), n, E, I, Pushed(t, k), "split")
        BY <1>2, <2>4, <2>7, StateIs DEF RenamedState
    <2> QED
        BY <2>8, <2>9
<1>9. CASE x # "active" /\ J = {}
    <2>1. b = State(p, A, n + 1, C, J, t, "active")
        BY <1>1, <1>9 DEF After, CountAfter
    <2>2. After(h, c) = State(r, A, n + 1, D, J, t, "active")
        BY <1>5, <1>9 DEF After, CountAfter
    <2>3. RenamedState(b, s) = State(r, A, n + 1, D, J, t, "active")
        BY <1>2, <1>3, <2>1, StateIs DEF RenamedState
    <2> QED
        BY <2>2, <2>3
<1>10. CASE x # "active" /\ J # {}
    <2>1. PICK k : k = Min(J)
        OBVIOUS
    <2>2. PICK q : q = SplitBySums(g, p, C, k)
        OBVIOUS
    <2>3. PICK y : y = SplitBySums(h, r, D, k)
        OBVIOUS
    <2>4. PICK K : K = NewOf(p, q)
        OBVIOUS
    <2>5. PICK L : L = EntriesOf(g, C, q, k, K)
        OBVIOUS
    <2>6. b = State(q, A \o Ascending(K), n, C, J \ {k}, Recorded(t, n, L), "split")
        <3>1. b = SplitAfter(g, a)
            BY <1>1, <1>10 DEF After
        <3> QED
            BY <1>1, <2>1, <2>2, <2>4, <2>5, <3>1 DEF SplitAfter
    <2>7. q \in [Vertices -> Vertices]
        <3>1. b.index = q
            BY <2>6, StateIs
        <3> QED
            BY <3>1 DEF StateTyped
    <2>8. y = RenamedPartition(q, s)
        BY <1>2, <1>3, <1>6, <2>2, <2>3, <2>7, SplitRenamed
    <2>9. NewOf(r, y) = K
        <3>1. Nest!Indices(r) = Nest!Indices(p)
            BY <1>2, <1>6, CellsRenamed
        <3>2. Nest!Indices(y) = Nest!Indices(q)
            BY <2>7, <2>8, CellsRenamed
        <3> QED
            BY <2>4, <3>1, <3>2 DEF NewOf
    <2>10. EntriesOf(h, D, y, k, K) = L
        <3>1. \A j : SumAt(h, D, y, j) = SumAt(g, C, q, j)
            BY <1>3, <1>6, <2>7, <2>8, SumAtRenamed
        <3> QED
            BY <2>5, <3>1 DEF EntriesOf
    <2>11. After(h, c) = State(y, A \o Ascending(K), n, D, J \ {k}, Recorded(t, n, L), "split")
        <3>1. After(h, c) = SplitAfter(h, c)
            BY <1>5, <1>10 DEF After
        <3>2. SplitAfter(h, c) =
                  State(y, A \o Ascending(K), n, D, J \ {k},
                        Recorded(t, n, EntriesOf(h, D, y, k, K)), "split")
            BY <1>5, <2>1, <2>3, <2>9 DEF SplitAfter
        <3> QED
            BY <2>10, <3>1, <3>2
    <2>12. RenamedState(b, s) = State(y, A \o Ascending(K), n, D, J \ {k}, Recorded(t, n, L), "split")
        BY <1>3, <2>6, <2>8, StateIs DEF RenamedState
    <2> QED
        BY <2>11, <2>12
<1> QED
    BY <1>7, <1>8, <1>9, <1>10

-----------------------------------------------------------------------------
(* The call on the renamed graph *)

\* The state in which a refinement of p starts.
StartOf(p) == State(p, nontrivial_indices(p), 0, {}, {}, EmptyTrace, "active")

\* The states of a refinement, from its start to the n-th.
RunOf(h, n, g, p) ==
    /\ h[0] = StartOf(p)
    /\ \A i \in 0 .. n : StateTyped(h[i])
    /\ \A i \in 0 .. n : i < n => h[i].pc # "done" /\ h[i + 1] = After(g, h[i])

\* The first call has made n steps.
FirstRun(h, n, C) ==
    /\ RunOf(h, n, graph, start)
    /\ h[n] = Now(C)
    /\ SowedBy(C)

\* The first call refined p in the graph g with the states h, and ended with the n-th; the
\* call on the renamed graph has made m of its steps.
RenamedRun(g, p, h, n, m, C) ==
    /\ g \in SUBSET (Vertices \X Vertices)
    /\ IsRenaming(first.names)
    /\ graph = Renamed(g, first.names)
    /\ RunOf(h, n, g, p)
    /\ h[n].pc = "done" /\ h[n].trace = first.trace /\ h[n].index = first.index
    /\ m \in 0 .. n
    /\ Now(C) = RenamedState(h[m], first.names)
    /\ SowedBy(C)

\* Both calls take the steps of the same function.
FollowsRun ==
    /\ call = "first" /\ Going =>
           \E n \in Nat : \E h, C : FirstRun(h, n, C)
    /\ call = "renamed" /\ Going =>
           \E n \in Nat : \E g, p, h, m, C : RenamedRun(g, p, h, n, m, C)

\* One more step.
LEMMA RunExtends ==
    ASSUME NEW g, NEW p, NEW n \in Nat, NEW h, RunOf(h, n, g, p), h[n].pc # "done",
           NEW b, b = After(g, h[n]), StateTyped(b)
    PROVE  \E f : RunOf(f, n + 1, g, p) /\ f[n + 1] = b
<1>1. PICK f : f = [i \in 0 .. n + 1 |-> IF i <= n THEN h[i] ELSE b]
    OBVIOUS
<1>2. (\A i \in 0 .. n : f[i] = h[i]) /\ f[n + 1] = b
    BY <1>1
<1>3. /\ h[0] = StartOf(p)
      /\ \A i \in 0 .. n : StateTyped(h[i])
      /\ \A i \in 0 .. n : i < n => h[i].pc # "done" /\ h[i + 1] = After(g, h[i])
    BY DEF RunOf
<1>4. f[0] = StartOf(p)
    BY <1>2, <1>3
<1>5. ASSUME NEW i \in 0 .. n + 1 PROVE StateTyped(f[i])
    <2>1. i \in 0 .. n \/ i = n + 1
        OBVIOUS
    <2> QED
        BY <1>2, <1>3, <2>1
<1>6. ASSUME NEW i \in 0 .. n + 1, i < n + 1
      PROVE  f[i].pc # "done" /\ f[i + 1] = After(g, f[i])
    <2>1. i \in 0 .. n
        BY <1>6
    <2>2. f[i] = h[i]
        BY <1>2, <2>1
    <2>3. CASE i < n
        <3>1. i + 1 \in 0 .. n
            BY <2>1, <2>3
        <3>2. f[i + 1] = h[i + 1]
            BY <1>2, <3>1
        <3>3. h[i].pc # "done" /\ h[i + 1] = After(g, h[i])
            BY <1>3, <2>1, <2>3
        <3> QED
            BY <2>2, <3>2, <3>3
    <2>4. CASE i = n
        <3>1. f[i] = h[n] /\ f[i + 1] = b
            BY <1>2, <2>2, <2>4
        <3> QED
            BY <3>1
    <2> QED
        BY <2>1, <2>3, <2>4
<1>7. RunOf(f, n + 1, g, p)
    BY <1>4, <1>5, <1>6 DEF RunOf
<1> QED
    BY <1>2, <1>7

\* The state at hand is typed.
LEMMA NowTyped ==
    ASSUME TypeInv, NEW C, SowedBy(C)
    PROVE  StateTyped(Now(C))
<1>1. index_containing \in [Vertices -> Vertices]
    BY DEF TypeInv, RefineInv, RefinerShape, IndexedPartitions
<1>2. C \subseteq Vertices
    BY DEF SowedBy
<1>3. PICK a : a = Now(C)
    OBVIOUS
<1>4. a.index = index_containing /\ a.by = C
    BY <1>3 DEF Now, State
<1> QED
    BY <1>1, <1>2, <1>3, <1>4 DEF StateTyped

\* NowTyped, for the state after a step.
LEMMA NowTypedNext ==
    TypeInv' => \A C : SowedBy(C)' => StateTyped(Now(C)')
<1>1. TypeInv => \A C : SowedBy(C) => StateTyped(Now(C))
    BY NowTyped
<1>2. (TypeInv => \A C : SowedBy(C) => StateTyped(Now(C)))'
    BY <1>1, PTL
<1> QED
    BY <1>2 DEF StateTyped

\* The parts of the state at hand.
LEMMA NowIs ==
    \A C : /\ Now(C).index = index_containing /\ Now(C).active = active_indices
           /\ Now(C).count = active_count /\ Now(C).by = C /\ Now(C).adjacent = adjacent
           /\ Now(C).trace = trace /\ Now(C).pc = pc
BY DEF Now, State

\* The first call starts.
LEMMA InitFollows == Init => FollowsRun
<1> SUFFICES ASSUME Init PROVE FollowsRun
    OBVIOUS
<1>1. /\ index_containing = start /\ active_indices = nontrivial_indices(start)
      /\ active_count = 0 /\ adjacent = {} /\ trace = EmptyTrace /\ pc = "active"
      /\ call = "first"
    BY DEF Init
<1>2. Now({}) = StartOf(start)
    BY <1>1 DEF Now, StartOf
<1>3. SowedBy({})
    BY <1>1 DEF SowedBy
<1>4. StateTyped(Now({}))
    BY <1>3, InitTypes, NowTyped
<1>5. PICK h : h = [i \in 0 .. 0 |-> Now({})]
    OBVIOUS
<1>6. RunOf(h, 0, graph, start) /\ h[0] = Now({})
    BY <1>2, <1>4, <1>5 DEF RunOf
<1>7. FirstRun(h, 0, {})
    BY <1>3, <1>6 DEF FirstRun
<1> QED
    BY <1>1, <1>7 DEF FollowsRun

\* A step is taken within a call.
LEMMA StepGoes ==
    ASSUME Step
    PROVE  /\ pc \in {"active", "split"}
           /\ UNCHANGED callVars
BY DEF Step, Throw, LargerActiveIndex, SowActiveCell, ReadsPastSums, TraceTrivial,
       sort_and_split_index, NextActiveIndex, Return, AfterAdjacent

\* A step of the first call.
LEMMA FirstFollows ==
    ASSUME TypeInv, TypeInv', FollowsRun, Step, call = "first", Going'
    PROVE  \E n \in Nat : \E h, C : FirstRun(h, n, C)'
<1>1. pc \in {"active", "split"} /\ graph' = graph /\ start' = start
    BY StepGoes DEF callVars
<1>2. PICK n \in Nat : \E h, B : FirstRun(h, n, B)
    BY <1>1 DEF FollowsRun, Going
<1>3. PICK h, B : FirstRun(h, n, B)
    BY <1>2
<1>4. RunOf(h, n, graph, start) /\ h[n] = Now(B) /\ SowedBy(B)
    BY <1>3 DEF FirstRun
<1>5. PICK C : Now(C)' = After(graph, Now(B)) /\ SowedBy(C)'
    BY <1>4, StepFollows DEF NewTrace
<1>6. StateTyped(Now(C)')
    BY <1>5, NowTypedNext
<1>7. PICK b : b = Now(C)'
    OBVIOUS
<1>8. PICK a : a = Now(B)
    OBVIOUS
<1>9. a.pc = pc
    BY <1>8, NowIs
<1>10. h[n].pc # "done"
    BY <1>1, <1>4, <1>8, <1>9
<1>11. b = After(graph, h[n]) /\ StateTyped(b)
    BY <1>4, <1>5, <1>6, <1>7
<1>12. PICK f : RunOf(f, n + 1, graph, start) /\ f[n + 1] = b
    BY <1>4, <1>10, <1>11, RunExtends
<1>13. RunOf(f, n + 1, graph', start')
    BY <1>1, <1>12
<1>14. FirstRun(f, n + 1, C)'
    BY <1>5, <1>7, <1>12, <1>13 DEF FirstRun
<1> QED
    BY <1>14

\* A step of the call on the renamed graph.
LEMMA RenamedFollows ==
    ASSUME TypeInv, FollowsRun, Step, call = "renamed", Going'
    PROVE  \E n \in Nat : \E g, p, h, m, C : RenamedRun(g, p, h, n, m, C)'
<1>1. pc \in {"active", "split"} /\ graph' = graph /\ first' = first
    BY StepGoes DEF callVars
<1>2. PICK n \in Nat : \E g, p, h, m, B : RenamedRun(g, p, h, n, m, B)
    BY <1>1 DEF FollowsRun, Going
<1>3. PICK g, p, h, m, B : RenamedRun(g, p, h, n, m, B)
    BY <1>2
<1>4. PICK s : s = first.names
    OBVIOUS
<1>5. /\ g \in SUBSET (Vertices \X Vertices) /\ IsRenaming(s) /\ graph = Renamed(g, s)
      /\ RunOf(h, n, g, p) /\ h[n].pc = "done" /\ m \in 0 .. n
      /\ Now(B) = RenamedState(h[m], s) /\ SowedBy(B)
    BY <1>3, <1>4 DEF RenamedRun
<1>6. PICK C : Now(C)' = After(graph, Now(B)) /\ SowedBy(C)'
    BY <1>5, StepFollows DEF NewTrace
<1>7. h[m].pc = pc
    <2>1. PICK a : a = Now(B)
        OBVIOUS
    <2>2. a.pc = pc
        BY <2>1, NowIs
    <2>3. a.pc = h[m].pc
        BY <1>5, <2>1, StateIs DEF RenamedState
    <2> QED
        BY <2>2, <2>3
<1>8. m < n /\ m + 1 \in 0 .. n
    <2>1. m # n
        BY <1>1, <1>5, <1>7
    <2> QED
        BY <1>5, <2>1
<1>9. h[m + 1] = After(g, h[m]) /\ StateTyped(h[m]) /\ StateTyped(h[m + 1])
    BY <1>5, <1>8 DEF RunOf
<1>10. After(graph, Now(B)) = RenamedState(h[m + 1], s)
    BY <1>5, <1>9, AfterRenamed
<1>11. Now(C)' = RenamedState(h[m + 1], s)
    BY <1>6, <1>10
<1>12. RenamedRun(g, p, h, n, m + 1, C)'
    BY <1>1, <1>3, <1>4, <1>6, <1>8, <1>11 DEF RenamedRun
<1> QED
    BY <1>12

\* The call on the renamed graph starts in the renamed state.
LEMMA CallFollows ==
    ASSUME TypeInv, FollowsRun, NEW s \in Renamings, CallRenamed(s)
    PROVE  \E n \in Nat : \E g, p, h, m, C : RenamedRun(g, p, h, n, m, C)'
<1>1. call = "first" /\ pc = "done"
    BY DEF CallRenamed, FirstDone
<1>2. PICK n \in Nat : \E h, B : FirstRun(h, n, B)
    BY <1>1 DEF FollowsRun, Going
<1>3. PICK h, B : FirstRun(h, n, B)
    BY <1>2
<1>4. RunOf(h, n, graph, start) /\ h[n] = Now(B)
    BY <1>3 DEF FirstRun
<1>5. PICK q : q = RenamedPartition(start, s)
    OBVIOUS
<1>6. /\ graph' = Renamed(graph, s) /\ index_containing' = q /\ adjacent' = {}
      /\ active_indices' = nontrivial_indices(q) /\ active_count' = 0
      /\ trace' = EmptyTrace /\ pc' = "active"
    BY <1>5 DEF CallRenamed, Refine
<1>7. first'.trace = trace /\ first'.index = index_containing /\ first'.names = s
    BY DEF CallRenamed
<1>8. IsRenaming(s)
    BY ConstantsAssumption DEF IsRenaming
<1>9. graph \in SUBSET (Vertices \X Vertices) /\ start \in IndexedPartitions
    BY DEF TypeInv, RefineInv, RefinerShape
<1>10. start \in [Vertices -> Vertices]
    BY <1>9 DEF IndexedPartitions
<1>11. h[n].pc = "done" /\ h[n].trace = trace /\ h[n].index = index_containing
    <2>1. PICK a : a = Now(B)
        OBVIOUS
    <2>2. a.pc = pc /\ a.trace = trace /\ a.index = index_containing
        BY <2>1, NowIs
    <2> QED
        BY <1>1, <1>4, <2>1, <2>2
<1>12. nontrivial_indices(q) = nontrivial_indices(start)
    <2>1. Nest!Indices(q) = Nest!Indices(start)
        BY <1>5, <1>8, <1>10, CellsRenamed
    <2> QED
        BY <2>1 DEF nontrivial_indices
<1>13. Now({})' = RenamedState(h[0], s)
    <2>1. Now({})' = State(q, nontrivial_indices(start), 0, {}, {}, EmptyTrace, "active")
        BY <1>6, <1>12 DEF Now
    <2>2. h[0] = StartOf(start)
        BY <1>4 DEF RunOf
    <2>3. PICK a : a = StartOf(start)
        OBVIOUS
    <2>4. /\ a.index = start /\ a.active = nontrivial_indices(start) /\ a.count = 0
          /\ a.by = {} /\ a.adjacent = {} /\ a.trace = EmptyTrace /\ a.pc = "active"
        BY <2>3, StateIs DEF StartOf
    <2>5. Image({}, s) = {}
        BY DEF Image
    <2>6. RenamedState(a, s) = State(q, nontrivial_indices(start), 0, {}, {}, EmptyTrace, "active")
        BY <1>5, <2>4, <2>5 DEF RenamedState
    <2> QED
        BY <2>1, <2>2, <2>3, <2>6
<1>14. SowedBy({})'
    BY <1>6 DEF SowedBy
<1>15. PICK g, p : g = graph /\ p = start
    OBVIOUS
<1>16. /\ g \in SUBSET (Vertices \X Vertices) /\ RunOf(h, n, g, p)
       /\ graph' = Renamed(g, first'.names) /\ IsRenaming(first'.names)
       /\ h[n].pc = "done" /\ h[n].trace = first'.trace /\ h[n].index = first'.index
       /\ Now({})' = RenamedState(h[0], first'.names)
    BY <1>4, <1>6, <1>7, <1>8, <1>9, <1>11, <1>13, <1>15
<1>17. 0 \in 0 .. n
    OBVIOUS
<1>18. RenamedRun(g, p, h, n, 0, {})'
    BY <1>14, <1>16, <1>17 DEF RenamedRun
<1> QED
    BY <1>18

\* FollowsRun is kept.
LEMMA NextFollowsRun == TypeInv /\ TypeInv' /\ FollowsRun /\ [Next]_vars => FollowsRun'
<1> SUFFICES ASSUME TypeInv, TypeInv', FollowsRun, [Next]_vars
             PROVE  FollowsRun'
    OBVIOUS
<1>1. CASE Step
    <2>1. call' = call
        BY <1>1, StepGoes DEF callVars
    <2>2. call' = "first" /\ Going' => \E n \in Nat : \E h, C : FirstRun(h, n, C)'
        BY <1>1, <2>1, FirstFollows
    <2>3. call' = "renamed" /\ Going' =>
              \E n \in Nat : \E g, p, h, m, C : RenamedRun(g, p, h, n, m, C)'
        BY <1>1, <2>1, RenamedFollows
    <2> QED
        BY <2>2, <2>3 DEF FollowsRun
<1>2. CASE \E s \in Renamings : CallRenamed(s)
    <2>1. PICK s \in Renamings : CallRenamed(s)
        BY <1>2
    <2>2. call' = "renamed"
        BY <2>1 DEF CallRenamed
    <2>3. \E n \in Nat : \E g, p, h, m, C : RenamedRun(g, p, h, n, m, C)'
        BY <2>1, CallFollows
    <2> QED
        BY <2>2, <2>3 DEF FollowsRun
<1>3. CASE \E u \in Vertices : CallIndividualized(u)
    <2>1. call' = "individualized"
        BY <1>3 DEF CallIndividualized
    <2> QED
        BY <2>1 DEF FollowsRun
<1>4. CASE \E o \in Others \cup {<<graph, start>>} : CallCompared(o[1], o[2])
    <2>1. call' \in {"again", "compared"}
        BY <1>4 DEF CallCompared
    <2> QED
        BY <2>1 DEF FollowsRun
<1>5. CASE Ended \/ UNCHANGED vars
    <2>1. UNCHANGED vars
        BY <1>5 DEF Ended
    <2>2. /\ UNCHANGED <<index_containing, active_indices, active_count, attr_sums, adjacent>>
          /\ UNCHANGED <<trace, pc, graph, start, call, first>>
        BY <2>1 DEF vars, nestVars, callVars
    <2> QED
        BY <2>2 DEF FollowsRun, FirstRun, RenamedRun, Now, SowedBy, Going
<1> QED
    BY <1>1, <1>2, <1>3, <1>4, <1>5 DEF Next

\* The renamed call ends with the step with which the first one ended.
LEMMA FollowsIsCanonical == TypeInv /\ FollowsRun => CanonicalTrace
<1> SUFFICES ASSUME TypeInv, FollowsRun PROVE CanonicalTrace
    OBVIOUS
<1>1. TypeOK
    BY TypesFollow
<1>2. ASSUME call = "renamed", pc = "done"
      PROVE  /\ trace = first.trace
             /\ \A v \in Vertices : index_containing[first.names[v]] = first.index[v]
    <2>1. PICK n \in Nat : \E g, p, h, m, C : RenamedRun(g, p, h, n, m, C)
        BY <1>2 DEF FollowsRun, Going
    <2>2. PICK g, p, h, m, C : RenamedRun(g, p, h, n, m, C)
        BY <2>1
    <2>3. PICK s : s = first.names
        OBVIOUS
    <2>4. /\ IsRenaming(s) /\ RunOf(h, n, g, p) /\ m \in 0 .. n
          /\ h[n].trace = first.trace /\ h[n].index = first.index
          /\ Now(C) = RenamedState(h[m], s)
        BY <2>2, <2>3 DEF RenamedRun
    <2>5. PICK a : a = Now(C)
        OBVIOUS
    <2>6. a.pc = "done" /\ a.trace = trace /\ a.index = index_containing
        BY <1>2, <2>5, NowIs
    <2>7. /\ a.pc = h[m].pc /\ a.trace = h[m].trace
          /\ a.index = RenamedPartition(h[m].index, s)
        BY <2>4, <2>5, StateIs DEF RenamedState
    <2>8. m = n
        <3>1. ~ m < n
            BY <2>4, <2>6, <2>7 DEF RunOf
        <3> QED
            BY <2>4, <3>1
    <2>9. index_containing = RenamedPartition(first.index, s) /\ trace = first.trace
        BY <2>4, <2>6, <2>7, <2>8
    <2>10. \A v \in Vertices : RenamedPartition(first.index, s)[s[v]] = first.index[v]
        BY <2>4, RenamedAt
    <2> QED
        BY <2>3, <2>9, <2>10
<1> QED
    BY <1>1, <1>2 DEF CanonicalTrace

\* The variables keep their types, and renaming the vertices of a coloured graph changes
\* neither the trace that a refinement records nor, up to the renaming, the partition: for
\* any graph, any partition and any permutation of the vertices, in whatever order each
\* of the two calls' std::sort leaves the vertices with equal sums.
THEOREM CanonicalTraceTheorem == Spec => []CanonicalTrace
<1>1. Init => TypeInv /\ FollowsRun
    BY InitTypes, InitFollows
<1>2. TypeInv /\ FollowsRun /\ [Next]_vars => (TypeInv /\ FollowsRun)'
    BY NextTypes, NextFollowsRun
<1>3. TypeInv /\ FollowsRun => CanonicalTrace
    BY FollowsIsCanonical
<1> QED
    BY <1>1, <1>2, <1>3, PTL DEF Spec
=============================================================================
