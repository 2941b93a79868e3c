---------------------------- MODULE SampleGraphs ----------------------------
(***************************************************************************)
(* Coloured digraphs to run canonical labelling on.                        *)
(***************************************************************************)
EXTENDS Integers, Sequences, FiniteSets, SequencesExt

Graph(m, Arc(_, _)) == [v \in 0 .. m - 1 |-> {w \in 0 .. m - 1 : Arc(v, w)}]

\* Ordered partitions: every vertex is mapped to the number of vertices before its cell.
Colorings(m) ==
    {c \in [0 .. m - 1 -> 0 .. m - 1] :
        \A v \in 0 .. m - 1 : c[v] = Cardinality({u \in 0 .. m - 1 : c[u] < c[v]})}

Plain(m) == [v \in 0 .. m - 1 |-> 0]
OneApart(m) == [v \in 0 .. m - 1 |-> IF v = 0 THEN 0 ELSE 1]
Halves(m) == [v \in 0 .. m - 1 |-> IF v % 2 = 0 THEN 0 ELSE (m + 1) \div 2]

\* Copies of a circulant graph on k vertices: v and its successors by the numbers of S.
Circulants(m, k, S) ==
    Graph(m, LAMBDA v, w : v \div k = w \div k /\ (w - v + k) % k \in S)

Regular(m, k, colorings) ==
    {[g |-> Circulants(m, k, S), colors |-> c] : S \in SUBSET (1 .. k - 1), c \in colorings}

\* The index of the part that v is in when parts of the given sizes are put in a row.
PartOf(sizes, v) ==
    CHOOSE i \in DOMAIN sizes :
        /\ FoldLeft(+, 0, SubSeq(sizes, 1, i - 1)) <= v
        /\ v < FoldLeft(+, 0, SubSeq(sizes, 1, i))

\* Disjoint cycles of the given lengths.
Cycles(lengths) ==
    LET Before(v) == FoldLeft(+, 0, SubSeq(lengths, 1, PartOf(lengths, v) - 1))
    IN  Graph(FoldLeft(+, 0, lengths),
              LAMBDA v, w : /\ PartOf(lengths, v) = PartOf(lengths, w)
                            /\ w = Before(v) + ((v - Before(v) + 1)
                                                  % lengths[PartOf(lengths, v)]))

\* Blocks of cycles.  Every vertex of the first block of a pair has an arc to every vertex of
\* the second.  color: for each block, which of the colours it has.
Blocks(blocks, pairs, color) ==
    LET sizes == [i \in DOMAIN blocks |-> FoldLeft(+, 0, blocks[i])]
        inner == Cycles(FlattenSeq(blocks))
        Of(v) == color[PartOf(sizes, v)]
    IN  [g |-> [v \in DOMAIN inner |->
                  inner[v] \cup {w \in DOMAIN inner :
                                    <<PartOf(sizes, v), PartOf(sizes, w)>> \in pairs}],
         colors |-> [v \in DOMAIN inner |->
                       Cardinality({u \in DOMAIN inner : Of(u) < Of(v)})]]

\* Trees with arcs from the root.
Tree(m) == [g |-> Graph(m, LAMBDA v, w : w > 0 /\ v = (w - 1) \div 2), colors |-> Plain(m)]

\* Two roots with arcs to a vertex with a loop and to two leaves each.
Forks ==
    [g |-> Graph(8, LAMBDA v, w : \/ v < 2 /\ w \in {v + 2, 2 * v + 4, 2 * v + 5}
                                  \/ v \in {2, 3} /\ w = v),
     colors |-> Plain(8)]

\* Two graphs side by side, of different colours.
Beside(a, b) ==
    LET n == Cardinality(DOMAIN a.g)
        All == 0 .. n + Cardinality(DOMAIN b.g) - 1
    IN  [g |-> [v \in All |-> IF v < n THEN a.g[v] ELSE {n + w : w \in b.g[v - n]}],
         colors |-> [v \in All |-> IF v < n THEN a.colors[v] ELSE n + b.colors[v - n]]]

Swap(m) == [v \in 0 .. m - 1 |-> IF v = 0 THEN 1 ELSE IF v = 1 THEN 0 ELSE v]
Shift(m) == [v \in 0 .. m - 1 |-> (v + 1) % m]
=============================================================================
