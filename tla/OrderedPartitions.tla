-------------------------- MODULE OrderedPartitions -------------------------
(***************************************************************************)
(* Ordered partitions of the vertices of a graph, as nauty and Bliss keep  *)
(* them: p[v] is the position at which the cell of v starts, that is, the  *)
(* number of vertices in the cells before it.                              *)
(***************************************************************************)
EXTENDS Loops, TLC

CellAt(p, s) == {v \in DOMAIN p : p[v] = s}

Starts(p) == {p[v] : v \in DOMAIN p}

Nontrivial(p) == {s \in Starts(p) : Cardinality(CellAt(p, s)) > 1}

NumCells(p) == Cardinality(Starts(p))

Discrete(p) == NumCells(p) = Cardinality(DOMAIN p)

\* The cells of p, each split by value, smaller values first; only those at an
\* index of S.
Regroup(p, S, val) ==
    [v \in DOMAIN p |->
        IF p[v] \in S
        THEN p[v] + Cardinality({u \in CellAt(p, p[v]) : val[u] < val[v]})
        ELSE p[v]]
=============================================================================
