---------------------------- MODULE MCTransforms ----------------------------
EXTENDS Transforms

\* Graphs with n nodes and the edges of the sequence s.
Graph(n, s) == [n |-> n, data |-> [i \in 0 .. n - 1 |-> Plain], edges |-> s]

AllEdges(n) == [src : 0 .. n - 1, tgt : 0 .. n - 1, label : Labels]

\* One graph for each set of at most k edges.
GraphsUpTo(n, k) ==
  {Graph(n, SetToSeq(E)) : E \in UNION {kSubset(i, AllEdges(n)) : i \in 0 .. k}}

MCLabels == {"a", "b"}
SmallInputs == GraphsUpTo(1, 2) \union GraphsUpTo(2, 2) \union GraphsUpTo(3, 2)
=============================================================================
