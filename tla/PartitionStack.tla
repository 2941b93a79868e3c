--------------------------- MODULE PartitionStack ---------------------------
(***************************************************************************)
(* What a PartitionNest promises its callers: a stack of ordered           *)
(* partitions of 0 .. N - 1, each at least as fine as the one below it,    *)
(* of which the top can be cut at new indices, copied and dropped.  A      *)
(* partition is the function that gives each element the index of its      *)
(* cell, which is the number of elements in the cells before it.           *)
(***************************************************************************)
EXTENDS Integers, FiniteSets, Sequences, SequencesExt

CONSTANT N  \* number of elements

VARIABLES
    nest,     \* the partitions, the one of the current level last
    pending   \* indices that were asked for and not yet made

vars == <<nest, pending>>

Elements == 0 .. N - 1

Top == nest[Len(nest)]

Indices(p) == {p[u] : u \in Elements}

OrderedPartitions ==
    {p \in [Elements -> Elements] :
        \A u \in Elements : p[u] = Cardinality({v \in Elements : p[v] < p[u]})}

\* q has the cells of p, except that one of them is cut at index k.
Cuts(p, q, k) ==
    /\ q \in OrderedPartitions
    /\ Indices(q) = Indices(p) \cup {k}
    /\ \A u, v \in Elements : p[u] < p[v] => q[u] < q[v]

UnitPartition == [u \in Elements |-> 0]

Init ==
    /\ nest = <<UnitPartition>>
    /\ pending = {}

Reset ==
    /\ nest' = <<UnitPartition>>
    /\ pending' = {}

Ask(k) ==
    /\ k \notin Indices(Top)
    /\ pending' = pending \cup {k}
    /\ UNCHANGED nest

Cut(k) ==
    /\ pending' = pending \ {k}
    /\ Len(nest') = Len(nest)
    /\ Front(nest') = Front(nest)
    /\ Cuts(Top, nest'[Len(nest)], k)

Push ==
    /\ nest' = Append(nest, Top)
    /\ UNCHANGED pending

\* The m + 1 lowest partitions are back exactly as they were.
Drop(m) ==
    /\ nest' = SubSeq(nest, 1, m + 1)
    /\ pending' = {}

Next ==
    \/ Reset
    \/ Push
    \/ \E k \in Elements : Ask(k)
    \/ \E k \in pending : Cut(k)
    \/ \E m \in 0 .. Len(nest) - 1 : Drop(m)

Spec == Init /\ [][Next]_vars
=============================================================================
