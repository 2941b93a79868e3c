--------------------------- MODULE MCNautySearch ----------------------------
EXTENDS NautySearch, SampleGraphs

\* Every graph of three vertices with every colouring.
Small ==
    {[g |-> s, colors |-> c] :
        s \in {h \in [0 .. 2 -> SUBSET (0 .. 2)] : \A v \in 0 .. 2 : v \notin h[v]},
        c \in Colorings(3)}

SomeCycles ==
    {[g |-> Cycles(lengths), colors |-> Plain(Cardinality(DOMAIN Cycles(lengths)))] :
        lengths \in {<<2, 3>>, <<3, 2>>, <<2, 2, 3>>, <<2, 3, 2>>, <<3, 2, 2>>, <<2, 2, 2>>,
                     <<3, 4>>, <<3, 3, 2>>, <<2, 3, 3>>, <<3, 2, 3>>, <<2, 2, 2, 2>>,
                     <<2, 3, 4>>, <<4, 3, 2>>, <<3, 4, 2>>}}

MCInputs ==
    Small
    \cup Regular(4, 4, {Plain(4), OneApart(4), Halves(4)})
    \cup Regular(4, 2, {Plain(4), OneApart(4), Halves(4)})
    \cup Regular(5, 5, {Plain(5)})
    \cup Regular(6, 3, {Plain(6), Halves(6)})
    \cup Regular(6, 2, {Plain(6)})
    \cup SomeCycles
    \cup {Tree(5), Tree(7)}
    \cup {[g |-> Circulants(16, 16, {1}), colors |-> Plain(16)],
          [g |-> Circulants(16, 8, {1}), colors |-> OneApart(16)]}

\* An exchange and a rotation generate all renamings.
MCRenamings == [m \in 1 .. 16 |-> {Swap(m), Shift(m)}]
=============================================================================
