--------------------------- MODULE MCBlissSearch ----------------------------
EXTENDS BlissSearch, SampleGraphs

\* Every graph of three vertices, with loops.
Small ==
    {[g |-> s, colors |-> Plain(3)] : s \in [0 .. 2 -> SUBSET (0 .. 2)]}

\* Cycles that the refinement does not tell apart.
SomeCycles ==
    {Blocks(<<lengths>>, {}, <<1>>) :
        lengths \in {<<2, 3>>, <<3, 2>>, <<2, 2, 2>>, <<3, 2, 2>>, <<2, 3, 2>>, <<4, 2, 2>>,
                     <<3, 3, 2>>, <<2, 3, 3>>, <<4, 3>>, <<2, 4, 3>>}}

\* Several components, because of colours or of complete joins.
Components ==
    {Blocks(<<a, b>>, {}, <<2, 1>>) : a \in {<<3>>, <<4>>, <<2, 2>>}, b \in {<<2, 2, 3>>, <<3, 2>>}}
    \cup {Blocks(<<a, b>>, {}, <<1, 2>>) : a, b \in {<<2, 3>>, <<4, 2>>}}
    \cup {Blocks(<<<<4>>, <<2, 2, 3>>>>, pairs, <<1, 1>>) : pairs \in {{<<1, 2>>}, {<<1, 2>>, <<2, 1>>}}}
    \cup {Blocks(<<<<2, 3>>, <<3, 2>>>>, {<<1, 2>>, <<2, 1>>}, <<1, 1>>)}

\* The same graphs, numbered from another vertex on, forwards or backwards.
Turned(in) ==
    LET m == Cardinality(DOMAIN in.g)
    IN  {Renamed(in, [v \in 0 .. m - 1 |-> (d * v + k) % m]) : d \in {1, m - 1}, k \in 0 .. m - 1}

\* Two times two blocks, the first of each pair joined to the second; numbered backwards.
TwoByTwo ==
    Renamed(Blocks(<<<<2, 3>>, <<4>>, <<2, 3>>, <<2, 2>>>>, {<<1, 2>>, <<3, 4>>}, <<1, 2, 1, 2>>),
            [v \in 0 .. 17 |-> (18 - v) % 18])

\* Components inside a component: below the roots the leaves come apart, before or after
\* another component is solved.
Nested ==
    LET Pair == Blocks(<<<<2>>>>, {}, <<1>>)
    IN  {Beside(Forks, Pair), Beside(Pair, Forks)}

MCInputs ==
    Small
    \cup Regular(4, 4, {Plain(4), OneApart(4), Halves(4)})
    \cup Regular(5, 5, {Plain(5)})
    \cup Regular(6, 6, {Plain(6)})
    \cup Regular(6, 3, {Plain(6), Halves(6)})
    \cup UNION {Turned(in) : in \in SomeCycles \cup Components \cup Nested}
    \cup {TwoByTwo, Tree(5), Tree(7)}

\* An exchange and a rotation generate all renamings.
MCRenamings == [m \in 1 .. 18 |-> {Swap(m), Shift(m)}]
=============================================================================
