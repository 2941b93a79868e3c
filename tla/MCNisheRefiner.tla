--------------------------- MODULE MCNisheRefiner ---------------------------
EXTENDS NisheRefiner

Path(n) == {<<u, u + 1>> : u \in 0 .. n - 2}

Both(g) == g \cup {<<a[2], a[1]>> : a \in g}

\* Regular and irregular graphs, arcs in one and in both directions, a loop, graphs
\* of two components, vertices without arcs, also past the last one with an arc.
MCGraphs ==
    SUBSET {<<0, 1>>, <<1, 0>>, <<1, 2>>, <<2, 3>>, <<3, 0>>, <<3, 3>>} \cup
    {Both(Path(4)), Both(Path(4) \cup {<<3, 0>>}), {<<0, 2>>, <<1, 3>>},
     {<<0, 1>>, <<2, 1>>, <<2, 3>>}, {<<0, 3>>, <<1, 3>>, <<2, 3>>}}

\* Every number of colours; a graph is given in several numberings above.  In the
\* last one a vertex without arcs may share the first cell.
MCStarts ==
    {[v \in Vertices |-> Max({k \in K : k <= v})] : K \in {S \in SUBSET Vertices : 0 \in S}}
      \cup {[v \in Vertices |-> IF v \in {0, 3} THEN 0 ELSE 2]}

MCOthers ==
    {Path(4), {<<0, 3>>, <<1, 3>>, <<2, 3>>}} \X
    {[v \in Vertices |-> 0], [v \in Vertices |-> IF v = 0 THEN 0 ELSE 1]}

\* A rotation and an exchange generate all renamings.
MCRenamings ==
    {[v \in Vertices |-> (v + 1) % N],
     [v \in Vertices |-> IF v = 0 THEN 1 ELSE IF v = 1 THEN 0 ELSE v]}
=============================================================================
