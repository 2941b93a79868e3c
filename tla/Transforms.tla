----------------------------- MODULE Transforms -----------------------------
(***************************************************************************)
(* How a query graph reaches an algorithm: the transforms of GraphUtil and *)
(* gMark, the arrays each binding hands to its native library, and the     *)
(* coloured graph the native side of the binding builds from them.         *)
(*                                                                         *)
(* A graph has nodes 0 .. n - 1, the data of each, and a list of labelled  *)
(* edges.  Node data is "vertex" (a gMark Vertex) or the content of a      *)
(* DataProxy: "head", "tail" or an edge label.  NoLabel is Java's null.    *)
(***************************************************************************)
EXTENDS Integers, Sequences, SequencesExt, FiniteSetsExt, BagsExt

CONSTANTS
  Labels,  \* the edge labels (predicates) in use
  Inputs   \* the query graphs considered

NoLabel == "none"
Plain == "vertex"

Nodes(g) == 0 .. g.n - 1
Edge(s, t, l) == [src |-> s, tgt |-> t, label |-> l]

\* What QueryGraphCPQ.toGraph yields: plain vertices, no edge twice.
IsQueryGraph(g) ==
  /\ g.n \in Nat \ {0}
  /\ g.data = [i \in Nodes(g) |-> Plain]
  /\ IsInjective(g.edges)
  /\ \A k \in 1 .. Len(g.edges) :
       g.edges[k] \in [src : Nodes(g), tgt : Nodes(g), label : Labels]

ASSUME InputsAssumption == \A g \in Inputs : IsQueryGraph(g)

VARIABLES
  input,  \* the query graph
  call    \* what the last native call was given: its binding, nodes, arcs, cells

vars == <<input, call>>

-----------------------------------------------------------------------------
(***************************************************************************)
(* Transforms.                                                             *)
(***************************************************************************)

\* Mutant: both new nodes of an edge get the same label.
ToUndirectedGraphUnmarked(g) ==
  LET head(k) == g.n + 2 * (k - 1)
      tail(k) == head(k) + 1
      m == Len(g.edges)
  IN [n |-> g.n + 2 * m,
      data |-> [i \in 0 .. g.n + 2 * m - 1 |->
                 IF i < g.n THEN g.data[i] ELSE "head"],
      edges |-> FlattenSeq([k \in 1 .. m |->
                 << Edge(g.edges[k].src, tail(k), NoLabel),
                    Edge(tail(k), head(k), g.edges[k].label),
                    Edge(head(k), g.edges[k].tgt, NoLabel) >>])]

\* An edge becomes  source -- tail --label-- head -- target.
ToUndirectedGraph(g) ==
  LET head(k) == g.n + 2 * (k - 1)
      tail(k) == head(k) + 1
      m == Len(g.edges)
  IN [n |-> g.n + 2 * m,
      data |-> [i \in 0 .. g.n + 2 * m - 1 |->
                 IF i < g.n THEN g.data[i]
                 ELSE IF (i - g.n) % 2 = 0 THEN "head" ELSE "tail"],
      edges |-> FlattenSeq([k \in 1 .. m |->
                 << Edge(g.edges[k].src, tail(k), NoLabel),
                    Edge(tail(k), head(k), g.edges[k].label),
                    Edge(head(k), g.edges[k].tgt, NoLabel) >>])]

\* gMark's Util.edgeLabelsToNodes: a labelled edge becomes a node with the
\* label between its ends, an unlabelled edge stays.
EdgeLabelsToNodes(g) ==
  LET labelled == SelectSeq([k \in 1 .. Len(g.edges) |-> k],
                            LAMBDA k : g.edges[k].label # NoLabel)
      node(k) == g.n - 1 + Cardinality({j \in ToSet(labelled) : j <= k})
      m == Len(labelled)
  IN [n |-> g.n + m,
      data |-> [i \in 0 .. g.n + m - 1 |->
                 IF i < g.n THEN g.data[i]
                 ELSE g.edges[labelled[i - g.n + 1]].label],
      edges |-> FlattenSeq([k \in 1 .. Len(g.edges) |->
                 IF g.edges[k].label = NoLabel THEN << g.edges[k] >>
                 ELSE << Edge(g.edges[k].src, node(k), NoLabel),
                         Edge(node(k), g.edges[k].tgt, NoLabel) >>])]

\* gMark's Graph.toAdjacencyList: for each node its successors.
ToAdjacencyList(g) ==
  [i \in Nodes(g) |->
    LET out == SelectSeq(g.edges, LAMBDA e : e.src = i)
    IN [k \in 1 .. Len(out) |-> out[k].tgt]]

(***************************************************************************)
(* The groups of equal data, each in the order of the node ids.  Their own *)
(* order is that of a HashMap with an identity hash in it: any order.      *)
(***************************************************************************)
ColorMaps(g) ==
  LET classes == {{i \in Nodes(g) : g.data[i] = g.data[j]} : j \in Nodes(g)}
  IN {[k \in DOMAIN order |-> SetToSortSeq(order[k], <)] :
        order \in SetToSeqs(classes)}

ToColoredGraphs(g) ==
  {[adj |-> ToAdjacencyList(g), colorMap |-> cm] : cm \in ColorMaps(g)}

-----------------------------------------------------------------------------
(***************************************************************************)
(* Java side of the bindings: the arrays given to the native call.         *)
(***************************************************************************)

\* Mutant: the first node of a group is negated.
PrepareColorsStart(cm) ==
  FlattenSeq([k \in DOMAIN cm |->
    [i \in DOMAIN cm[k] |-> IF i > 1 THEN cm[k][i] + 1 ELSE - cm[k][i] - 1]])

\* Nauty.prepareColors: ids from 1, the last one of each group negated.
PrepareColors(cm) ==
  FlattenSeq([k \in DOMAIN cm |->
    [i \in DOMAIN cm[k] |->
      IF i < Len(cm[k]) THEN cm[k][i] + 1 ELSE - cm[k][i] - 1]])

\* Nishe.computeCanon: ids from 1, the first one of each group negated.
NisheColors(cm) ==
  FlattenSeq([k \in DOMAIN cm |->
    LET group == SetToSortSeq(ToSet(cm[k]), <)
    IN [i \in DOMAIN group |-> IF i = 1 THEN - group[i] - 1 ELSE group[i] + 1]])

(***************************************************************************)
(* Traces.computeCanon makes room in each row for the arcs into its node,  *)
(* then visits the arcs the rows held before and enters each reversed.     *)
(***************************************************************************)
InDegree(adj, i) ==
  FoldFunction(LAMBDA row, sum : sum + Cardinality({k \in DOMAIN row : row[k] = i}),
               0, adj)

\* Mutant: the in-degrees are not replaced by the old row lengths.
VisitedByInDegree(adj, i) == InDegree(adj, i)

\* How many entries of row i are visited.
Visited(adj, i) == Len(adj[i])

AddReversed(adj) ==
  LET rows == [i \in DOMAIN adj |->
                adj[i] \o [k \in 1 .. InDegree(adj, i) |-> 0]]
      arcs == FlattenSeq([s \in 1 .. Cardinality(DOMAIN adj) |->
                [k \in 1 .. Visited(adj, s - 1) |-> <<s - 1, rows[s - 1][k]>>]])
      enter(st, a) ==
        [rows |-> [st.rows EXCEPT ![a[2]][st.idx[a[2]]] = a[1]],
         idx |-> [st.idx EXCEPT ![a[2]] = @ + 1]]
  IN FoldLeft(enter,
              [rows |-> rows, idx |-> [i \in DOMAIN adj |-> Len(adj[i]) + 1]],
              arcs).rows

\* Bliss.computeCanon: idx stays 0 while the edges are written, so that each
\* edge overwrites the one before it and the rest of the array stays 0.
BlissEdges(g) ==
  [k \in 1 .. 2 * Len(g.edges) |->
    CASE k = 1 -> Last(g.edges).src
      [] k = 2 -> Last(g.edges).tgt
      [] OTHER -> 0]

\* Plain vertices get colour 0, proxies the number of their content in the
\* order in which the contents are first seen.
BlissColors(g) ==
  LET seen(i) == {g.data[j] : j \in 0 .. i} \ {Plain}
      first(d) == CHOOSE j \in Nodes(g) : g.data[j] = d /\ d \notin seen(j - 1)
  IN [i \in Nodes(g) |->
       IF g.data[i] = Plain THEN 0
       ELSE Cardinality(seen(first(g.data[i])))]

-----------------------------------------------------------------------------
(***************************************************************************)
(* Native side of the bindings.                                            *)
(***************************************************************************)

\* parseColoring, and the cells nauty and Traces read from its two arrays: a
\* cell ends where ptn is 0.
ParseColoring(colors) ==
  [labels |-> [i \in DOMAIN colors |-> IF colors[i] < 0 THEN - colors[i] - 1
                                       ELSE colors[i] - 1],
   ptn |-> [i \in DOMAIN colors |-> IF colors[i] < 0 THEN 0 ELSE 1]]

Cuts(s, IsFirst(_)) ==
  LET firsts == SetToSortSeq({i \in DOMAIN s : IsFirst(i)}, <)
      last(k) == IF k = Len(firsts) THEN Len(s) ELSE firsts[k + 1] - 1
  IN [k \in DOMAIN firsts |-> {s[i] : i \in firsts[k] .. last(k)}]

NautyCells(p) ==
  Cuts(p.labels, LAMBDA i : i = 1 \/ p.ptn[i - 1] = 0)

\* The elements and new indices of the partition nest of the Nishe binding.
NisheCells(colors) ==
  Cuts(ParseColoring(colors).labels,
       LAMBDA i : i = 1 \/ colors[i] < 0)

\* The cells of equal colour, in the order of the colours.
BlissCells(colors) ==
  LET used == SetToSortSeq(Range(colors), <)
  IN [k \in DOMAIN used |-> {i \in DOMAIN colors : colors[i] = used[k]}]

\* constructSparseGraph: row i of the matrix is e[v[i]] .. e[v[i] + d[i] - 1].
ConstructSparseGraph(adj) ==
  LET n == Cardinality(DOMAIN adj)
      row(i) == adj[i - 1]
  IN [nv |-> n,
      v |-> [i \in 1 .. n |-> SumFunction([j \in 1 .. i - 1 |-> Len(row(j))])],
      d |-> [i \in 1 .. n |-> Len(row(i))],
      e |-> FlattenSeq([i \in 1 .. n |-> row(i)])]

\* The arcs nauty and Traces read from a sparse graph, each entry of e one.
SparseArcs(sg) ==
  LET arcs == FlattenSeq([i \in 1 .. sg.nv |->
                [k \in 1 .. sg.d[i] |->
                  <<i - 1, IF sg.v[i] + k \in DOMAIN sg.e
                           THEN sg.e[sg.v[i] + k] ELSE -1>>]])
  IN [a \in ToSet(arcs) |-> Cardinality({k \in DOMAIN arcs : arcs[k] = a})]

\* The arcs of the adjacency matrix of dense nauty and of Nishe's neighbour
\* sets, both without multiplicities.
AdjArcs(adj) ==
  SetToBag(UNION {{<<i, adj[i][k]>> : k \in DOMAIN adj[i]} : i \in DOMAIN adj})

\* The arcs of Bliss' Digraph, which drops duplicates before it starts.
ArrayArcs(edges) ==
  SetToBag({<<edges[2 * k - 1], edges[2 * k]>> : k \in 1 .. Len(edges) \div 2})

-----------------------------------------------------------------------------
(***************************************************************************)
(* The bindings: one native call on the input.                             *)
(***************************************************************************)
NoCall == [binding |-> "none", n |-> 0, arcs |-> EmptyBag, cells |-> << >>]

Init == input \in Inputs /\ call = NoCall

Called(name) == call.binding = name
Give(name, n, arcs, cells) ==
  /\ Called("none")
  /\ call' = [binding |-> name, n |-> n, arcs |-> arcs, cells |-> cells]
  /\ UNCHANGED input

Size(cg) == Cardinality(DOMAIN cg.adj)

NautyDense ==
  \E cg \in ToColoredGraphs(EdgeLabelsToNodes(input)) :
    Give("nauty dense", Size(cg), AdjArcs(cg.adj),
         NautyCells(ParseColoring(PrepareColors(cg.colorMap))))

NautySparse ==
  \E cg \in ToColoredGraphs(EdgeLabelsToNodes(input)) :
    Give("nauty sparse", Size(cg), SparseArcs(ConstructSparseGraph(cg.adj)),
         NautyCells(ParseColoring(PrepareColors(cg.colorMap))))

Traces ==
  \E cg \in ToColoredGraphs(EdgeLabelsToNodes(ToUndirectedGraph(input))) :
    Give("traces", Size(cg),
         SparseArcs(ConstructSparseGraph(AddReversed(cg.adj))),
         NautyCells(ParseColoring(PrepareColors(cg.colorMap))))

Nishe ==
  \E cg \in ToColoredGraphs(EdgeLabelsToNodes(input)) :
    Give("nishe", Size(cg), AdjArcs(cg.adj),
         NisheCells(NisheColors(cg.colorMap)))

Bliss ==
  LET g == EdgeLabelsToNodes(input)
  IN Give("bliss", g.n, ArrayArcs(BlissEdges(g)), BlissCells(BlissColors(g)))

Done == ~ Called("none") /\ UNCHANGED vars

Next == NautyDense \/ NautySparse \/ Traces \/ Nishe \/ Bliss \/ Done

Spec == Init /\ [][Next]_vars

-----------------------------------------------------------------------------
(***************************************************************************)
(* Reference definitions.                                                  *)
(***************************************************************************)

\* The labels of the edges from u to v; an undirected reading takes them in
\* both directions.
LabelsOf(g, u, v) ==
  {g.edges[k].label : k \in {j \in DOMAIN g.edges :
                               g.edges[j].src = u /\ g.edges[j].tgt = v}}
Undirected(g) ==
  [g EXCEPT !.edges = @ \o [k \in DOMAIN @ |-> Edge(@[k].tgt, @[k].src, @[k].label)]]

\* The isomorphisms from g to h restricted to the first k nodes of g, as
\* sequences: injective, and equal on data and on edge labels.
Isomorphisms(g, h) ==
  LET fits(f, v) ==
        LET u == Len(f)
        IN /\ v \notin ToSet(f) /\ g.data[u] = h.data[v]
           /\ LabelsOf(g, u, u) = LabelsOf(h, v, v)
           /\ \A w \in 0 .. u - 1 :
                /\ LabelsOf(g, u, w) = LabelsOf(h, v, f[w + 1])
                /\ LabelsOf(g, w, u) = LabelsOf(h, f[w + 1], v)
      partial[k \in 0 .. g.n] ==
        IF k = 0 THEN {<< >>}
        ELSE {Append(p[1], p[2]) :
               p \in {q \in partial[k - 1] \X Nodes(h) : fits(q[1], q[2])}}
  IN IF g.n = h.n THEN partial[g.n] ELSE {}

Isomorphic(g, h) == Isomorphisms(g, h) # {}

\* The cells are the groups of equal data, as sets, in some order.
RightCells(g, cells) ==
  /\ ToSet(cells) = {{i \in Nodes(g) : g.data[i] = g.data[j]} : j \in Nodes(g)}
  /\ IsInjective(cells)

ArcsOf(g) == SetToBag({<<g.edges[k].src, g.edges[k].tgt>> : k \in DOMAIN g.edges})

(***************************************************************************)
(* Properties.                                                             *)
(***************************************************************************)

\* Each native library starts from the nodes of the transformed graph, split
\* into cells by their label: the two conventions for the negated entries of
\* the colour array (Nauty.prepareColors and parseColoring against
\* Nishe.computeCanon and its JNI function) are each consistent.
SameColoring ==
  ~ Called("none") =>
    LET g == EdgeLabelsToNodes(IF Called("traces") THEN ToUndirectedGraph(input)
                               ELSE input)
    IN call.n = g.n /\ RightCells(g, call.cells)

\* Dense nauty, sparse nauty and Nishe are measured on the same graph.  Traces
\* needs an undirected graph without loops and multiple edges: it gets each
\* edge of the undirected transform once in each direction.
SameGraph ==
  /\ call.binding \in {"nauty dense", "nauty sparse", "nishe"} =>
       call.arcs = ArcsOf(EdgeLabelsToNodes(input))
  /\ Called("traces") =>
       /\ \A a \in DOMAIN call.arcs : call.arcs[a] = 1 /\ a[1] # a[2]
       /\ call.arcs =
            ArcsOf(Undirected(EdgeLabelsToNodes(ToUndirectedGraph(input))))

\* Two query graphs are isomorphic exactly if their transforms are: as
\* coloured digraphs, as undirected edge-labelled graphs (Scott) and as
\* undirected coloured graphs (Traces).  Directions and labels survive.
TransformsReflect ==
  Called("none") =>
  \A other \in {h \in Inputs : h.n = input.n
                              /\ Len(h.edges) = Len(input.edges)} :
    LET same == Isomorphic(input, other)
        u == ToUndirectedGraph(input)  v == ToUndirectedGraph(other)
    IN /\ same <=> Isomorphic(EdgeLabelsToNodes(input), EdgeLabelsToNodes(other))
       /\ same <=> Isomorphic(Undirected(u), Undirected(v))
       /\ same <=> Isomorphic(Undirected(EdgeLabelsToNodes(u)),
                              Undirected(EdgeLabelsToNodes(v)))

(***************************************************************************)
(* What the documentation says, and the code does not do.                  *)
(***************************************************************************)

\* "The input graph as a list of edges with two consecutive indices
\* representing the ID of the source and target vertex of an edge" (Bliss.java:92).
BlissGetsEdges == Called("bliss") => call.arcs = ArcsOf(EdgeLabelsToNodes(input))
=============================================================================
