----------------------------- MODULE BlissRefine ----------------------------
(***************************************************************************)
(* Refinement in Bliss: the splitting of cells (partition.cc), the         *)
(* refinement of digraphs with the certificate that it builds and compares *)
(* on the way (digraph.cc, abstractgraph.cc), and the components of a      *)
(* partition.                                                              *)
(*                                                                         *)
(* A graph maps every vertex to the set of its out-neighbours; a partition *)
(* is a function p from vertices to positions.  The order of the vertices  *)
(* inside a cell is left out: the code swaps them freely, and reads them   *)
(* only in cells of one vertex or to take any vertex of a cell.            *)
(*                                                                         *)
(* c, the context of a refinement, does not change during it:              *)
(*   g                the graph                                            *)
(*   in_search        FALSE for the initial partition                      *)
(*   compare          refine_compare_certificate                           *)
(*   first, best      the certificates of the first and the best path      *)
(*   firstEnd,bestEnd where their part for this level ends                 *)
(*   firstInv,bestInv their labellings, from positions to vertices         *)
(* r, its state:                                                           *)
(*   p, queue         the partition, the splitting queue (starts of cells) *)
(*   cert             the certificate of the current path, in triples      *)
(*   eq, cmp          refine_equal_to_first, refine_cmp_to_best            *)
(*   dev              failure_recording_fp_deviation                       *)
(*   firstAut,bestAut the automorphisms built on the fly                   *)
(*   rest             what a refinement leaves undone, for the deviation   *)
(*                                                                         *)
(* The hash of a sequence is the sequence itself: no two of them collide.  *)
(***************************************************************************)
EXTENDS OrderedPartitions

CERT_SPLIT == 0
CERT_EDGE == 1

In(g, v) == {u \in DOMAIN g : v \in g[u]}

Positions(p) == 0 .. Cardinality(DOMAIN p) - 1

Size(p, s) == Cardinality(CellAt(p, s))

Unit(p, s) == Size(p, s) = 1

AnyOf(S) == CHOOSE x \in S : TRUE

-----------------------------------------------------------------------------
(* partition.cc *)

\* Cells of one vertex go to the front.
splitting_queue_add(q, p, s) == IF Unit(p, s) THEN <<s>> \o q ELSE Append(q, s)

InQueue(q, s) == \E i \in DOMAIN q : q[i] = s

\* The parts of a cell that was waiting already all have to wait.  Each is queued when the
\* cell is cut in front of it, with all that is left behind the cut.
QueueAll(q, p, starts) ==
    With(starts[Len(starts)], LAMBDA last :
         IF Unit(p, last)
         THEN <<last>> \o q \o SubSeq(starts, 2, Len(starts) - 1)
         ELSE q \o SubSeq(starts, 2, Len(starts)))

\* Otherwise one of the largest can do without, unless it has one vertex: then it is
\* needed for the certificate.  Among two equal parts of a cell split by a value of 0 or 1
\* this is the second, else the first.
QueueAllButLargest(q, p, starts, binary) ==
    LET Larger(s, t) == IF binary THEN Size(p, s) >= Size(p, t) ELSE Size(p, s) > Size(p, t)
        Consider(a, i) ==
            IF Larger(starts[i], a.largest)
            THEN [q |-> splitting_queue_add(a.q, p, a.largest), largest |-> starts[i]]
            ELSE [a EXCEPT !.q = splitting_queue_add(@, p, starts[i])]
    IN  With(InOrder(2 .. Len(starts), Consider, [q |-> q, largest |-> starts[1]]), LAMBDA a :
             IF Unit(p, a.largest) THEN splitting_queue_add(a.q, p, a.largest) ELSE a.q)

\* zplit_cell: the cell at s is split by val, smaller values first.
zplit_cell(r, s, val) ==
    LET values == {val[v] : v \in CellAt(r.p, s)}
    IN  IF Cardinality(values) = 1 THEN r
        ELSE With(Regroup(r.p, {s}, val), LAMBDA p :
             With(Ascending({p[v] : v \in CellAt(r.p, s)}), LAMBDA starts :
                  [r EXCEPT !.p = p,
                            !.queue = IF InQueue(@, s) THEN QueueAll(@, p, starts)
                                      ELSE QueueAllButLargest(@, p, starts,
                                                              Max(values) = 1)]))

individualize(p, s, element) == [p EXCEPT ![element] = s + Size(p, s) - 1]

-----------------------------------------------------------------------------
(* The certificate *)

Worse(c, r) == c.compare /\ ~r.eq /\ r.cmp < 0

CompareTriples(s, t) ==
    LET differ == {i \in 1 .. 3 : s[i] # t[i]}
    IN  IF differ = {} THEN 0 ELSE IF s[Min(differ)] > t[Min(differ)] THEN 1 ELSE -1

CmpToBest(c, r, t) ==
    IF r.cmp # 0 THEN r.cmp
    ELSE IF Len(r.cert) >= c.bestEnd THEN 1 ELSE CompareTriples(t, c.best[Len(r.cert) + 1])

EqualToFirst(c, r, t) == r.eq /\ Len(r.cert) < c.firstEnd /\ c.first[Len(r.cert) + 1] = t

\* Where the triple differs from that of the first path.
DeviationIndex(c, r, t) ==
    3 * Len(r.cert) + IF Len(r.cert) >= c.firstEnd THEN 0
                      ELSE Min({i \in 1 .. 3 : t[i] # c.first[Len(r.cert) + 1][i]}) - 1

cert_add(c, r, t) ==
    IF ~c.compare THEN [r EXCEPT !.cert = Append(@, t)]
    ELSE With([r EXCEPT !.eq = EqualToFirst(c, r, t), !.cmp = CmpToBest(c, r, t),
                        !.dev = IF r.eq /\ ~EqualToFirst(c, r, t)
                                THEN t \o <<DeviationIndex(c, r, t)>> ELSE @],
              LAMBDA a : IF Worse(c, a) THEN a ELSE [a EXCEPT !.cert = Append(@, t)])

\* The triples for some positions, in their order, until the path is known to be useless.
CertAddAll(c, r, triples) ==
    IF ~c.in_search THEN r
    ELSE InOrder(DOMAIN triples,
                 LAMBDA a, i : IF Worse(c, a) THEN a ELSE cert_add(c, a, triples[i]), r)

-----------------------------------------------------------------------------
(* digraph.cc *)

\* The cells at starts are split by val.  Those left when the path turns out to be useless
\* are noted, with the largest value and how many vertices have it.
SplitByCount(c, r, starts, val) ==
    LET Note(a, s) ==
            With(Max({val[v] : v \in CellAt(a.p, s)}), LAMBDA top :
                 <<s, Size(a.p, s), top, Cardinality({v \in CellAt(a.p, s) : val[v] = top})>>)
        Split(a, s) ==
            IF Worse(c, a) THEN [a EXCEPT !.rest = @ \o Note(a, s)]
            ELSE With(zplit_cell(a, s, val), LAMBDA b :
                 CertAddAll(c, b, [t \in {b.p[v] : v \in CellAt(a.p, s)} |->
                                      <<CERT_SPLIT, t, Size(b.p, t)>>]))
    IN  InOrder(starts, Split, r)

\* What deviates is the rest of the work, too.
WorseExit(c, was_equal_to_first, r, queue) ==
    IF Worse(c, r) /\ was_equal_to_first
    THEN [r EXCEPT !.rest = <<>>, !.dev = r.rest \o queue \o <<-1>> \o r.dev]
    ELSE [r EXCEPT !.rest = <<>>]

QueueNote(r) ==
    InOrder(DOMAIN r.queue, LAMBDA q, i : q \o <<r.queue[i], Size(r.p, r.queue[i])>>, <<>>)

Touched(p, val) == {s \in Nontrivial(p) : \E v \in CellAt(p, s) : val[v] > 0}

\* By the arcs from the cell; then, unless it is to be done again, by the arcs to it.
split_neighbourhood_of_cell(c, r, s) ==
    LET ByOut(a) ==
            With([v \in DOMAIN c.g |-> Cardinality(In(c.g, v) \cap CellAt(a.p, s))], LAMBDA val :
                 SplitByCount(c, a, Touched(a.p, val), val))
        ByIn(a) ==
            With([v \in DOMAIN c.g |-> Cardinality(c.g[v] \cap CellAt(a.p, s))], LAMBDA val :
                 SplitByCount(c, a, Touched(a.p, val), val))
    IN  With(ByOut(r), LAMBDA a :
             IF Worse(c, a) THEN WorseExit(c, r.eq, a, QueueNote(a))
             ELSE IF InQueue(a.queue, s) THEN a
             ELSE With(ByIn(a), LAMBDA b : WorseExit(c, r.eq, b, QueueNote(b))))

\* The cells with vertices in N: the others come first, and the edges to those in N enter
\* the certificate; edge gives the triple of the edge to each position.
SplitByHit(c, r, N, edge) ==
    LET starts == {s \in Starts(r.p) :
                      CellAt(r.p, s) \cap N # {} /\ (c.in_search \/ ~Unit(r.p, s))}
        hit == [v \in DOMAIN r.p |-> IF v \in N THEN 1 ELSE 0]
        Split(a, s) ==
            LET size == Size(a.p, s)
                count == Cardinality(CellAt(a.p, s) \cap N)
            IN  IF Worse(c, a)
                THEN [a EXCEPT !.rest = @ \o <<s, size, IF size = 1 THEN 0 ELSE count>>]
                ELSE CertAddAll(c, zplit_cell(a, s, hit),
                                [i \in s + size - count .. s + size - 1 |-> edge[i]])
    IN  InOrder(starts, Split, r)

split_neighbourhood_of_unit_cell(c, r, s) ==
    With(AnyOf(CellAt(r.p, s)), LAMBDA v :
    With(SplitByHit(c, r, c.g[v], [i \in Positions(r.p) |-> <<CERT_EDGE, s, i>>]), LAMBDA a :
         IF Worse(c, a) THEN WorseExit(c, r.eq, a, <<>>)
         ELSE With(SplitByHit(c, a, In(c.g, v), [i \in Positions(r.p) |-> <<CERT_EDGE, i, s>>]),
                   LAMBDA b : WorseExit(c, r.eq, b, <<>>))))

\* A cell of one vertex tells where an automorphism takes the vertex that the first and
\* the best path have there.
MapUnit(c, r, s) ==
    IF c.compare
    THEN With(AnyOf(CellAt(r.p, s)), LAMBDA v :
              [r EXCEPT !.firstAut[c.firstInv[s]] = v, !.bestAut[c.bestInv[s]] = v])
    ELSE r

RECURSIVE do_refine_to_equitable(_, _)

do_refine_to_equitable(c, r) ==
    IF r.queue = <<>> THEN r
    ELSE IF Worse(c, r) THEN [r EXCEPT !.queue = <<>>]
    ELSE With(Head(r.queue), LAMBDA s :
         With([r EXCEPT !.queue = Tail(@)], LAMBDA a :
         With(IF Unit(a.p, s) THEN split_neighbourhood_of_unit_cell(c, MapUnit(c, a, s), s)
              ELSE split_neighbourhood_of_cell(c, a, s),
              LAMBDA b : do_refine_to_equitable(c, b))))

\* What the initial partition is refined by, one after the other, before the arcs count.
make_initial_equitable_partition(g, colors) ==
    LET V == DOMAIN g
        By(p, val) == Regroup(p, Starts(p), val)
        p1 == By([v \in V |-> 0], colors)
        p2 == By(p1, [v \in V |-> IF v \in g[v] THEN 1 ELSE 0])
        p3 == By(p2, [v \in V |-> Cardinality(g[v])])
        p4 == By(p3, [v \in V |-> Cardinality(In(g, v))])
        queue == InOrder(Starts(p4), LAMBDA q, s : splitting_queue_add(q, p4, s), <<>>)
    IN  do_refine_to_equitable(
            [g |-> g, in_search |-> FALSE, compare |-> FALSE],
            [p |-> p4, queue |-> queue, cert |-> <<>>, eq |-> TRUE, cmp |-> 0, dev |-> <<>>,
             rest |-> <<>>]).p

\* The cells joined to the cell at s by some arcs, but not by all there could be.
NuOut(g, p, s) ==
    With(g[AnyOf(CellAt(p, s))], LAMBDA N :
         {t \in Nontrivial(p) : CellAt(p, t) \cap N \notin {{}, CellAt(p, t)}})

NuIn(g, p, s) ==
    With(In(g, AnyOf(CellAt(p, s))), LAMBDA N :
         {t \in Nontrivial(p) : CellAt(p, t) \cap N \notin {{}, CellAt(p, t)}})

\* The cells of one or more vertices on a level; the level of a cell is that of its vertices.
CellsOn(p, lev, level) == {s \in Nontrivial(p) : \A v \in CellAt(p, s) : lev[v] = level}

\* nucr_find_first_component: what is joined to the first cell of the level, to what is
\* joined to it, and so on; {} if the level has no cell left to split.
Component(g, p, cells, all) ==
    LET Joined(S) == UNION {NuOut(g, p, s) \cup NuIn(g, p, s) : s \in S} \cap all
        Closure[k \in 0 .. Cardinality(all)] ==
            IF k = 0 THEN {Min(cells)} ELSE With(Closure[k - 1], LAMBDA S : S \cup Joined(S))
    IN  IF cells = {} THEN {} ELSE Closure[Cardinality(all)]

Elements(p, cells) == UNION {CellAt(p, s) : s \in cells}

\* sh_first_largest_max_neighbours, and the same choice in nucr_find_first_component.
SplitCell(g, p, cells) ==
    LET nuconn(s) == Cardinality(NuOut(g, p, s)) + Cardinality(NuIn(g, p, s))
        Before(s, t) ==
            \/ nuconn(s) > nuconn(t)
            \/ nuconn(s) = nuconn(t) /\ Size(p, s) > Size(p, t)
            \/ nuconn(s) = nuconn(t) /\ Size(p, s) = Size(p, t) /\ s <= t
    IN  CHOOSE s \in cells : \A t \in cells : Before(s, t)
=============================================================================
