----------------------------- MODULE NautyRefine ----------------------------
(***************************************************************************)
(* The partition refinement of nauty, for dense graphs (naugraph.c) and    *)
(* sparse ones (nausparse.c), with the vertex invariant that the options   *)
(* for digraphs select (nautinv.c) and the helpers of nautil.c that split  *)
(* a partition.                                                            *)
(*                                                                         *)
(* A graph maps every vertex to the set of its out-neighbours.  The        *)
(* partition at one level of the nest (lab, ptn) is a function p: p[v] is  *)
(* the index in lab at which the cell of v starts.  The order of lab       *)
(* inside a cell is left out: with the options for digraphs nothing reads  *)
(* it but the leaves, whose cells have one vertex.                         *)
(*                                                                         *)
(* The code that a refinement returns is a hash of what it did.  "bits" is *)
(* its width: 15 in the code; with fewer the low bits of the same hash     *)
(* remain, and different refinements have equal codes more often.          *)
(***************************************************************************)
EXTENDS OrderedPartitions, Sums

Vertices(g) == DOMAIN g

-----------------------------------------------------------------------------
(* The hash *)

Bit(x, i) == (x \div 2 ^ i) % 2

Xor(x, y) == SumOf([i \in 1 .. 15 |-> 2 ^ (i - 1) * ((Bit(x, i - 1) + Bit(y, i - 1)) % 2)])

\* Tables, for TLC computes them once.
Xored == [l \in 0 .. 2 ^ 15 - 1 |-> Xor(l, 27421)]

MASH(bits, l, i) == (Xored[l] + i) % 2 ^ bits

MashAll(bits, l, s) ==
    LET f[i \in 0 .. Len(s)] == IF i = 0 THEN l ELSE MASH(bits, f[i - 1], s[i]) IN f[Len(s)]

CLEANUP(bits, l) == l % (2 ^ bits - 1)

FUZZ1 == [x \in 0 .. 2 ^ 15 - 1 |-> Xor(x, <<16225, 25434, 2735, 11534>>[(x % 4) + 1])]

FUZZ2 == [x \in 0 .. 2 ^ 15 - 1 |-> Xor(x, <<3418, 28830, 15187, 25887>>[(x % 4) + 1])]

-----------------------------------------------------------------------------
(* Refinement of dense graphs.  r: the partition, the active cells, where   *)
(* to look first for the next of them, and the code so far.  One cell       *)
(* splits all others by the arcs that they have with it; no other cell      *)
(* matters for how one is split, but for what becomes active and the code   *)
(* the cells are taken in their order.                                      *)

\* A cell next to a trivial splitting cell: those hit by its vertex come first.
SplitByRow(bits, r, s, row) ==
    LET C == CellAt(r.p, s)
        hits == C \cap row
        misses == C \ row
        c1 == s + Cardinality(hits)
        second == s \in r.active \/ Cardinality(hits) >= Cardinality(misses)
        new == IF second THEN c1 ELSE s
    IN  IF hits = {} \/ misses = {} THEN r
        ELSE [r EXCEPT
                !.active = @ \cup {new},
                !.hint = IF Cardinality(IF second THEN misses ELSE hits) = 1 THEN new ELSE @,
                !.code = MASH(bits, @, c1 - 1)]

\* A cell and a nontrivial splitting cell W: by the arcs that each vertex has to W.
SplitByCount(bits, r, s, cnt) ==
    With(Regroup(r.p, {s}, cnt), LAMBDA p :
    With({p[v] : v \in CellAt(r.p, s)}, LAMBDA parts :
    LET Size(c) == Cardinality(CellAt(p, c))
        Count(c) == CHOOSE i \in {cnt[v] : v \in CellAt(p, c)} : TRUE
        maxpos == Min({c \in parts : \A d \in parts : Size(d) <= Size(c)})
        single == {c \in parts \ {s} : Size(c) = 1}
    IN  IF parts = {s} THEN [r EXCEPT !.code = MASH(bits, @, Count(s) + s)]
        ELSE [r EXCEPT
                !.active = IF s \in @ THEN @ \cup parts ELSE (@ \cup parts) \ {maxpos},
                !.hint = IF single = {} THEN @ ELSE Max(single),
                !.code = InOrder(parts, LAMBDA l, c : MASH(bits, l, Count(c) + c), @)]))

NextActive(r) ==
    LET after == {a \in r.active : a > r.hint}
    IN  IF r.hint \in r.active THEN r.hint
        ELSE IF after # {} THEN Min(after) ELSE Min(r.active)

RefineBy(bits, g, r, split1, W) ==
    LET size == Cardinality(W)
        row == g[CHOOSE v \in W : TRUE]
        missed == [v \in DOMAIN g |-> IF v \in row THEN 0 ELSE 1]
        cnt == [v \in DOMAIN g |-> Cardinality(g[v] \cap W)]
        q == [r EXCEPT !.active = @ \ {split1},
                       !.code = MASH(bits, @, split1 + split1 + size - 1)]
        cells == Nontrivial(r.p)
        end == IF size = 1 THEN InOrder(cells, LAMBDA t, s : SplitByRow(bits, t, s, row), q)
               ELSE InOrder(cells, LAMBDA t, s : SplitByCount(bits, t, s, cnt),
                            [q EXCEPT !.code = MASH(bits, @, size)])
    IN  [p |-> Regroup(r.p, cells, IF size = 1 THEN missed ELSE cnt),
         active |-> end.active, hint |-> end.hint, code |-> end.code]

RefineStep(bits, g, r) ==
    With(NextActive(r), LAMBDA split1 :
    With(CellAt(r.p, split1), LAMBDA W : RefineBy(bits, g, r, split1, W)))

\* A step takes an active cell, and makes one active for each new cell: with as many steps
\* as there are vertices no cell stays active.
refine(bits, g, p, active) ==
    LET start == [p |-> p, active |-> active, hint |-> 0, code |-> NumCells(p)]
        Run[k \in 0 .. Cardinality(Vertices(g))] ==
            IF k = 0 THEN start
            ELSE With(Run[k - 1], LAMBDA r : IF Discrete(r.p) \/ r.active = {} THEN r
                                             ELSE RefineStep(bits, g, r))
    IN  With(Run[Cardinality(Vertices(g))], LAMBDA end :
             [p |-> end.p, code |-> CLEANUP(bits, MASH(bits, end.code, NumCells(end.p)))])

-----------------------------------------------------------------------------
(* Refinement of sparse graphs.  The active cells wait in a queue.  Again   *)
(* the cells are split together, and what is queued of them and the code    *)
(* follow their order.                                                      *)

QueueHas(r, s) == \E i \in DOMAIN r.queue : r.queue[i] = s

\* What is queued of a cell when it is split: its parts but for a largest one, or all but
\* the first if the cell was waiting already.  Of two parts of a cell the second is the
\* large one when they are as large.
Enqueue(starts, sizes, waiting) ==
    LET k == Len(starts)
        largest == IF k = 2 THEN (IF sizes[1] <= sizes[2] THEN 2 ELSE 1)
                   ELSE Min({i \in 1 .. k : \A j \in 1 .. k : sizes[j] <= sizes[i]})
    IN  [i \in 1 .. k - 1 |->
            IF i + 1 = largest /\ ~waiting THEN starts[1] ELSE starts[i + 1]]

\* A cell hit by the vertex of a trivial splitting cell: those hit come last.
SplitByHit(bits, r, s, row) ==
    With(CellAt(r.p, s) \cap row, LAMBDA hits :
    With(CellAt(r.p, s) \ row, LAMBDA misses :
    LET v2 == s + Cardinality(misses)
        sizes == <<Cardinality(misses), Cardinality(hits)>>
        code == MashAll(bits, r.code, <<s, Cardinality(hits)>>)
    IN  IF misses = {} THEN [r EXCEPT !.code = code]
        ELSE [r EXCEPT !.queue = @ \o Enqueue(<<s, v2>>, sizes, QueueHas(r, s)),
                       !.code = MASH(bits, code, v2)]))

\* A cell split by a value of its vertices: their hits by the vertices of the splitting
\* cell, or their distance from its vertex.
SplitByValue(bits, r, s, val, distances) ==
    With(Regroup(r.p, {s}, val), LAMBDA p :
    With(Ascending({p[v] : v \in CellAt(r.p, s)}), LAMBDA starts :
    LET k == Len(starts)
        sizes == [i \in 1 .. k |-> Cardinality(CellAt(p, starts[i]))]
        Value(i) == CHOOSE x \in {val[v] : v \in CellAt(p, starts[i])} : TRUE
        new == Enqueue(starts, sizes, QueueHas(r, s))
        \* where s has taken the place of a larger part
        bigpos == {Len(r.queue) + i - 1 : i \in {j \in 1 .. k - 1 : new[j] = s}}
        ofHits == <<Value(1), starts[2]>> \o
                  IF k = 2 THEN <<>>
                  ELSE <<starts[3]>>
                       \o (IF sizes[1] < sizes[2] THEN <<sizes[2]>> ELSE <<>>)
                       \o [i \in 1 .. k - 2 |-> Value(i + 2)]
        ofDistances == <<Value(2), starts[2]>> \o
                       IF k = 2 THEN <<>>
                       ELSE [i \in 1 .. k - 2 |-> starts[i + 2] - 1]
                            \o (IF bigpos = {} THEN <<>> ELSE <<Max(bigpos)>>)
    IN  IF k = 1 THEN [r EXCEPT !.code = MASH(bits, @, s)]
        ELSE [r EXCEPT !.queue = @ \o new,
                       !.code = MashAll(bits, @,
                                        <<s>> \o IF distances THEN ofDistances ELSE ofHits)]))

\* distvals: the length of a shortest path from v, or the number of vertices.
distvals(g, v) ==
    LET n == Cardinality(Vertices(g))
        Within[k \in 0 .. n - 1] ==
            IF k = 0 THEN [u \in Vertices(g) |-> IF u = v THEN 0 ELSE n]
            ELSE With(Within[k - 1], LAMBDA d :
                 [u \in Vertices(g) |->
                     IF d[u] = n /\ \E w \in Vertices(g) : d[w] = k - 1 /\ u \in g[w]
                     THEN k ELSE d[u]])
    IN  Within[n - 1]

\* A trivial cell among the first ten, whose place the last takes, or the last.
TakeActive(r) ==
    LET n == Len(r.queue)
        trivial == {i \in 1 .. Min({n, 10}) : r.queue[i] \notin Nontrivial(r.p)}
        i == IF trivial = {} THEN n ELSE Min(trivial)
    IN  [isplit |-> r.queue[i], queue |-> SubSeq([r.queue EXCEPT ![i] = r.queue[n]], 1, n - 1)]

RefineBy_sg(bits, g, r, taken, W) ==
    LET hits == [v \in DOMAIN g |-> Cardinality({u \in W : v \in g[u]})]
        row == g[CHOOSE w \in W : TRUE]
        isHit == [v \in DOMAIN g |-> IF v \in row THEN 1 ELSE 0]
        hit == {s \in Nontrivial(r.p) : \E v \in CellAt(r.p, s) : hits[v] > 0}
        q == [r EXCEPT !.queue = taken.queue,
                       !.code = MashAll(bits, @, <<taken.isplit, Cardinality(hit)>>)]
        end == IF Cardinality(W) = 1
               THEN InOrder(hit, LAMBDA t, s : SplitByHit(bits, t, s, row), q)
               ELSE InOrder(hit, LAMBDA t, s : SplitByValue(bits, t, s, hits, FALSE), q)
    IN  [p |-> Regroup(r.p, hit, IF Cardinality(W) = 1 THEN isHit ELSE hits),
         queue |-> end.queue, code |-> end.code]

RefineStep_sg(bits, g, r) ==
    With(TakeActive(r), LAMBDA taken :
    With(CellAt(r.p, taken.isplit), LAMBDA W : RefineBy_sg(bits, g, r, taken, W)))

SplitByDistance(bits, r, dist) ==
    LET cells == Nontrivial(r.p)
        end == InOrder(cells, LAMBDA t, s : SplitByValue(bits, t, s, dist, TRUE),
                       [r EXCEPT !.queue = <<>>])
    IN  [p |-> Regroup(r.p, cells, dist), queue |-> end.queue, code |-> end.code]

\* Few cells and one vertex to split them with, near the root: by distance from it.
FirstByDistance(bits, g, level, r) ==
    LET isplit == r.queue[1]
        v == CHOOSE w \in CellAt(r.p, isplit) : TRUE
    IN  IF /\ level <= 2 /\ Len(r.queue) = 1 /\ isplit \notin Nontrivial(r.p)
           /\ NumCells(r.p) <= Cardinality(Vertices(g)) \div 8
        THEN With(distvals(g, v), LAMBDA dist : SplitByDistance(bits, r, dist))
        ELSE r

refine_sg(bits, g, p, level, active) ==
    LET start == [p |-> p, queue |-> Ascending(active), code |-> NumCells(p)]
        Run[k \in 0 .. Cardinality(Vertices(g))] ==
            IF k = 0 THEN FirstByDistance(bits, g, level, start)
            ELSE With(Run[k - 1], LAMBDA r : IF Discrete(r.p) \/ r.queue = <<>> THEN r
                                             ELSE RefineStep_sg(bits, g, r))
    IN  IF active = {} THEN [p |-> p, code |-> CLEANUP(bits, NumCells(p))]
        ELSE With(Run[Cardinality(Vertices(g))], LAMBDA end :
                  [p |-> end.p, code |-> CLEANUP(bits, MASH(bits, end.code, NumCells(end.p)))])

-----------------------------------------------------------------------------
(* nautil.c, nautinv.c *)

Refined(rep, bits, g, p, level, active) ==
    IF rep = "dense" THEN refine(bits, g, p, active) ELSE refine_sg(bits, g, p, level, active)

\* What is joined to v and from v, by the number of the cell; i - 1 is the other vertex.
\* Only 15 bits of the sum are kept.
adjacencies(bits, g, p) ==
    LET wt(v) == Cardinality({s \in Starts(p) : s <= p[v]}) % 2 ^ 15
        Joined(v, i) == (IF i - 1 \in g[v] THEN FUZZ2[wt(i - 1)] ELSE 0)
                            + (IF v \in g[i - 1] THEN FUZZ1[wt(i - 1)] ELSE 0)
    IN  [v \in DOMAIN p |->
            SumOf([i \in 1 .. Cardinality(DOMAIN p) |-> Joined(v, i)]) % 2 ^ bits]

MaxInvarLevel == 999

doref(rep, bits, g, p, level, active) ==
    With(Refined(rep, bits, g, p, level, active), LAMBDA once :
    With(Regroup(once.p, Starts(once.p), adjacencies(bits, g, once.p)), LAMBDA split :
    IF Discrete(once.p) \/ level > MaxInvarLevel \/ split = once.p THEN once
    ELSE With(Refined(rep, bits, g, split, level, Starts(split) \ Starts(once.p)), LAMBDA twice :
              [p |-> twice.p, code |-> CLEANUP(bits, MASH(bits, once.code, twice.code))])))

\* The hint if a nontrivial cell starts there, or else the first such cell; tc_level is
\* 0 for digraphs.
targetcell(p, hint) ==
    IF hint \in Nontrivial(p) THEN hint
    ELSE IF Discrete(p) THEN 0 ELSE Min(Nontrivial(p))

breakout(p, tc, tv) ==
    [v \in DOMAIN p |-> IF p[v] = tc /\ v # tv THEN tc + 1 ELSE p[v]]
=============================================================================
