------------------------------ MODULE Schreier ------------------------------
(***************************************************************************)
(* The permutation group of Traces (schreier.c): the automorphisms found   *)
(* so far, in a ring, and a chain of levels, each with the orbits of the   *)
(* points when the base points of the levels before it are fixed, and a    *)
(* Schreier vector for its own base point.  Random products of elements of *)
(* the ring are filtered through the levels until nothing has changed for  *)
(* some time.                                                              *)
(*                                                                         *)
(* Nodes of the ring are allocated, shared by the vectors under reference  *)
(* counts, and freed.  A freed node is allocated again.  The order of the  *)
(* ring is left out: a random walk of up to 16 steps goes round it.        *)
(***************************************************************************)
EXTENDS Loops, TLC

CONSTANTS
    N,              \* the number of points
    Pools,          \* sets of permutations that Traces finds to be automorphisms
    Bases,          \* the sequences of points that it fixes
    Cells,          \* the target cells that it asks about; {} for none
    schreierfails,  \* 10 in the code
    MaxCalls        \* bound on the calls before the structure is freed

VARIABLES
    pool,    \* the automorphisms of the graph at hand
    ring,    \* node -> permutation, mark and reference count
    levels,  \* the chain that starts at gp
    call,    \* what is being done, and the locals of its loop
    calls,   \* how many calls there were
    group,   \* history: what the automorphisms added so far generate
    answer   \* the last answer

vars == <<pool, ring, levels, call, calls, group, answer>>

Knowledge == INSTANCE GroupKnowledge

Points == 0 .. N - 1
Identity == [i \in Points |-> i]
Perms == {p \in [Points -> Points] : \A i, j \in Points : p[i] = p[j] => i = j}

ASSUME ConstantsAssumption ==
    /\ N \in Nat \ {0}
    /\ \A P \in Pools : P \subseteq Perms \ {Identity}
    /\ \A fix \in Bases :
           fix \in Seq(Points) /\ \A i, j \in DOMAIN fix : fix[i] = fix[j] => i = j
    /\ \A C \in Cells : C \subseteq Points
    /\ schreierfails \in Nat \ {0}

NULL == 0            \* no node
ID_PERMNODE == -1    \* the node of the identity, which is not in the ring

-----------------------------------------------------------------------------
(* Permutations *)

Then(p, q) == [i \in Points |-> q[p[i]]]

\* applyperm: p, k times, after wp.
applyperm(wp, p, k) ==
    LET Power[i \in 0 .. k] == IF i = 0 THEN wp ELSE Then(Power[i - 1], p)
    IN  Power[k]

\* The orbits with i and perm[i] together, each named by its least point.
JoinOrbits(orbits, perm) ==
    InOrder(Points,
            LAMBDA o, i : LET a == o[i]  b == o[perm[i]]
                          IN  [j \in Points |-> IF o[j] \in {a, b} THEN Min({a, b}) ELSE o[j]],
            orbits)

\* How often perm must be applied to j to come to a point that is in the vector.
Reach(vec, perm, j) == {k \in 1 .. N : vec[applyperm(Identity, perm, k)[j]] # NULL}

-----------------------------------------------------------------------------
(* Levels and nodes *)

initschreier(fixed) ==
    [fixed |-> fixed,
     vec |-> [i \in Points |-> IF i = fixed THEN ID_PERMNODE ELSE NULL],
     pwr |-> [i \in Points |-> 0],
     orbits |-> Identity]

\* addpermutation, addpermutationunmarked: to the first place that is free.
FreeNode(nodes) == Min(1 .. Cardinality(DOMAIN nodes) + 1 \ DOMAIN nodes)

addpermutation(nodes, p, mark) ==
    [x \in DOMAIN nodes \cup {FreeNode(nodes)} |->
        IF x \in DOMAIN nodes THEN nodes[x] ELSE [p |-> p, mark |-> mark, refcount |-> 0]]

\* Mutant: a node is freed with the first vector entry that is cleared.
ReleaseAtOnce(nodes, x) ==
    IF x \notin DOMAIN nodes \/ nodes[x].mark THEN nodes
    ELSE [y \in DOMAIN nodes \ {x} |-> nodes[y]]

\* clearvector: nodes are freed with the last reference to them, unless they are marked.
Release(nodes, x) ==
    IF x \in {NULL, ID_PERMNODE} THEN nodes
    ELSE IF nodes[x].refcount = 1 /\ ~nodes[x].mark
         THEN [y \in DOMAIN nodes \ {x} |-> nodes[y]]
         ELSE [nodes EXCEPT ![x].refcount = @ - 1]

clearvector(nodes, vec) ==
    LET Before[i \in 0 .. N] ==
            IF i = 0 THEN nodes ELSE With(Before[i - 1], LAMBDA a : Release(a, vec[i - 1]))
    IN  Before[N]

\* The vectors of the levels after level k are cleared.
ClearedFrom(nodes, chain, k) ==
    LET To[l \in k .. Len(chain)] ==
            IF l = k THEN nodes ELSE With(To[l - 1], LAMBDA a : clearvector(a, chain[l].vec))
    IN  To[Len(chain)]

\* Mutant: the levels that are there already are not made anew.
RebaseStale(s, k, fix) ==
    LET Fixed(l) == IF l <= Len(fix) THEN fix[l] ELSE -1
        Orbits(l) == IF l \in DOMAIN s.levels THEN s.levels[l].orbits ELSE Identity
    IN  [ring |-> ClearedFrom(s.ring, s.levels, k),
         levels |-> [l \in 1 .. Max({Len(s.levels), Len(fix) + 1}) |->
                        IF l <= k THEN s.levels[l]
                        ELSE [initschreier(Fixed(l)) EXCEPT !.orbits = Orbits(l)]]]

\* Level k + 1 gets a new base point.  The vectors from there on are cleared and the levels
\* for the rest of the base made or made anew; those behind, if any, stay as they are.
Rebase(s, k, fix) ==
    LET Fixed(l) == IF l <= Len(fix) THEN fix[l] ELSE -1
        Level(l) ==
            IF l = k + 1
            THEN [initschreier(fix[l]) EXCEPT !.orbits = s.levels[l].orbits]
            ELSE IF l <= Len(fix) + 1 THEN initschreier(Fixed(l))
            ELSE [s.levels[l] EXCEPT !.vec = [i \in Points |-> NULL],
                                     !.pwr = [i \in Points |-> 0]]
    IN  [ring |-> ClearedFrom(s.ring, s.levels, k),
         levels |-> [l \in 1 .. Max({Len(s.levels), Len(fix) + 1}) |->
                        IF l <= k THEN s.levels[l] ELSE Level(l)]]

-----------------------------------------------------------------------------
(* filterschreier: t has the ring and the levels, what is left of the      *)
(* permutation (w), the node that holds it (curr), whether it is known to  *)
(* be in the group, whether anything has changed, and whether to stop.     *)

\* The points on the cycles of w that come to a point of the vector.  They refer to the
\* node of w, which is added to the ring for the first of them.
ExtendVector(t, l) ==
    LET vec == t.levels[l].vec
        new == {j \in Points : vec[j] = NULL /\ Reach(vec, t.w, j) # {}}
        nodes == IF t.curr = NULL THEN addpermutation(t.ring, t.w, ~t.ingroup) ELSE t.ring
        x == IF t.curr = NULL THEN FreeNode(t.ring) ELSE t.curr
    IN  IF new = {} THEN t
        ELSE [t EXCEPT
                !.ring = [nodes EXCEPT ![x].refcount = @ + Cardinality(new)],
                !.levels[l].vec = [j \in Points |-> IF j \in new THEN x ELSE @[j]],
                !.levels[l].pwr = [j \in Points |-> IF j \in new THEN Min(Reach(vec, t.w, j))
                                                    ELSE @[j]],
                !.curr = x, !.ingroup = TRUE, !.changed = TRUE]

\* By way of the vector the base point is brought back to where it was.  Each round takes
\* it to a point that came into the vector earlier, so that N rounds are enough.
Nearer(nodes, level, w) ==
    LET j == w[level.fixed]
    IN  IF j = level.fixed THEN w
        ELSE applyperm(w, nodes[level.vec[j]].p, level.pwr[j])

Back(nodes, level, w) ==
    LET Round[k \in 0 .. N] ==
            IF k = 0 THEN w ELSE With(Round[k - 1], LAMBDA v : Nearer(nodes, level, v))
    IN  Round[N]

Sift(t, l) ==
    IF t.w[t.levels[l].fixed] = t.levels[l].fixed THEN t
    ELSE [t EXCEPT !.w = Back(t.ring, t.levels[l], t.w), !.curr = NULL]

Joined(t, l, o) ==
    [t EXCEPT !.levels[l].orbits = o, !.changed = @ \/ o # t.levels[l].orbits]

\* The last level has no base point.
ThroughVector(t, l) ==
    IF t.levels[l].fixed < 0 THEN [t EXCEPT !.stop = TRUE]
    ELSE With(ExtendVector(t, l), LAMBDA u : Sift(u, l))

FilterLevel(t, l) ==
    IF t.stop \/ t.w = Identity THEN [t EXCEPT !.stop = TRUE]
    ELSE With(Joined(t, l, JoinOrbits(t.levels[l].orbits, t.w)), LAMBDA u : ThroughVector(u, l))

\* p after all levels.
Filtered(nodes, chain, p, ingroup) ==
    LET After[l \in 0 .. Len(chain)] ==
            IF l = 0
            THEN [ring |-> nodes, levels |-> chain, w |-> p, curr |-> NULL,
                  ingroup |-> ingroup, changed |-> FALSE, stop |-> FALSE]
            ELSE With(After[l - 1], LAMBDA t : FilterLevel(t, l))
    IN  After[Len(chain)]

\* Mutant: a permutation that changes nothing is taken for one of the group.
filterschreierUnchanged(nodes, chain, p, ingroup) ==
    With(Filtered(nodes, chain, p, ingroup), LAMBDA t :
         IF t.w = Identity \/ t.ingroup \/ ~t.changed
         THEN [ring |-> t.ring, levels |-> t.levels, changed |-> t.changed]
         ELSE [ring |-> addpermutation(t.ring, p, TRUE), levels |-> t.levels, changed |-> TRUE])

\* Mutant: what does not come down to the identity counts as a change.
filterschreierRest(nodes, chain, p, ingroup) ==
    With(Filtered(nodes, chain, p, ingroup), LAMBDA t :
         IF t.w = Identity \/ t.ingroup
         THEN [ring |-> t.ring, levels |-> t.levels, changed |-> t.changed \/ t.w # Identity]
         ELSE [ring |-> addpermutation(t.ring, p, TRUE), levels |-> t.levels, changed |-> TRUE])

\* What does not come down to the identity is added as it was, unless it is known or a
\* part of it was added on the way.
Outcome(t, p) ==
    IF t.w = Identity \/ t.ingroup
    THEN [ring |-> t.ring, levels |-> t.levels, changed |-> t.changed]
    ELSE [ring |-> addpermutation(t.ring, p, TRUE), levels |-> t.levels, changed |-> TRUE]

filterschreier(nodes, chain, p, ingroup) ==
    With(Filtered(nodes, chain, p, ingroup), LAMBDA t : Outcome(t, p))

-----------------------------------------------------------------------------
Idle == [op |-> "none"]

newgroup == <<initschreier(-1)>>

Init ==
    /\ pool \in Pools
    /\ ring = <<>> /\ levels = newgroup
    /\ call = Idle /\ calls = 0
    /\ group = {Identity} /\ answer = <<>>

Begins == call = Idle /\ calls < MaxCalls /\ calls' = calls + 1

InRing == {ring[x].p : x \in DOMAIN ring}

\* addgenerator, called for an automorphism that findperm does not find in the ring.
addgenerator ==
    /\ Begins
    /\ \E p \in pool \ InRing :
           /\ \E t \in {filterschreier(ring, levels, p, FALSE)} :
                  ring' = t.ring /\ levels' = t.levels
           /\ group' = Knowledge!Generated(group \cup {p})
    /\ answer' = <<>>
    /\ UNCHANGED <<pool, call>>

\* How many points of fix are the base of the first levels.
Agreement(fix) ==
    Max({k \in 0 .. Len(fix) : \A i \in 1 .. k : levels[i].fixed = fix[i]})

Answers(fix, level, chain) ==
    answer' = <<[fix |-> fix, level |-> level, orbits |-> chain[level + 1].orbits]>>

\* A walk that starts at some node of the ring, unless there is none.
Expand(op, fix, cell) ==
    IF ring' = <<>>
    THEN call' = Idle /\ Answers(fix, Len(fix), levels')
    ELSE /\ \E x \in DOMAIN ring' :
               call' = [op |-> op, fix |-> fix, cell |-> cell, w |-> ring'[x].p, nfails |-> 0]
         /\ answer' = <<>>

\* getorbits for a base that is known, or the beginning of one.
GetKnownOrbits ==
    /\ Begins
    /\ \E fix \in Bases : Agreement(fix) = Len(fix) /\ Answers(fix, Len(fix), levels)
    /\ UNCHANGED <<pool, ring, levels, call, group>>

\* getorbits for another base.
GetOrbits ==
    /\ Begins
    /\ \E fix \in Bases :
           /\ Agreement(fix) < Len(fix)
           /\ \E s \in {Rebase([ring |-> ring, levels |-> levels], Agreement(fix), fix)} :
                  ring' = s.ring /\ levels' = s.levels
           /\ Expand("getorbits", fix, {})
    /\ UNCHANGED <<pool, group>>

OneOrbit(cell, orbits) == cell # {} /\ Cardinality({orbits[i] : i \in cell}) = 1

\* getorbitsmin, always called with changed = TRUE: the base is made anew from its first
\* point on.
GetOrbitsMin ==
    /\ Begins
    /\ \E fix \in Bases \ {<<>>}, cell \in Cells :
           /\ \E s \in {Rebase([ring |-> ring, levels |-> levels], 0, fix)} :
                  ring' = s.ring /\ levels' = s.levels
           /\ IF OneOrbit(cell, levels'[Len(fix) + 1].orbits)
              THEN call' = Idle /\ Answers(fix, Len(fix), levels')
              ELSE Expand("getorbitsmin", fix, cell)
    /\ UNCHANGED <<pool, group>>

\* w after one to three elements of the ring.
Walks(w) ==
    LET Once(S) == {Then(s, p) : s \in S, p \in InRing}
    IN  Once({w}) \cup Once(Once({w})) \cup Once(Once(Once({w})))

NotMinimal(fix, chain) ==
    {k \in 0 .. Len(fix) - 1 : chain[k + 1].orbits[fix[k + 1]] # fix[k + 1]}

\* What a change lets getorbitsmin answer, before the walk has ended.
EarlyAnswer(fix, cell, chain) ==
    IF NotMinimal(fix, chain) # {} THEN Min(NotMinimal(fix, chain))
    ELSE IF OneOrbit(cell, chain[Len(fix) + 1].orbits) THEN Len(fix) ELSE -1

\* One random element is filtered, in expandschreier or getorbitsmin.
Filter ==
    /\ call # Idle
    /\ \E w \in Walks(call.w) : \E t \in {filterschreier(ring, levels, w, TRUE)} :
           /\ ring' = t.ring /\ levels' = t.levels
           /\ LET nfails == IF t.changed THEN 0 ELSE call.nfails + 1
                  early == IF t.changed /\ call.op = "getorbitsmin"
                           THEN EarlyAnswer(call.fix, call.cell, t.levels) ELSE -1
              IN  IF early >= 0
                  THEN call' = Idle /\ Answers(call.fix, early, t.levels)
                  ELSE IF nfails = schreierfails
                  THEN call' = Idle /\ Answers(call.fix, Len(call.fix), t.levels)
                  ELSE call' = [call EXCEPT !.w = w, !.nfails = nfails] /\ UNCHANGED answer
    /\ UNCHANGED <<pool, calls, group>>

\* findcurrorbits: the orbits of a level, for the base points of those before it.
FindCurrOrbits ==
    /\ Begins
    /\ \E l \in DOMAIN levels :
           /\ \A i \in 1 .. l - 1 : levels[i].fixed >= 0
           /\ Answers([i \in 1 .. l - 1 |-> levels[i].fixed], l - 1, levels)
    /\ UNCHANGED <<pool, ring, levels, call, group>>

\* freeschreier at the end of Traces, and newgroup when it is called again.
FreeSchreier ==
    /\ call = Idle /\ calls > 0
    /\ pool' \in Pools
    /\ ring' = <<>> /\ levels' = newgroup /\ calls' = 0
    /\ group' = {Identity} /\ answer' = <<>>
    /\ UNCHANGED call

Next ==
    \/ addgenerator \/ GetKnownOrbits \/ GetOrbits \/ GetOrbitsMin
    \/ Filter \/ FindCurrOrbits \/ FreeSchreier

Spec == Init /\ [][Next]_vars

\* The loop of a call runs on one thread; the next call is not assumed.
FairSpec == Spec /\ WF_vars(Filter)

-----------------------------------------------------------------------------
Used == {l \in DOMAIN levels : \A i \in 1 .. l - 1 : levels[i].fixed >= 0}

References(x) == {r \in (DOMAIN levels) \X Points : levels[r[1]].vec[r[2]] = x}

TypeOK ==
    /\ \A x \in DOMAIN ring : ring[x].p \in Perms /\ ring[x].refcount \in 0 .. N * Len(levels)
    /\ \A l \in DOMAIN levels : levels[l].fixed \in -1 .. N - 1
    /\ levels[Len(levels)].fixed = -1

\* The counts are exact: a vector never refers to a node that was freed, and an unmarked node
\* lives as long as some vector refers to it.
NodesCounted ==
    /\ \A x \in DOMAIN ring : ring[x].refcount = Cardinality(References(x))
    /\ \A x \in DOMAIN ring : ring[x].mark \/ References(x) # {}
    /\ \A l \in DOMAIN levels : \A i \in Points :
           levels[l].vec[i] > 0 => levels[l].vec[i] \in DOMAIN ring

\* Where the entry of a point leads, and the points from which entries lead to the base point.
Edge(nodes, level, i) == applyperm(Identity, nodes[level.vec[i]].p, level.pwr[i])

Leading(nodes, level, R) ==
    R \cup {i \in Points : level.vec[i] > 0 /\ Edge(nodes, level, i)[i] \in R}

Rooted(nodes, level) ==
    LET Within[k \in 0 .. N] ==
            IF k = 0 THEN {level.fixed}
            ELSE With(Within[k - 1], LAMBDA R : Leading(nodes, level, R))
    IN  Within[N]

EdgesLead ==
    \A l \in Used : LET level == levels[l] IN
        level.fixed >= 0 =>
            /\ level.vec[level.fixed] = ID_PERMNODE
            /\ {i \in Points : level.vec[i] # NULL} = Rooted(ring, level)
            /\ \A i \in Rooted(ring, level) \ {level.fixed} : \A m \in 1 .. l - 1 :
                   Edge(ring, level, i)[levels[m].fixed] = levels[m].fixed

\* header of schreier: "vec[i]^pwr[i] is edge label, transitive closure maps i->fixed".  An
\* edge leads from a point of the vector to another that was there before it, and keeps the
\* base points of the levels before.
VectorsHold == TypeOK /\ NodesCounted /\ EdgesLead

\* addgenerator: "Add new permutation to group, unless it is discovered to be already in
\* the group", or "an equivalent": what is marked, and so never freed, generates all.
NothingForgotten ==
    Knowledge!Generated({ring[x].p : x \in {y \in DOMAIN ring : ring[y].mark}}) = group

\* Traces leaves out a vertex with another of its orbit, and a subtree with a smaller
\* one: the orbits that it is told are orbits of automorphisms that fix the base.
KeepsKnowledge == Knowledge!KnowledgeSpec

\* The random walks come to an end: each restarts its count only with new knowledge.
CallReturns == call # Idle ~> call = Idle
=============================================================================
