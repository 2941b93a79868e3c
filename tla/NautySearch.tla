----------------------------- MODULE NautySearch ----------------------------
(***************************************************************************)
(* The search of nauty (nauty.c) as the bindings call it: for a canonical  *)
(* labelling, with the options for digraphs.  The recursion of             *)
(* firstpathnode and othernode is a stack of frames; a step is one node of *)
(* the search tree, or the return to a node and its next child.            *)
(*                                                                         *)
(* A behaviour labels one coloured graph and then a renamed copy of it.    *)
(* The statics of nauty.c survive the first call, as they do in the        *)
(* program.                                                                *)
(***************************************************************************)
EXTENDS NautyRefine

CONSTANTS
    Inputs,      \* the coloured graphs: records [g, colors]
    Renamings,   \* per number of vertices, permutations to rename them with
    Reps,        \* the kinds of graph: "dense", "sparse"
    HashBits,    \* widths of the refinement code
    WorkPairs    \* automorphisms that the workspace has room for (500 in the code)

ASSUME ConstantsAssumption ==
    /\ \A in \in Inputs :
           LET m == Cardinality(DOMAIN in.g)
           IN  /\ m \in Nat \ {0}
               /\ in.g \in [0 .. m - 1 -> SUBSET (0 .. m - 1)]
               /\ in.colors \in [0 .. m - 1 -> 0 .. m - 1]
               /\ \A v \in 0 .. m - 1 :
                      in.colors[v] = Cardinality({u \in 0 .. m - 1 : in.colors[u] < in.colors[v]})
               /\ \A s \in Renamings[m] :
                      DOMAIN s = 0 .. m - 1 /\ {s[v] : v \in 0 .. m - 1} = 0 .. m - 1
    /\ Reps \subseteq {"dense", "sparse"}
    /\ HashBits \subseteq 1 .. 15
    /\ WorkPairs \in Nat \ {0}

VARIABLES
    call,           \* the arguments: graph, colours, kind, width of the code
    mode,           \* "first", "other": a node to visit; "classify"; "back"; "done"
    node,           \* the node at hand: partition, active cells, code, target cell
    rtnlevel,       \* the level to return to
    stack,          \* its ancestors
    firstcode, firsttc, firstlab,
    canoncode, canonlab, canonlevel, canong, samerows,
    gca_first, gca_canon, noncheaplevel, allsamelevel,
    eqlev_first, eqlev_canon, comp_canon,
    cosetindex, needshortprune,
    fixmcr,         \* workspace: pairs of fixed points and minimum cell representatives
    orbits, stats,
    generators,     \* history: the permutations reported
    earlier         \* history: the input of the first call and its results

firstVars == <<firstcode, firsttc, firstlab>>
canonVars == <<canoncode, canonlab, canonlevel, canong, samerows>>
levelVars == <<gca_first, gca_canon, noncheaplevel, allsamelevel, eqlev_first, eqlev_canon,
               comp_canon>>
autVars == <<fixmcr, orbits, generators>>
callVars == <<call, earlier>>
vars == <<call, mode, node, rtnlevel, stack, firstVars, canonVars, levelVars, cosetindex,
          needshortprune, autVars, stats, earlier>>

g == call.g
V == Vertices(g)
n == Cardinality(V)

\* The level of the node at hand, below its ancestors; the root has level 1.
level == Len(stack) + 1
top == stack[Len(stack)]

\* Marks the end of the codes of a leaf, above all codes.
EndCode == 32767

-----------------------------------------------------------------------------
(* Labellings and automorphisms *)

LabOf(p) == [i \in V |-> CHOOSE v \in V : p[v] = i]

Mapping(from, to) == [v \in V |-> to[CHOOSE i \in V : from[i] = v]]

Row(lab, i) == {CHOOSE k \in V : lab[k] = w : w \in g[lab[i]]}

updatecan(can, lab, rows) == [i \in V |-> IF i < rows THEN can[i] ELSE Row(lab, i)]

\* Mutant: stops at the first vertex.
IsAutomFirstRow(perm) == \A j \in g[0] : perm[j] \in g[perm[0]]

\* isautom, isautom_sg
IsAutom(perm) ==
    /\ \A i \in V : \A j \in g[i] : perm[j] \in g[perm[i]]
    /\ call.rep = "sparse" => \A i \in V : Cardinality(g[perm[i]]) = Cardinality(g[i])

\* Mutant: rows are compared by length only.
CompareLengths(a, b) == IF Cardinality(a) > Cardinality(b) THEN 1 ELSE -1

\* testcanlab, testcanlab_sg: the first row that differs decides; dense rows are
\* numbers with vertex 0 as their highest bit, sparse ones are compared by length first.
CompareRows(a, b) ==
    LET first == Min((a \ b) \cup (b \ a))
    IN  IF call.rep = "sparse" /\ Cardinality(a) # Cardinality(b)
        THEN (IF Cardinality(a) > Cardinality(b) THEN -1 ELSE 1)
        ELSE IF first \in a THEN 1 ELSE -1

\* Mutant: counts the row that differs.
testcanlabOneMore(can, lab) ==
    LET differ == {i \in V : Row(lab, i) # can[i]}
    IN  IF differ = {} THEN [cmp |-> 0, samerows |-> n]
        ELSE [cmp |-> CompareRows(Row(lab, Min(differ)), can[Min(differ)]),
              samerows |-> Min(differ) + 1]

testcanlab(can, lab) ==
    LET differ == {i \in V : Row(lab, i) # can[i]}
    IN  IF differ = {} THEN [cmp |-> 0, samerows |-> n]
        ELSE [cmp |-> CompareRows(Row(lab, Min(differ)), can[Min(differ)]),
              samerows |-> Min(differ)]

\* cheapautom: never for digraphs.
CheapAutom(p) == FALSE

\* orbjoin: the orbits joined to the least extent that has v and map[v] together.
orbjoin(orb, map) ==
    LET Joined[k \in 0 .. n] ==
            IF k = 0 THEN orb
            ELSE LET o == Joined[k - 1]
                     a == o[k - 1]
                     b == o[map[k - 1]]
                 IN  [v \in V |-> IF o[v] \in {a, b} THEN Min({a, b}) ELSE o[v]]
    IN  Joined[n]

NumOrbits(orb) == Cardinality({orb[v] : v \in V})

Cycle(perm, v) ==
    LET Power[k \in 0 .. n] == IF k = 0 THEN v ELSE perm[Power[k - 1]]
    IN  {Power[k] : k \in 0 .. n}

fmperm(perm) ==
    [fix |-> {v \in V : perm[v] = v}, mcr |-> {v \in V : v = Min(Cycle(perm, v))}]

\* The cells of an ancestor's partition, as orbits.
fmptn(p) ==
    [fix |-> {v \in V : CellAt(p, p[v]) = {v}},
     mcr |-> {v \in V : v = Min(CellAt(p, p[v]))}]

\* A full workspace: the last pair is overwritten.
AddPair(pair) ==
    IF Len(fixmcr) = WorkPairs THEN [fixmcr EXCEPT ![WorkPairs] = pair]
    ELSE Append(fixmcr, pair)

LastMcr == fixmcr[Len(fixmcr)].mcr

\* The points fixed by the ancestors up to a level.
FixedUpTo(l) == {stack[i].tv : i \in 1 .. l}

longprune(tcell, fix) ==
    {v \in tcell : \A i \in DOMAIN fixmcr : fix \subseteq fixmcr[i].fix => v \in fixmcr[i].mcr}

-----------------------------------------------------------------------------
(* nauty() *)

Args(in, rep, bits) == [g |-> in.g, colors |-> in.colors, rep |-> rep, bits |-> bits]

\* What nauty() sets before the search, the arguments being a.
Begin(a) ==
    [mode |-> "first", node |-> [p |-> a.colors, active |-> Starts(a.colors)],
     orbits |-> [v \in DOMAIN a.g |-> v],
     stats |-> [grpsize |-> 1, numorbits |-> Cardinality(DOMAIN a.g), numgenerators |-> 0]]

Nothing(m) == [i \in 0 .. m |-> 0]

Init ==
    \E in \in Inputs, rep \in Reps, bits \in HashBits :
        LET a == Args(in, rep, bits)
            m == Cardinality(DOMAIN in.g)
        IN  /\ call = a
            /\ mode = Begin(a).mode /\ node = Begin(a).node
            /\ orbits = Begin(a).orbits /\ stats = Begin(a).stats
            /\ rtnlevel = 0 /\ stack = <<>>
            /\ firstcode = Nothing(m + 1) /\ firsttc = Nothing(m + 1)
            /\ canoncode = Nothing(m + 1)
            /\ firstlab = Nothing(m - 1) /\ canonlab = Nothing(m - 1)
            /\ canong = [v \in DOMAIN in.g |-> {}]
            /\ noncheaplevel = 1 /\ eqlev_canon = -1 /\ needshortprune = FALSE
            /\ canonlevel = 0 /\ samerows = 0 /\ gca_first = 0 /\ gca_canon = 0
            /\ allsamelevel = 0 /\ eqlev_first = 0 /\ comp_canon = 0 /\ cosetindex = 0
            /\ fixmcr = <<>> /\ generators = {} /\ earlier = <<>>

Result == [input |-> [g |-> g, colors |-> call.colors],
           positions |-> [v \in V |-> CHOOSE i \in V : canonlab[i] = v]]

Renamed(in, s) ==
    LET pre(w) == CHOOSE v \in DOMAIN s : s[v] = w
    IN  [g |-> [w \in DOMAIN s |-> {s[u] : u \in in.g[pre(w)]}],
         colors |-> [w \in DOMAIN s |-> in.colors[pre(w)]]]

\* The next call.  The other statics keep what they have; so does the graph that the
\* binding for dense graphs hands over for the result.
CallAgain ==
    /\ mode = "done" /\ earlier = <<>>
    /\ \E s \in Renamings[n] :
           LET a == Args(Renamed([g |-> g, colors |-> call.colors], s), call.rep, call.bits)
           IN  /\ call' = a
               /\ mode' = Begin(a).mode /\ node' = Begin(a).node
               /\ orbits' = Begin(a).orbits /\ stats' = Begin(a).stats
    /\ noncheaplevel' = 1 /\ eqlev_canon' = -1 /\ needshortprune' = FALSE
    /\ fixmcr' = <<>> /\ generators' = {}
    /\ canong' = IF call.rep = "dense" THEN canong ELSE [v \in V |-> {}]
    /\ earlier' = <<Result>>
    /\ UNCHANGED <<rtnlevel, stack, firstVars, canoncode, canonlab, canonlevel, samerows,
                   gca_first, gca_canon, allsamelevel, eqlev_first, comp_canon, cosetindex>>

-----------------------------------------------------------------------------
(* firstpathnode *)

Visited == doref(call.rep, call.bits, g, node.p, level, node.active)

Frame(kind, p, tc, tv) ==
    [kind |-> kind, p |-> p, tc |-> tc, tcell |-> CellAt(p, tc), tv1 |-> tv, tv |-> tv,
     index |-> 0]

Child(p, tc, tv) == [p |-> breakout(p, tc, tv), active |-> {tc}]

\* A node of the leftmost path with children: on to the first of them.
FirstPathNode ==
    /\ mode = "first"
    /\ \E r \in {Visited} :
       LET tc == targetcell(r.p, -1)
           tv == Min(CellAt(r.p, tc))
       IN  /\ ~Discrete(r.p)
           /\ firstcode' = [firstcode EXCEPT ![level] = r.code]
           /\ firsttc' = [firsttc EXCEPT ![level] = tc]
           /\ noncheaplevel' = IF noncheaplevel >= level /\ ~CheapAutom(r.p)
                               THEN level + 1 ELSE noncheaplevel
           /\ stack' = Append(stack, Frame("first", r.p, tc, tv))
           /\ node' = Child(r.p, tc, tv)
           /\ cosetindex' = tv
    /\ UNCHANGED <<callVars, mode, rtnlevel, firstlab, canonVars, gca_first, gca_canon,
                   allsamelevel, eqlev_first, eqlev_canon, comp_canon, needshortprune, autVars,
                   stats>>

\* The first leaf.
firstterminal ==
    /\ mode = "first"
    /\ \E r \in {Visited} :
       LET codes == [firstcode EXCEPT ![level] = r.code, ![level + 1] = EndCode]
       IN  /\ Discrete(r.p)
           /\ firstcode' = codes
           /\ canoncode' = [i \in DOMAIN canoncode |->
                               IF i <= level + 1 THEN codes[i] ELSE canoncode[i]]
           /\ firstlab' = LabOf(r.p) /\ canonlab' = LabOf(r.p)
    /\ firsttc' = [firsttc EXCEPT ![level] = -1, ![level + 1] = -1]
    /\ gca_first' = level /\ allsamelevel' = level /\ eqlev_first' = level
    /\ canonlevel' = level /\ eqlev_canon' = level /\ gca_canon' = level
    /\ comp_canon' = 0 /\ samerows' = 0
    /\ mode' = "back" /\ rtnlevel' = level - 1
    /\ UNCHANGED <<callVars, node, stack, canong, noncheaplevel, cosetindex, needshortprune,
                   autVars, stats>>

-----------------------------------------------------------------------------
(* othernode *)

\* A node off the leftmost path: compared with the first and the best leaf so far.
othernode ==
    /\ mode = "other"
    /\ \E r \in {Visited} :
       LET ef == IF eqlev_first = level - 1 /\ r.code = firstcode[level]
                 THEN level ELSE eqlev_first
           compare == eqlev_canon = level - 1
           cc == IF ~compare THEN comp_canon
                 ELSE IF r.code < canoncode[level] THEN -1
                 ELSE IF r.code > canoncode[level] THEN 1 ELSE 0
           children == ~Discrete(r.p) /\ (ef = level \/ cc >= 0)
           tc == IF ~children THEN -1
                 ELSE targetcell(r.p, IF cc < 0 THEN firsttc[level] ELSE -1)
       IN  /\ node' = [p |-> r.p, tc |-> tc]
           /\ eqlev_first' = IF children /\ cc < 0 /\ tc # firsttc[level]
                             THEN level - 1 ELSE ef
           /\ comp_canon' = cc
           /\ eqlev_canon' = IF compare /\ cc = 0 THEN level ELSE eqlev_canon
           /\ canoncode' = IF cc > 0 THEN [canoncode EXCEPT ![level] = r.code] ELSE canoncode
    /\ mode' = "classify"
    /\ UNCHANGED <<callVars, rtnlevel, stack, firstVars, canonlab, canonlevel, canong, samerows,
                   gca_first, gca_canon, noncheaplevel, allsamelevel, cosetindex,
                   needshortprune, autVars, stats>>

-----------------------------------------------------------------------------
(* processnode *)

Lab == LabOf(node.p)

NothingBetterBelow == eqlev_first # level /\ comp_canon < 0

IsLeaf == Discrete(node.p)

EquivalentToFirst ==
    /\ eqlev_first = level
    /\ gca_first >= noncheaplevel \/ IsAutom(Mapping(firstlab, Lab))

\* The rows of the best leaf are brought up to date, when they are needed.
Tested == comp_canon = 0 /\ level >= canonlevel

BestRows == updatecan(canong, canonlab, samerows)

CompareWithBest ==
    IF Tested THEN testcanlab(BestRows, Lab)
    ELSE [cmp |-> IF comp_canon = 0 THEN 1 ELSE comp_canon, samerows |-> 0]

\* A new automorphism for the workspace and the orbits.
Join(perm) ==
    /\ fixmcr' = AddPair(fmperm(perm))
    /\ orbits' = orbjoin(orbits, perm)

Report(perm) ==
    /\ generators' = generators \cup {perm}
    /\ stats' = [stats EXCEPT !.numorbits = NumOrbits(orbits'), !.numgenerators = @ + 1]

Return(l) == mode' = "back" /\ rtnlevel' = l

\* Type 0: the children are visited.
InternalNode ==
    LET tcell == IF needshortprune THEN CellAt(node.p, node.tc) \cap LastMcr
                 ELSE CellAt(node.p, node.tc)
        tv == Min(tcell)
    IN  /\ mode = "classify" /\ ~NothingBetterBelow /\ ~IsLeaf
        /\ noncheaplevel' = IF CheapAutom(node.p) THEN noncheaplevel ELSE level + 1
        /\ needshortprune' = FALSE
        /\ IF tcell = {}
           THEN Return(level - 1) /\ UNCHANGED <<stack, node>>
           ELSE /\ stack' = Append(stack, [Frame("other", node.p, node.tc, tv)
                                             EXCEPT !.tcell = tcell])
                /\ node' = Child(node.p, node.tc, tv)
                /\ mode' = "other"
                /\ UNCHANGED rtnlevel
        /\ UNCHANGED <<callVars, firstVars, canonVars, gca_first, gca_canon, allsamelevel,
                       eqlev_first, eqlev_canon, comp_canon, cosetindex, autVars, stats>>

\* Type 1: an automorphism; back to the leftmost path.
FirstLeafAgain ==
    /\ mode = "classify" /\ ~NothingBetterBelow /\ IsLeaf /\ EquivalentToFirst
    /\ Join(Mapping(firstlab, Lab)) /\ Report(Mapping(firstlab, Lab))
    /\ Return(gca_first)
    /\ UNCHANGED <<callVars, node, stack, firstVars, canonVars, levelVars, cosetindex,
                   needshortprune>>

JoinsNothing == NumOrbits(orbits') = stats.numorbits

\* Type 2: an automorphism, as useful as the orbits it joins.
BestLeafAgain ==
    /\ mode = "classify" /\ ~NothingBetterBelow /\ IsLeaf /\ ~EquivalentToFirst
    /\ LET test == CompareWithBest
           perm == Mapping(canonlab, Lab)
       IN  /\ test.cmp = 0
           /\ Join(perm)
           /\ IF JoinsNothing
              THEN UNCHANGED <<generators, stats>>
              ELSE Report(perm)
           /\ IF ~JoinsNothing /\ orbits'[cosetindex] < cosetindex
              THEN Return(gca_first) /\ UNCHANGED needshortprune
              ELSE /\ Return(gca_canon)
                   /\ needshortprune' = (needshortprune \/ gca_canon # gca_first)
    /\ canong' = BestRows /\ samerows' = n
    /\ UNCHANGED <<callVars, node, stack, firstVars, canoncode, canonlab, canonlevel, levelVars,
                   cosetindex>>

\* Types 3 and 4: what the partition of the highest cheap ancestor says of its orbits
\* is kept, and the search goes back as far as it may; eq is eqlev_canon.
LeaveLeaf(eq) ==
    LET save == IF allsamelevel > eq THEN allsamelevel - 1 ELSE eq
        newlevel == IF noncheaplevel <= save THEN noncheaplevel - 1 ELSE save
        cheap == level # noncheaplevel
    IN  /\ fixmcr' = IF cheap THEN AddPair(fmptn(stack[noncheaplevel].p)) ELSE fixmcr
        /\ needshortprune' = (needshortprune \/ (cheap /\ newlevel # gca_first))
        /\ Return(newlevel)

\* Type 3: better than the best leaf so far.
BetterLeaf ==
    /\ mode = "classify" /\ ~NothingBetterBelow /\ IsLeaf /\ ~EquivalentToFirst
    /\ LET test == CompareWithBest
       IN  /\ test.cmp > 0
           /\ canong' = IF Tested THEN BestRows ELSE canong
           /\ samerows' = test.samerows
    /\ canonlab' = Lab /\ canonlevel' = level
    /\ canoncode' = [canoncode EXCEPT ![level + 1] = EndCode]
    /\ eqlev_canon' = level /\ gca_canon' = level /\ comp_canon' = 0
    /\ LeaveLeaf(level)
    /\ UNCHANGED <<callVars, node, stack, firstVars, gca_first, noncheaplevel, allsamelevel,
                   eqlev_first, cosetindex, orbits, generators, stats>>

\* Type 4: neither equivalent to the first or the best leaf nor better, nor can a
\* descendant be.
BadLeaf ==
    /\ mode = "classify"
    /\ \/ /\ NothingBetterBelow
          /\ UNCHANGED <<canong, samerows, comp_canon>>
       \/ /\ ~NothingBetterBelow /\ IsLeaf /\ ~EquivalentToFirst
          /\ CompareWithBest.cmp < 0
          /\ comp_canon' = -1
          /\ IF Tested THEN canong' = BestRows /\ samerows' = n
             ELSE UNCHANGED <<canong, samerows>>
    /\ LeaveLeaf(eqlev_canon)
    /\ UNCHANGED <<callVars, node, stack, firstVars, canoncode, canonlab, canonlevel, gca_first,
                   gca_canon, noncheaplevel, allsamelevel, eqlev_first, eqlev_canon, cosetindex,
                   orbits, generators, stats>>

-----------------------------------------------------------------------------
(* Back at an ancestor *)

\* The caller of a node to be returned past.
ReturnFurther ==
    /\ mode = "back" /\ stack # <<>> /\ rtnlevel < Len(stack)
    /\ stack' = SubSeq(stack, 1, Len(stack) - 1)
    /\ UNCHANGED <<callVars, mode, node, rtnlevel, firstVars, canonVars, levelVars, cosetindex,
                   needshortprune, autVars, stats>>

\* recover: the levels, back at level l.
Recover(l) ==
    /\ noncheaplevel' = IF l < noncheaplevel THEN l + 1 ELSE noncheaplevel
    /\ eqlev_first' = Min({l, eqlev_first})
    /\ gca_canon' = Min({l, gca_canon})
    /\ IF l <= eqlev_canon THEN eqlev_canon' = l /\ comp_canon' = 0
       ELSE UNCHANGED <<eqlev_canon, comp_canon>>

Back(kind) ==
    /\ mode = "back" /\ stack # <<>> /\ rtnlevel = Len(stack) /\ top.kind = kind
    /\ Recover(Len(stack))
    /\ needshortprune' = FALSE

ShortPruned == IF needshortprune THEN top.tcell \cap LastMcr ELSE top.tcell

\* Mutant: the vertex just returned from is not counted.
IndexSkipsOne(tv) ==
    top.index
      + Cardinality({w \in ShortPruned : top.tv < w /\ w < tv /\ orbits[w] = top.tv1})

\* Vertices of the target cell known to be equivalent to the first, up to tv.
IndexUpTo(tv) ==
    top.index + (IF orbits[top.tv] = top.tv1 THEN 1 ELSE 0)
      + Cardinality({w \in ShortPruned : top.tv < w /\ w < tv /\ orbits[w] = top.tv1})

\* The vertices not equivalent to an earlier one are still to be fixed.
FirstLeft == {w \in ShortPruned : w > top.tv /\ orbits[w] = w}

ReachedFirst == gca_first' = IF top.tv = top.tv1 THEN Len(stack) ELSE gca_first

NextOfFirst ==
    /\ Back("first") /\ ReachedFirst
    /\ FirstLeft # {}
    /\ LET tv == Min(FirstLeft)
       IN  /\ stack' = [stack EXCEPT ![Len(stack)] = [@ EXCEPT !.tcell = ShortPruned, !.tv = tv,
                                                                !.index = IndexUpTo(tv)]]
           /\ node' = Child(top.p, top.tc, tv)
           /\ cosetindex' = tv
    /\ mode' = "other"
    /\ UNCHANGED <<callVars, rtnlevel, firstVars, canonVars, allsamelevel, autVars, stats>>

\* All children of a node of the leftmost path are known: the index of the stabilizer.
EndOfFirst ==
    /\ Back("first") /\ ReachedFirst
    /\ FirstLeft = {}
    /\ LET index == IndexUpTo(n)
           tcellsize == Cardinality(CellAt(top.p, top.tc))
       IN  /\ stats' = [stats EXCEPT !.grpsize = @ * index]
           /\ allsamelevel' = IF tcellsize = index /\ allsamelevel = Len(stack) + 1
                              THEN allsamelevel - 1 ELSE allsamelevel
    /\ stack' = SubSeq(stack, 1, Len(stack) - 1)
    /\ Return(Len(stack) - 1)
    /\ UNCHANGED <<callVars, node, firstVars, canonVars, cosetindex, autVars>>

\* After the first child, all automorphisms stored are used to prune.
OtherPruned ==
    IF top.tv = top.tv1 THEN longprune(ShortPruned, FixedUpTo(Len(stack) - 1))
    ELSE ShortPruned

\* Mutant: the same child again.
OtherLeftAgain == {w \in OtherPruned : w >= top.tv}

OtherLeft == {w \in OtherPruned : w > top.tv}

NextOfOther ==
    /\ Back("other")
    /\ OtherLeft # {}
    /\ LET tv == Min(OtherLeft)
       IN  /\ stack' = [stack EXCEPT ![Len(stack)] = [@ EXCEPT !.tcell = OtherPruned, !.tv = tv]]
           /\ node' = Child(top.p, top.tc, tv)
    /\ mode' = "other"
    /\ UNCHANGED <<callVars, rtnlevel, firstVars, canonVars, gca_first, allsamelevel,
                   cosetindex, autVars, stats>>

EndOfOther ==
    /\ Back("other")
    /\ OtherLeft = {}
    /\ stack' = SubSeq(stack, 1, Len(stack) - 1)
    /\ Return(Len(stack) - 1)
    /\ UNCHANGED <<callVars, node, firstVars, canonVars, gca_first, allsamelevel, cosetindex,
                   autVars, stats>>

\* nauty() after the search: the rows of the result that are not there yet.
Finish ==
    /\ mode = "back" /\ stack = <<>>
    /\ canong' = BestRows
    /\ mode' = "done"
    /\ UNCHANGED <<callVars, node, rtnlevel, stack, firstVars, canoncode, canonlab, canonlevel,
                   samerows, levelVars, cosetindex, needshortprune, autVars, stats>>

Over == mode = "done" /\ earlier # <<>>

Terminated == Over /\ UNCHANGED vars

Next ==
    \/ CallAgain
    \/ FirstPathNode \/ firstterminal \/ othernode
    \/ InternalNode \/ FirstLeafAgain \/ BestLeafAgain \/ BetterLeaf \/ BadLeaf
    \/ ReturnFurther \/ NextOfFirst \/ EndOfFirst \/ NextOfOther \/ EndOfOther
    \/ Finish
    \/ Terminated

Spec == Init /\ [][Next]_vars

\* The search runs on one thread without waiting for anything: it takes another step
\* until it is over.  This is WF_vars(Next), because until then Next is enabled (there is
\* no deadlock) and every action of it changes mode or stack.
FairSpec == Spec /\ ([]<>Over \/ []<><<TRUE>>_vars)

-----------------------------------------------------------------------------
(* Properties *)

Input == [g |-> g, colors |-> call.colors]

Positions == [v \in V |-> CHOOSE i \in V : canonlab[i] = v]

Contract == INSTANCE CanonicalForm WITH
    input <- Input,
    labelling <- IF mode = "done" THEN <<Positions>> ELSE <<>>,
    answers <- {<<earlier[i].input, earlier[i].positions>> : i \in DOMAIN earlier}

\* The types of the variables; the workspace never holds more pairs than it has room for.
TypeOK ==
    /\ mode \in {"first", "other", "classify", "back", "done"}
    /\ node.p \in [V -> V]
    /\ rtnlevel \in 0 .. n /\ Len(stack) < n
    /\ \A i \in DOMAIN stack : stack[i].tcell \subseteq V /\ stack[i].tv \in V
    /\ canong \in [V -> SUBSET V] /\ samerows \in 0 .. n
    /\ comp_canon \in {-1, 0, 1}
    /\ orbits \in [V -> V]
    /\ Len(fixmcr) <= WorkPairs

\* The comment on samerows in nauty.c, "number of rows of canong which are correct for
\* the bsf leaf", with the author's own question mark behind it: the rows kept are those
\* of the best leaf, although leaves replace each other while only some rows are written;
\* and the graph that nauty() returns is the input under the labelling that it returns.
RowsOfBestLeaf ==
    /\ mode # "first" => \A i \in V : i < samerows => canong[i] = Row(canonlab, i)
    /\ mode = "done" => \A i \in V : canong[i] = Row(canonlab, i)

\* What is reported as a generator is an automorphism and keeps the colours, also when
\* it was inferred from equal codes; and the variables have their types.
GeneratorsAreAutomorphisms ==
    /\ TypeOK
    /\ \A s \in generators : Contract!IsAutomorphism(Input, s)

\* No node of the leftmost path is left before its index is known: processnode returns
\* "anywhere up to the closest invocation of firstpathnode".
NeverPastFirstPath ==
    mode = "back" => \A i \in DOMAIN stack : stack[i].kind = "first" => i <= rtnlevel

\* firstpathnode and othernode leave out children that automorphisms map to others.
\* What is left must still give all automorphisms: the orbits returned are those of the
\* group, each with its least vertex, and the product of the indices along the leftmost
\* path, none of which is left out, is the order of the group.
GroupExact ==
    /\ mode = "done" =>
           /\ \A v \in V : orbits[v] = Min(Contract!OrbitOf(Input, v))
           /\ stats.grpsize = Cardinality(Contract!Automorphisms(Input))
    /\ NeverPastFirstPath

\* Isomorphic coloured graphs get the same canonical form, whatever the numbering of the
\* vertices and whatever an earlier call left in the statics.
KeepsContract == Contract!ContractSpec

\* Both searches come to their end: pruning never sends the search back and forth.
SearchEnds == <>Over
=============================================================================
