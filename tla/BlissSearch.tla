----------------------------- MODULE BlissSearch ----------------------------
(***************************************************************************)
(* The search of Bliss (AbstractGraph::search) for the canonical labelling *)
(* of a digraph, as the binding calls it: with pruning by stored           *)
(* automorphisms, failure recording and component recursion.               *)
(*                                                                         *)
(* The search is a loop over a stack of tree nodes.  One of its iterations *)
(* is a step that drops a node, ends a node or refines for its next child, *)
(* and in the last case a step that decides what the child is good for.    *)
(*                                                                         *)
(* A behaviour labels one coloured graph and then a renamed copy.          *)
(***************************************************************************)
EXTENDS BlissRefine

CONSTANTS
    Inputs,      \* the coloured graphs: records [g, colors]
    Renamings,   \* per number of vertices, permutations to rename them with
    StoreSizes   \* values of long_prune_max_stored_autss: 100, less if memory is short

ASSUME ConstantsAssumption ==
    /\ \A in \in Inputs : DOMAIN in.colors = DOMAIN in.g
    /\ StoreSizes \subseteq Nat

VARIABLES
    call,           \* the coloured graph
    mode,           \* "start", "loop", "child", "done"
    search_stack,   \* tree nodes, the root first
    child,          \* what the refinement made of the node chosen last
    cert,           \* certificate_current_path
    first,          \* the first path: labelling, certificate, PathInfo, orbits
    best,           \* the best path: the same
    all_same_level,
    failures,       \* failure_recording_hashes, for each node of the first path
    cr_cep_stack,   \* the ends of components
    auts,           \* the stored automorphisms: how many at most, the number of the oldest, sets
    group_size,     \* of the automorphisms
    found,          \* history: the automorphisms found
    earlier         \* history: the input of the first call and its result

vars == <<call, mode, search_stack, child, cert, first, best, all_same_level, failures,
          cr_cep_stack, auts, group_size, found, earlier>>

g == call.g
V == DOMAIN g
N == Cardinality(V)

node == search_stack[Len(search_stack)]

\* Of a node, counted from 0.
current_level == Len(search_stack) - 1

SPLIT_START == -1
SPLIT_END == -2

Infinite == 1000000   \* UINT_MAX

NoChild == <<>>
Path(lab) ==
    [lab |-> lab, cert |-> <<>>, info |-> <<>>, orbits |-> [v \in DOMAIN lab |-> v], aut |-> <<>>]

-----------------------------------------------------------------------------
(* Labellings, orbits, automorphisms *)

InverseOf(lab) == [i \in V |-> CHOOSE v \in V : lab[v] = i]

Identity == [v \in V |-> v]

NofDiscrete(p) == Cardinality({s \in Starts(p) : Unit(p, s)})

\* merge_orbits: an orbit is named by its least vertex.
merge_orbits(o, v, w) == [u \in V |-> IF o[u] \in {o[v], o[w]} THEN Min({o[v], o[w]}) ELSE o[u]]

update_orbit_information(o, perm) == InOrder(V, LAMBDA a, v : merge_orbits(a, v, perm[v]), o)

Minimal(o, v) == o[v] = v

OrbitSize(o, v) == Cardinality({u \in V : o[u] = o[v]})

Cycle(perm, v) ==
    LET Power[k \in 0 .. N] == IF k = 0 THEN v ELSE perm[Power[k - 1]]
    IN  {Power[k] : k \in 0 .. N}

\* What an automorphism fixes, and the least vertices of its cycles.
AutSets(perm) ==
    [fixed |-> {v \in V : perm[v] = v}, mcrs |-> {v \in V : v = Min(Cycle(perm, v))}]

\* The buffer is a ring: when it is full the oldest is dropped.
long_prune_add_automorphism(a, perm) ==
    IF a.max = 0 THEN a
    ELSE IF Len(a.sets) < a.max THEN [a EXCEPT !.sets = Append(@, AutSets(perm))]
    ELSE [a EXCEPT !.begin = @ + 1, !.sets = Append(Tail(@), AutSets(perm))]

-----------------------------------------------------------------------------
(* Components *)

IsNewComponent(p, d, cells) ==
    /\ cells # {}
    /\ NofDiscrete(p) + Cardinality(Elements(p, cells)) < d.ceps[d.cep].discrete_cell_limit

\* A component found on its own level goes to a level of its own, with a mark for its end.
\* at: the node it is found for; d: the record with its levels, see StartSearch and Levels.
SplitLevel(p, d, cells, at) ==
    IF IsNewComponent(p, d, cells)
    THEN [lev |-> [v \in DOMAIN p |-> IF v \in Elements(p, cells) THEN d.maxlev + 1
                                      ELSE d.lev[v]],
          maxlev |-> d.maxlev + 1,
          cr_level |-> d.maxlev + 1,
          cep |-> Len(d.ceps) + 1,
          ceps |-> Append(d.ceps,
                          [creation_level |-> at,
                           discrete_cell_limit |->
                               NofDiscrete(p) + Cardinality(Elements(p, cells)),
                           next_cr_level |-> d.cr_level, next_cep |-> d.cep,
                           first_checked |-> FALSE, best_checked |-> FALSE])]
    ELSE d

-----------------------------------------------------------------------------
(* The start *)

TreeNode(p, d, s, certificate_index) ==
    [p |-> p, lev |-> d.lev, maxlev |-> d.maxlev, cr_level |-> d.cr_level,
     ceps |-> Len(d.ceps), cep |-> d.cep,
     split_cell_first |-> s, split_element |-> SPLIT_START,
     certificate_index |-> certificate_index, subcertificate_length |-> 0,
     fp_on |-> FALSE, fp_cert_equal |-> TRUE, fp_extendable |-> "MAYBE",
     in_best_path |-> FALSE, cmp_to_best_path |-> 0,
     needs_long_prune |-> FALSE, long_prune_begin |-> 0, long_prune_redundant |-> {}]

NoAuts(max) == [max |-> max, begin |-> 0, sets |-> <<>>]

Init ==
    /\ call \in Inputs /\ mode = "start"
    /\ search_stack = <<>> /\ cr_cep_stack = <<>> /\ child = NoChild /\ cert = <<>>
    /\ first = Path(Identity) /\ best = Path(Identity)
    /\ all_same_level = Infinite /\ failures = <<>>
    /\ \E max \in StoreSizes : auts = NoAuts(max)
    /\ group_size = 1
    /\ found = {} /\ earlier = <<>>

WholeGraph == [creation_level |-> 0, discrete_cell_limit |-> N, next_cr_level |-> 0, next_cep |-> 1,
               first_checked |-> FALSE, best_checked |-> FALSE]

\* A partition into single vertices needs no search.
StartDiscrete ==
    /\ mode = "start"
    /\ \E initial \in {make_initial_equitable_partition(g, call.colors)} :
          /\ Discrete(initial)
          /\ best' = Path(initial)
    /\ mode' = "done"
    /\ UNCHANGED <<call, search_stack, child, cert, first, all_same_level, failures,
                   cr_cep_stack, auts, group_size, found, earlier>>

StartSearch ==
    /\ mode = "start"
    /\ \E initial \in {make_initial_equitable_partition(g, call.colors)} :
       \E d \in {SplitLevel(initial,
                            [lev |-> [v \in V |-> 0], maxlev |-> 0, cr_level |-> 0, cep |-> 1,
                             ceps |-> <<WholeGraph>>],
                            Component(g, initial, Nontrivial(initial), Nontrivial(initial)), 0)} :
          /\ ~Discrete(initial)
          /\ search_stack' =
                <<[TreeNode(initial, d,
                            SplitCell(g, initial, CellsOn(initial, d.lev, d.cr_level)), 0)
                      EXCEPT !.fp_on = TRUE]>>
          /\ cr_cep_stack' = d.ceps
    /\ mode' = "loop"
    /\ UNCHANGED <<call, child, cert, first, best, all_same_level, failures, auts, group_size,
                   found, earlier>>

Renamed(in, s) ==
    LET pre(w) == CHOOSE v \in DOMAIN s : s[v] = w
    IN  [g |-> [w \in DOMAIN s |-> {s[u] : u \in in.g[pre(w)]}],
         colors |-> [w \in DOMAIN s |-> in.colors[pre(w)]]]

\* The next call, on a graph object of its own.
CallAgain ==
    /\ mode = "done" /\ earlier = <<>>
    /\ \E s \in Renamings[N] : call' = Renamed(call, s)
    /\ mode' = "start"
    /\ search_stack' = <<>> /\ cr_cep_stack' = <<>> /\ child' = NoChild /\ cert' = <<>>
    /\ first' = Path(Identity) /\ best' = Path(Identity)
    /\ all_same_level' = Infinite /\ failures' = <<>>
    /\ auts' = NoAuts(auts.max)
    /\ group_size' = 1 /\ found' = {}
    /\ earlier' = <<[input |-> call, positions |-> best.lab]>>

-----------------------------------------------------------------------------
(* The top of the loop *)

\* A node below a component that the first path has left cannot be extended to an
\* automorphism with it any more.
Extendable ==
    IF /\ cr_cep_stack[node.cep].first_checked /\ node.fp_extendable = "MAYBE"
       /\ ~search_stack[cr_cep_stack[node.cep].creation_level + 1].fp_on
    THEN "NO" ELSE node.fp_extendable

Current == [node EXCEPT !.fp_extendable = Extendable]

Rest == SubSeq(search_stack, 1, current_level)

Hopeless == Extendable = "NO" /\ node.cmp_to_best_path < 0

Done == node.fp_on /\ node.split_element = SPLIT_END

\* An automorphism has been found below a child of the first path: the others will not be
\* tried.
Extended == ~node.fp_on /\ Extendable = "YES"

Failed == ~node.fp_on /\ Extendable # "YES" /\ (node.split_element = SPLIT_END \/ Hopeless)

\* failure_recording_ival is 0 in every node, here <<>>.
RecordFailure ==
    IF search_stack[current_level].fp_on
    THEN [failures EXCEPT ![current_level] = @ \cup {<<>>}] ELSE failures

PopNode ==
    /\ mode = "loop"
    /\ Done \/ Extended \/ Failed
    /\ failures' = IF Failed THEN RecordFailure ELSE failures
    /\ search_stack' = Rest
    /\ mode' = IF Rest = <<>> THEN "done" ELSE mode
    /\ UNCHANGED <<call, child, cert, first, best, all_same_level, cr_cep_stack, auts,
                   group_size, found, earlier>>

Visiting == mode = "loop" /\ ~Done /\ ~Extended /\ ~Failed

-----------------------------------------------------------------------------
(* Pruning by stored automorphisms *)

\* Where the automorphisms begin that fix what the ancestors have split.
WindowBegin(n, a) == Max({n.long_prune_begin, a.begin})

SplitOfParent == search_stack[current_level].split_element

\* Those that do not fix the vertex split last are swapped out of the window.
Swapped(n, a) ==
    LET Swap(w, i) ==
            IF SplitOfParent \in w.sets[i].fixed THEN w
            ELSE LET b == w.next - a.begin + 1
                 IN  [sets |-> [w.sets EXCEPT ![b] = w.sets[i], ![i] = w.sets[b]],
                      next |-> w.next + 1]
    IN  InOrder(WindowBegin(n, a) - a.begin + 1 .. Len(a.sets), Swap,
                [sets |-> a.sets, next |-> WindowBegin(n, a)])

\* Mutant: also those that move a vertex split above.
RedundantByAny(cell, a, b) ==
    {v \in cell : \E i \in DOMAIN a.sets : v \notin a.sets[i].mcrs}

\* The vertices of a cell that an automorphism in the window maps to smaller ones.
Redundant(cell, a, b) ==
    {v \in cell : \E i \in b - a.begin + 1 .. Len(a.sets) : v \notin a.sets[i].mcrs}

\* The node and the buffer after the update of the redundancy sets: nothing is pruned before
\* the first child, and the automorphisms known after it are used once.
Pruned ==
    IF current_level = 0 \/ node.fp_on THEN [node |-> Current, auts |-> auts]
    ELSE With(Swapped(node, auts), LAMBDA w :
         LET moved == w.next # WindowBegin(node, auts)
             begin == IF moved THEN w.next ELSE node.long_prune_begin
             a == [auts EXCEPT !.sets = w.sets]
             n == [Current EXCEPT !.long_prune_begin = begin]
             cell == CellAt(node.p, node.split_cell_first)
         IN  [auts |-> a,
              node |->
                IF node.split_element = SPLIT_START THEN [n EXCEPT !.needs_long_prune = TRUE]
                ELSE IF ~node.needs_long_prune THEN n
                ELSE [n EXCEPT !.needs_long_prune = FALSE,
                               !.long_prune_redundant =
                                   @ \cup Redundant(cell, a, WindowBegin(n, a))]])

\* Mutant: off the best path, any vertex but the last is next.
CandidatesAgain(n) ==
    {v \in CellAt(n.p, n.split_cell_first) :
        /\ IF n.fp_on \/ n.in_best_path THEN v > n.split_element ELSE v # n.split_element
        /\ n.fp_on => Minimal(first.orbits, v)
        /\ ~n.fp_on => v \notin n.long_prune_redundant
        /\ ~n.fp_on /\ n.in_best_path => Minimal(best.orbits, v)}

\* Mutant: vertices known to be equivalent to one tried before are tried, too.
CandidatesAll(n) ==
    {v \in CellAt(n.p, n.split_cell_first) : v > n.split_element}

\* The vertices still to be split.
Candidates(n) ==
    {v \in CellAt(n.p, n.split_cell_first) :
        /\ v > n.split_element
        /\ n.fp_on => Minimal(first.orbits, v)
        /\ ~n.fp_on => v \notin n.long_prune_redundant
        /\ ~n.fp_on /\ n.in_best_path => Minimal(best.orbits, v)}

Restored == SubSeq(cr_cep_stack, 1, node.ceps)

\* Mutant: the index of the orbit in the cell is not what is multiplied.
IndexInCell(n) == Cardinality(CellAt(n.p, n.split_cell_first))

IndexOf(n) == OrbitSize(first.orbits, first.info[current_level + 1].splitting_element)

\* No more children.
EndNode ==
    /\ Visiting
    /\ \E w \in {Pruned} :
        LET size == Cardinality(CellAt(node.p, node.split_cell_first))
            index == IndexOf(w.node)
        IN  /\ Candidates(w.node) = {}
            /\ search_stack' = Append(Rest, [w.node EXCEPT !.split_element = SPLIT_END])
            /\ auts' = w.auts
            /\ IF node.fp_on
               THEN /\ group_size' = group_size * index
                    /\ all_same_level' = IF index = size /\ all_same_level = current_level + 1
                                         THEN current_level ELSE all_same_level
               ELSE UNCHANGED <<group_size, all_same_level>>
    /\ cert' = SubSeq(cert, 1, node.certificate_index)
    /\ cr_cep_stack' = Restored
    /\ UNCHANGED <<call, mode, child, first, best, failures, found, earlier>>

-----------------------------------------------------------------------------
(* The next child *)

PartEnd(path) ==
    path.info[current_level + 1].certificate_index
        + path.info[current_level + 1].subcertificate_length

\* The vertex is split from its cell and the partition refined.
Refine(n) ==
    LET compare == first.info # <<>>
        c == [g |-> g, in_search |-> TRUE, compare |-> compare,
              first |-> first.cert, best |-> best.cert,
              firstEnd |-> IF compare /\ n.fp_cert_equal THEN PartEnd(first) ELSE 0,
              bestEnd |-> IF compare /\ n.cmp_to_best_path = 0 THEN PartEnd(best) ELSE 0,
              firstInv |-> IF compare THEN InverseOf(first.lab) ELSE <<>>,
              bestInv |-> IF compare THEN InverseOf(best.lab) ELSE <<>>]
        s == n.split_cell_first
    IN  With(individualize(n.p, s, n.split_element), LAMBDA p :
             do_refine_to_equitable(c,
                 [p |-> p,
                  queue |-> IF Unit(p, s) THEN <<p[n.split_element], s>>
                            ELSE <<p[n.split_element]>>,
                  cert |-> SubSeq(cert, 1, n.certificate_index),
                  eq |-> n.fp_cert_equal, cmp |-> n.cmp_to_best_path, dev |-> <<>>,
                  rest |-> <<>>, firstAut |-> first.aut, bestAut |-> best.aut]))

\* The lengths of the certificates for this level.
Compared(n, r) ==
    LET length == Len(r.cert) - n.certificate_index
        firstLength == first.info[current_level + 1].subcertificate_length
        bestLength == best.info[current_level + 1].subcertificate_length
        shorter == r.eq /\ length # firstLength
    IN  IF first.info = <<>> THEN r
        ELSE [r EXCEPT !.eq = @ /\ ~shorter,
                       !.dev = IF shorter THEN <<length>> ELSE @,
                       !.cmp = IF @ # 0 \/ length = bestLength THEN @
                               ELSE IF length < bestLength THEN -1 ELSE 1]

\* Levels, counted from 0, that a failure never seen on the first path rules out.
RuledOut(n, dev) ==
    LET Open(i) == ~search_stack[i + 1].fp_on /\ <<>> \notin failures[i + 1]
    IN  {i \in 1 .. current_level :
            /\ dev \notin failures[current_level + 1]
            /\ \A j \in i .. current_level : Open(j)}

MarkNo(stack, levels) ==
    [i \in DOMAIN stack |->
        IF i - 1 \in levels THEN [stack[i] EXCEPT !.fp_extendable = "NO"] ELSE stack[i]]

\* Neither equal to the first path nor as good as the best.
Bad(r) == first.info # <<>> /\ ~r.eq /\ r.cmp < 0

\* Below all_same_level all children of a node are equivalent: one that fails tells that
\* all do.
BadLevels(n) ==
    IF n.fp_cert_equal /\ current_level + 1 > all_same_level
    THEN all_same_level .. current_level ELSE {}

VisitChild ==
    /\ Visiting
    /\ \E w \in {Pruned} :
       /\ Candidates(w.node) # {}
       /\ \E n \in {[w.node EXCEPT !.split_element = Min(Candidates(w.node))]} :
          \E r \in {Compared(n, Refine(n))} :
          LET stack == Append(Rest, n)
              deviates == first.info # <<>> /\ n.fp_cert_equal /\ ~r.eq
              marked == IF deviates /\ ~n.fp_on
                        THEN MarkNo(stack, RuledOut(n, r.dev)) ELSE stack
          IN  /\ auts' = w.auts
              /\ failures' = IF deviates /\ n.fp_on
                             THEN [failures EXCEPT ![current_level + 1] = @ \cup {r.dev}]
                             ELSE failures
              /\ search_stack' =
                    IF Bad(r) THEN MarkNo(marked, BadLevels(n))
                    ELSE [marked EXCEPT ![Len(marked)].subcertificate_length =
                                            Len(r.cert) - n.certificate_index]
              /\ cert' = r.cert
              /\ first' = [first EXCEPT !.aut = r.firstAut]
              /\ best' = [best EXCEPT !.aut = r.bestAut]
              /\ child' = IF Bad(r) THEN NoChild ELSE [p |-> r.p, eq |-> r.eq, cmp |-> r.cmp]
              /\ mode' = IF Bad(r) THEN "loop" ELSE "child"
    /\ cr_cep_stack' = Restored
    /\ UNCHANGED <<call, all_same_level, group_size, found, earlier>>

-----------------------------------------------------------------------------
(* What the child is good for *)

p == child.p

Leaf == mode = "child" /\ Discrete(p)

Inner == mode = "child" /\ ~Discrete(p)

OnFirstPath == first.info = <<>>

cep == cr_cep_stack[node.cep]

\* The node above which the component of the child was found.
CepNode == search_stack[cep.creation_level + 1]

EndOfComponent == NofDiscrete(p) = cep.discrete_cell_limit

\* The end of a component, reached like the first path has reached it.
EqualsFirstAgain == EndOfComponent /\ ~OnFirstPath /\ child.eq /\ cep.first_checked /\ CepNode.fp_on

\* The end of a component, reached before on a path as good as the best.
BestAgain == EndOfComponent /\ ~OnFirstPath /\ child.cmp >= 0 /\ cep.best_checked

EndChecked ==
    IF ~EndOfComponent THEN cr_cep_stack
    ELSE [cr_cep_stack EXCEPT
            ![node.cep].first_checked = @ \/ OnFirstPath \/ child.eq,
            ![node.cep].best_checked = @ \/ (~OnFirstPath /\ child.cmp >= 0)]

PathInfo(n) ==
    [splitting_element |-> n.split_element, certificate_index |-> n.certificate_index,
     subcertificate_length |-> n.subcertificate_length]

InfoOf(stack) == [i \in DOMAIN stack |-> PathInfo(stack[i])]

NewPath(lab) == [lab |-> lab, cert |-> cert, info |-> InfoOf(search_stack),
                 orbits |-> Identity, aut |-> Identity]

Back == mode' = "loop" /\ child' = NoChild

FirstLeaf ==
    /\ Leaf /\ OnFirstPath
    /\ first' = NewPath(p) /\ best' = NewPath(p)
    /\ search_stack' =
          [i \in DOMAIN search_stack |->
              [search_stack[i] EXCEPT !.fp_on = TRUE, !.fp_cert_equal = TRUE,
                                      !.fp_extendable = "YES", !.in_best_path = TRUE,
                                      !.cmp_to_best_path = 0]]
    /\ failures' = [i \in DOMAIN search_stack |-> {}]
    /\ all_same_level' = Len(search_stack)
    /\ group_size' = 1
    /\ Back
    /\ UNCHANGED <<call, cert, cr_cep_stack, auts, found, earlier>>

OnBestPath ==
    [i \in DOMAIN search_stack |->
        [search_stack[i] EXCEPT !.in_best_path = TRUE, !.cmp_to_best_path = 0]]

BetterLeaf ==
    /\ Leaf /\ ~OnFirstPath /\ ~child.eq /\ child.cmp > 0
    /\ best' = NewPath(p)
    /\ search_stack' = OnBestPath
    /\ Back
    /\ UNCHANGED <<call, cert, first, all_same_level, failures, cr_cep_stack, auts, group_size, found,
                   earlier>>

\* Where the best path goes on below the component: past the vertices split in it.
PostfixStart ==
    Min({k \in cep.creation_level .. Len(best.info) - 1 :
            ~Unit(p, p[best.info[k + 1].splitting_element])})

\* The rest of the best path, behind the new part.
Postfix ==
    LET new == InfoOf(search_stack)
        Add(info, i) ==
            Append(info, [best.info[i] EXCEPT !.certificate_index =
                              info[Len(info)].certificate_index
                                + info[Len(info)].subcertificate_length])
    IN  InOrder(PostfixStart + 1 .. Len(best.info), Add, new)

\* The vertices whose place is known by now get it, the others keep the old one.
LabelsSoFar == [v \in V |-> IF Unit(p, p[v]) THEN p[v] ELSE best.lab[v]]

\* A better way through a component: the best path changes in this part.
BetterComponent ==
    /\ Inner /\ ~EqualsFirstAgain /\ BestAgain /\ child.cmp > 0 /\ CepNode.in_best_path
    /\ best' = [lab |-> LabelsSoFar, orbits |-> Identity, aut |-> Identity, info |-> Postfix,
                cert |-> cert \o SubSeq(best.cert,
                                        best.info[PostfixStart + 1].certificate_index + 1,
                                        Len(best.cert))]
    /\ search_stack' = OnBestPath
    /\ cr_cep_stack' = EndChecked
    /\ Back
    /\ UNCHANGED <<call, cert, first, all_same_level, failures, auts, group_size, found, earlier>>

\* A component as good as the best, on another path: not remembered.
EqualComponent ==
    /\ Inner /\ ~EqualsFirstAgain /\ BestAgain /\ child.cmp = 0 /\ ~CepNode.in_best_path
    /\ ~child.eq
    /\ cr_cep_stack' = EndChecked
    /\ Back
    /\ UNCHANGED <<call, search_stack, cert, first, best, all_same_level, failures, auts, group_size,
                   found, earlier>>

\* Mutant: the vertices of other components are left as they are.
CompletedNot(path) == path.aut

\* The automorphism found: it fixes what is not in cells of one vertex on either path.
Completed(path) ==
    LET UnitAt(i) == i \in Starts(p) /\ Unit(p, i)
        Image(v) == {e \in V : ~Unit(p, p[e]) /\ path.lab[e] = p[v]}
    IN  [v \in V |->
            IF Unit(p, p[v])
            THEN (IF Image(v) = {} THEN path.aut[v] ELSE AnyOf(Image(v)))
            ELSE IF UnitAt(path.lab[v]) THEN path.aut[v] ELSE v]

Automorphism(path) == IF Discrete(p) THEN path.aut ELSE Completed(path)

\* The level down to which a path and the current one split the same vertices.
GcaLevel(path) ==
    Min({k \in 0 .. Len(search_stack) :
            \/ k = Len(search_stack) \/ k >= Len(path.info)
            \/ path.info[k + 1].splitting_element # search_stack[k + 1].split_element})

\* Back to the first path if its vertex there is known now to be equivalent to one before.
BackjumpLevel(firstOrbits) ==
    IF ~Minimal(firstOrbits, search_stack[GcaLevel(first) + 1].split_element)
    THEN GcaLevel(first) ELSE GcaLevel(best)

SameAsBest ==
    \/ Leaf /\ ~OnFirstPath /\ ~child.eq /\ child.cmp <= 0
    \/ Inner /\ ~EqualsFirstAgain /\ BestAgain /\ child.cmp = 0 /\ CepNode.in_best_path

BestPathAutomorphism ==
    /\ SameAsBest
    /\ \E aut \in {Automorphism(best)} :
       \E firstOrbits \in {update_orbit_information(first.orbits, aut)} :
          /\ best' = [best EXCEPT !.aut = aut, !.orbits = update_orbit_information(@, aut)]
          /\ first' = [first EXCEPT !.orbits = firstOrbits]
          /\ auts' = long_prune_add_automorphism(auts, aut)
          /\ found' = found \cup {aut}
          /\ search_stack' = SubSeq(search_stack, 1, BackjumpLevel(firstOrbits) + 1)
    /\ cr_cep_stack' = IF Inner THEN EndChecked ELSE cr_cep_stack
    /\ Back
    /\ UNCHANGED <<call, cert, all_same_level, failures, group_size, earlier>>

\* Below the first path one automorphism is enough of every child.
FirstPathAutomorphism ==
    /\ \/ Leaf /\ ~OnFirstPath /\ child.eq
       \/ Inner /\ EqualsFirstAgain
    /\ \E aut \in {Automorphism(first)} :
          /\ first' = [first EXCEPT !.aut = aut, !.orbits = update_orbit_information(@, aut)]
          /\ auts' = long_prune_add_automorphism(auts, aut)
          /\ found' = found \cup {aut}
    /\ search_stack' =
          [i \in DOMAIN search_stack |->
              IF search_stack[i].fp_on THEN search_stack[i]
              ELSE [search_stack[i] EXCEPT !.fp_extendable = "YES"]]
    /\ Back
    /\ UNCHANGED <<call, cert, best, all_same_level, failures, cr_cep_stack, group_size, earlier>>

\* The levels after the child, in the next component if this one is at its end.
Levels ==
    [lev |-> node.lev, maxlev |-> node.maxlev, ceps |-> EndChecked,
     cr_level |-> IF EndOfComponent THEN cep.next_cr_level ELSE node.cr_level,
     cep |-> IF EndOfComponent THEN cep.next_cep ELSE node.cep]

\* The child is not at the end of a component, or what is known of the component there
\* neither ends this branch nor changes the best path.
GoesOn ==
    /\ Inner /\ ~EqualsFirstAgain
    /\ ~BestAgain \/ (child.cmp = 0 /\ ~CepNode.in_best_path /\ child.eq)
                  \/ (child.cmp > 0 /\ ~CepNode.in_best_path)

LevelCells == CellsOn(p, node.lev, Levels.cr_level)

\* The child becomes a node.
NextNode ==
    /\ GoesOn
    /\ \E cells \in {Component(g, p, LevelCells, Nontrivial(p))} :
       \E d \in {SplitLevel(p, Levels, cells, Len(search_stack))} :
          /\ search_stack' =
                Append(search_stack,
                       [TreeNode(p, d, SplitCell(g, p, cells), Len(cert)) EXCEPT
                           !.fp_cert_equal = child.eq,
                           !.fp_extendable =
                               IF \/ node.fp_extendable = "NO"
                                  \/ node.fp_extendable = "MAYBE" /\ ~child.eq
                               THEN "NO" ELSE "MAYBE",
                           !.cmp_to_best_path =
                               IF BestAgain /\ child.cmp = 0 THEN -1 ELSE child.cmp,
                           !.long_prune_begin = node.long_prune_begin])
          /\ cr_cep_stack' = d.ceps
    /\ Back
    /\ UNCHANGED <<call, cert, first, best, all_same_level, failures, auts, group_size, found,
                   earlier>>

Over == mode = "done" /\ earlier # <<>>

Terminated == Over /\ UNCHANGED vars

Next ==
    \/ StartDiscrete \/ StartSearch \/ CallAgain
    \/ PopNode \/ EndNode \/ VisitChild
    \/ FirstLeaf \/ BetterLeaf \/ BetterComponent \/ EqualComponent
    \/ BestPathAutomorphism \/ FirstPathAutomorphism \/ NextNode
    \/ Terminated

Spec == Init /\ [][Next]_vars

\* The search runs on one thread without waiting for anything.  This is WF_vars(Next):
\* there is no deadlock, and every action but Terminated changes mode or search_stack.
FairSpec == Spec /\ ([]<>Over \/ []<><<TRUE>>_vars)

-----------------------------------------------------------------------------
(* Properties *)

Contract == INSTANCE CanonicalForm WITH
    input <- call,
    labelling <- IF mode = "done" THEN <<best.lab>> ELSE <<>>,
    answers <- {<<earlier[i].input, earlier[i].positions>> : i \in DOMAIN earlier}

\* Of the automorphisms found, those built from a whole labelling and those completed at the
\* end of a component (abstractgraph.cc:1560 and 1668).
AutomorphismsTrue == \A s \in found : Contract!IsAutomorphism(call, s)

\* At the end the orbits of the first path are those of the automorphism group, and the
\* product of the orbit sizes along the first path is its order, whatever the stored
\* automorphisms, the recorded failures, all_same_level and the components have pruned
\* (abstractgraph.cc:1055).
GroupExact ==
    mode = "done" =>
        \E group \in {Contract!Automorphisms(call)} :
            /\ group_size = Cardinality(group)
            /\ \A v \in V : first.orbits[v] = Min({s[v + 1] : s \in group})

CertificatesAligned ==
    Visiting /\ ~OnFirstPath =>
        LET Aligned(path) ==
                /\ current_level < Len(path.info)
                /\ path.info[current_level + 1].certificate_index = node.certificate_index
        IN  (node.fp_cert_equal => Aligned(first)) /\ (node.cmp_to_best_path = 0 => Aligned(best))

BestPathWhole ==
    best.info # <<>> =>
        LET last == best.info[Len(best.info)]
        IN  /\ Len(best.cert) = last.certificate_index + last.subcertificate_length
            /\ \A i \in 2 .. Len(best.info) :
                   best.info[i].certificate_index =
                       best.info[i - 1].certificate_index + best.info[i - 1].subcertificate_length
            /\ {best.lab[v] : v \in V} = V

ComponentsEnd ==
    Inner =>
        /\ NofDiscrete(p) <= cep.discrete_cell_limit
        /\ EndOfComponent => node.cep > 1 /\ cep.creation_level < Len(search_stack)

\* The new level is made of cells of the one that is split: the search for a component
\* follows arcs to cells of every level.
ComponentsNest ==
    GoesOn =>
        \E cells \in {Component(g, p, LevelCells, Nontrivial(p))} :
            IsNewComponent(p, Levels, cells) =>
                cells \subseteq LevelCells /\ Levels.cr_level <= node.maxlev

PathsPart ==
    SameAsBest =>
        /\ \A path \in {first, best} : GcaLevel(path) < Min({Len(search_stack), Len(path.info)})
        /\ \E aut \in {Automorphism(best)} :
           \E path \in {first, best} :
           \E orbits \in {update_orbit_information(path.orbits, aut)} :
               ~Minimal(orbits, search_stack[GcaLevel(path) + 1].split_element)

WindowFixesAncestors ==
    Visiting /\ ~node.fp_on =>
        \A i \in WindowBegin(node, auts) - auts.begin + 1 .. Len(auts.sets) :
            \A l \in 1 .. current_level - 1 :
                search_stack[l].split_element \in auts.sets[i].fixed

\* The ring of automorphisms is kept in N places, the levels of cells in N lists.
InArrays ==
    /\ Min({auts.max, auts.begin + Len(auts.sets)}) <= N
    /\ search_stack # <<>> => node.maxlev < N

\* What the code asserts of its search (abstractgraph.cc:928, 953, 1117, 1135, 1336, 1345,
\* 1358, 1418, 1451, 1653, partition.cc:1074, 1082, 1142), and that the arrays are as long as
\* they have to be: a node that counts as equal to a path has the part of its certificate
\* where the path has it, the best path is put together without gaps, a component ends no
\* later than where all its vertices are alone and takes in no cell of another level, a best
\* path automorphism leads back to a level that exists, and the automorphisms that prune a
\* node fix what was split above it.
AssertionsHold ==
    /\ CertificatesAligned /\ BestPathWhole /\ ComponentsEnd /\ ComponentsNest
    /\ PathsPart /\ WindowFixesAncestors /\ InArrays

\* Two calls with isomorphic graphs yield the same form, and isomorphic forms mean isomorphic
\* graphs: the search implements the contract of canonical_form.
KeepsContract == Contract!ContractSpec

\* Every call returns (abstractgraph.cc:791).
SearchEnds == <>Over
=============================================================================
