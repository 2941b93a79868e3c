---------------------------- MODULE SchreierProofs ---------------------------
(***************************************************************************)
(* The vectors, the ring and the orbits of module Schreier, for any number *)
(* of points, any bases and groups and any sequence of calls.              *)
(*                                                                         *)
(* The reference counts are exact: what a vector refers to has not been    *)
(* freed, and what nothing refers to has been, unless it is marked.        *)
(*                                                                         *)
(* The edges of a vector lead to its base point: each to another entry,    *)
(* and out of every set of entries.  So the loop that follows them comes   *)
(* to an end, and what is left of a permutation after a level fixes the    *)
(* base points up to it, which is why the edges of the next level do.      *)
(*                                                                         *)
(* What is marked generates the group.  The loops over a level multiply    *)
(* what they filter by elements of the ring, so that it is in every group  *)
(* with what is left of it and what was known before; and either nothing   *)
(* is left, or what is left or what came in is marked.                     *)
(*                                                                         *)
(* The orbits of a level are joined by what has come to it, which keeps    *)
(* the base points before it, and those of the first level by all that is  *)
(* known.  So the module implements GroupKnowledge.                        *)
(***************************************************************************)
EXTENDS Schreier, NumberLemmas

\* A node and a level, whatever its permutation, powers and orbits are.
IsNode(r) ==
    /\ r = [p |-> r.p, mark |-> r.mark, refcount |-> r.refcount]
    /\ r.mark \in BOOLEAN /\ r.refcount \in Nat

IsRing(nodes) ==
    /\ nodes = [x \in DOMAIN nodes |-> nodes[x]]
    /\ DOMAIN nodes \subseteq Nat \ {0}
    /\ IsFiniteSet(DOMAIN nodes)
    /\ \A x \in DOMAIN nodes : IsNode(nodes[x])

IsLevel(v) ==
    /\ v = [fixed |-> v.fixed, vec |-> v.vec, pwr |-> v.pwr, orbits |-> v.orbits]
    /\ v.fixed \in -1 .. N - 1
    /\ v.vec \in [Points -> Int] /\ \A i \in Points : v.vec[i] >= -1

\* A chain of n levels, the last of which has no base point.
IsChain(chain, n) ==
    /\ n \in Nat \ {0}
    /\ chain = [l \in 1 .. n |-> chain[l]]
    /\ \A l \in 1 .. n : IsLevel(chain[l])
    /\ chain[n].fixed = -1

\* A set of places that refer to nodes: the entries of vectors.
AreRefs(refs) ==
    /\ refs \in [DOMAIN refs -> Int] /\ IsFiniteSet(DOMAIN refs)
    /\ \A s \in DOMAIN refs : refs[s] >= -1

Uses(refs, x) == {s \in DOMAIN refs : refs[s] = x}

\* The entries of the first n levels.
Refs(chain, n) == [s \in (1 .. n) \X Points |-> chain[s[1]].vec[s[2]]]

Counted(nodes, refs) ==
    /\ \A x \in DOMAIN nodes :
           /\ nodes[x].refcount = Cardinality(Uses(refs, x))
           /\ nodes[x].mark \/ Uses(refs, x) # {}
    /\ \A s \in DOMAIN refs : refs[s] > 0 => refs[s] \in DOMAIN nodes

Omit(refs, S) == [s \in DOMAIN refs \ S |-> refs[s]]

\* Some nodes are freed, but none that is marked; the others keep their permutations.
Keeps(nodes, left) ==
    /\ DOMAIN left \subseteq DOMAIN nodes
    /\ \A x \in DOMAIN left : left[x].p = nodes[x].p /\ left[x].mark = nodes[x].mark
    /\ \A x \in DOMAIN nodes : nodes[x].mark => x \in DOMAIN left

-----------------------------------------------------------------------------
\* There are points, and finitely many.
LEMMA NPositive == N \in Nat \ {0} /\ Points = 0 .. N - 1 /\ IsFiniteSet(Points)
<1>1. N \in Nat \ {0}
  BY ConstantsAssumption
<1>2. IsFiniteSet(0 .. N - 1)
  BY <1>1, FS_Interval
<1> QED
  BY <1>1, <1>2 DEF Points

\* Some of the references are references.
LEMMA OmitRefs ==
  ASSUME NEW refs, AreRefs(refs), NEW S
  PROVE  AreRefs(Omit(refs, S)) /\ DOMAIN Omit(refs, S) = DOMAIN refs \ S
<1>1. IsFiniteSet(DOMAIN refs \ S)
  BY FS_Subset DEF AreRefs
<1> QED
  BY <1>1 DEF AreRefs, Omit

\* To leave out S and then T is to leave out both.
LEMMA OmitTwo ==
  ASSUME NEW refs, NEW S, NEW T
  PROVE  Omit(Omit(refs, S), T) = Omit(refs, S \cup T)
BY DEF Omit

\* To leave out nothing changes nothing.
LEMMA OmitNothing ==
  ASSUME NEW refs, AreRefs(refs)
  PROVE  Omit(refs, {}) = refs
BY DEF Omit, AreRefs

\* The places that refer to a node can be counted.
LEMMA UsesFinite ==
  ASSUME NEW refs, AreRefs(refs), NEW x
  PROVE  IsFiniteSet(Uses(refs, x)) /\ Cardinality(Uses(refs, x)) \in Nat
<1>1. Uses(refs, x) \subseteq DOMAIN refs /\ IsFiniteSet(DOMAIN refs)
  BY DEF Uses, AreRefs
<1> QED
  BY <1>1, FS_Subset, FS_CardinalityType

\* Counts depend on the references to nodes only.
LEMMA SameUses ==
  ASSUME NEW nodes, IsRing(nodes), NEW refs, NEW other, Counted(nodes, refs),
         \A x \in Nat \ {0} : Uses(other, x) = Uses(refs, x),
         AreRefs(other)
  PROVE  Counted(nodes, other)
<1>1. \A x \in DOMAIN nodes : Uses(other, x) = Uses(refs, x)
  BY DEF IsRing
<1>2. ASSUME NEW s \in DOMAIN other, other[s] > 0 PROVE other[s] \in DOMAIN nodes
  <2>1. other[s] \in Nat \ {0}
    BY <1>2 DEF AreRefs
  <2>2. s \in Uses(refs, other[s])
    BY <2>1 DEF Uses
  <2>3. s \in DOMAIN refs /\ refs[s] = other[s]
    BY <2>2 DEF Uses
  <2> QED
    BY <1>2, <2>3 DEF Counted
<1> QED
  BY <1>1, <1>2 DEF Counted

-----------------------------------------------------------------------------
(* Clearing *)

\* An entry that is cleared is one reference less.
LEMMA ReleaseRing ==
  ASSUME NEW nodes, IsRing(nodes), NEW x \in Int, x > 0 => x \in DOMAIN nodes,
         x > 0 => nodes[x].refcount > 0, x >= -1
  PROVE  IsRing(Release(nodes, x)) /\ Keeps(nodes, Release(nodes, x))
<1>1. CASE x \in {NULL, ID_PERMNODE}
  BY <1>1 DEF Release, Keeps
<1>2. CASE x \notin {NULL, ID_PERMNODE}
  <2>1. x \in DOMAIN nodes /\ nodes[x].refcount > 0 /\ IsNode(nodes[x])
    BY <1>2 DEF NULL, ID_PERMNODE, IsRing
  <2>2. CASE nodes[x].refcount = 1 /\ ~nodes[x].mark
    <3> DEFINE rest == [y \in DOMAIN nodes \ {x} |-> nodes[y]]
    <3>1. Release(nodes, x) = rest
      BY <1>2, <2>2 DEF Release
    <3>2. IsFiniteSet(DOMAIN nodes \ {x})
      BY FS_Subset DEF IsRing
    <3>3. IsRing(rest)
      BY <3>2 DEF IsRing
    <3>4. Keeps(nodes, rest)
      BY <2>2 DEF Keeps
    <3> QED
      BY <3>1, <3>3, <3>4
  <2>3. CASE ~(nodes[x].refcount = 1 /\ ~nodes[x].mark)
    <3> DEFINE less == [nodes[x] EXCEPT !.refcount = @ - 1]
    <3>1. Release(nodes, x) = [nodes EXCEPT ![x] = less]
      BY <1>2, <2>3 DEF Release
    <3>2. IsNode(less) /\ less.p = nodes[x].p /\ less.mark = nodes[x].mark
      BY <2>1 DEF IsNode
    <3> HIDE DEF less
    <3>3. IsRing(Release(nodes, x))
      BY <2>1, <3>1, <3>2 DEF IsRing
    <3>4. Keeps(nodes, Release(nodes, x))
      BY <2>1, <3>1, <3>2 DEF Keeps
    <3> QED
      BY <3>3, <3>4
  <2> QED
    BY <2>2, <2>3
<1> QED
  BY <1>1, <1>2

\* The counts are those of the references that are left.
LEMMA ReleaseCounted ==
  ASSUME NEW nodes, IsRing(nodes), NEW refs, AreRefs(refs), Counted(nodes, refs),
         NEW s \in DOMAIN refs, NEW x, x = refs[s], NEW rest, rest = Omit(refs, {s})
  PROVE  /\ IsRing(Release(nodes, x)) /\ Keeps(nodes, Release(nodes, x))
         /\ Counted(Release(nodes, x), rest)
<1>1. x \in Int /\ x >= -1 /\ (x > 0 => x \in DOMAIN nodes)
  BY DEF AreRefs, Counted
<1>2. \A y : IsFiniteSet(Uses(refs, y)) /\ Cardinality(Uses(refs, y)) \in Nat
  BY UsesFinite
<1>3. s \in Uses(refs, x) /\ Uses(rest, x) = Uses(refs, x) \ {s}
  BY DEF Uses, Omit
<1>4. \A y : y # x => Uses(rest, y) = Uses(refs, y)
  BY DEF Uses, Omit
<1>5. Cardinality(Uses(rest, x)) = Cardinality(Uses(refs, x)) - 1
  BY <1>2, <1>3, FS_RemoveElement
<1>6. Cardinality(Uses(rest, x)) \in Nat
  <2>1. AreRefs(rest)
    BY OmitRefs
  <2> QED
    BY <2>1, UsesFinite
<1>7. x > 0 => nodes[x].refcount = Cardinality(Uses(refs, x)) /\ nodes[x].refcount > 0
  BY <1>1, <1>2, <1>5, <1>6 DEF Counted
<1>8. IsRing(Release(nodes, x)) /\ Keeps(nodes, Release(nodes, x))
  BY <1>1, <1>7, ReleaseRing
<1>9. \A u \in DOMAIN rest : rest[u] = refs[u] /\ u \in DOMAIN refs /\ u # s
  BY DEF Omit
<1>10. CASE x \in {NULL, ID_PERMNODE}
  <2>1. \A y \in DOMAIN nodes : Uses(rest, y) = Uses(refs, y)
    BY <1>4, <1>10 DEF IsRing, NULL, ID_PERMNODE
  <2>2. Release(nodes, x) = nodes
    BY <1>10 DEF Release
  <2> QED
    BY <1>8, <1>9, <2>1, <2>2 DEF Counted
<1>11. CASE x \notin {NULL, ID_PERMNODE}
  <2>1. x > 0 /\ x \in DOMAIN nodes /\ IsNode(nodes[x])
    BY <1>1, <1>11 DEF NULL, ID_PERMNODE, IsRing
  <2>2. CASE nodes[x].refcount = 1 /\ ~nodes[x].mark
    <3>1. Release(nodes, x) = [y \in DOMAIN nodes \ {x} |-> nodes[y]]
      BY <1>11, <2>2 DEF Release
    <3>2. Uses(rest, x) = {}
      <4>1. Cardinality(Uses(refs, x)) = 1
        BY <1>7, <2>1, <2>2
      <4>2. Cardinality(Uses(rest, x)) = 0
        BY <1>5, <4>1
      <4>3. IsFiniteSet(Uses(rest, x))
        BY <1>2, <1>3, FS_Subset
      <4> QED
        BY <4>2, <4>3, FS_EmptySet
    <3>3. \A u \in DOMAIN rest : rest[u] # x
      BY <3>2 DEF Uses
    <3> QED
      BY <1>4, <1>8, <1>9, <3>1, <3>3 DEF Counted
  <2>3. CASE ~(nodes[x].refcount = 1 /\ ~nodes[x].mark)
    <3> DEFINE less == [nodes[x] EXCEPT !.refcount = @ - 1]
    <3>1. Release(nodes, x) = [nodes EXCEPT ![x] = less]
      BY <1>11, <2>3 DEF Release
    <3>2. less.refcount = nodes[x].refcount - 1 /\ less.mark = nodes[x].mark
      BY <2>1 DEF IsNode
    <3>3. less.refcount = Cardinality(Uses(rest, x))
      BY <1>5, <1>7, <2>1, <3>2
    <3>4. less.mark \/ Uses(rest, x) # {}
      <4>1. CASE nodes[x].mark
        BY <3>2, <4>1
      <4>2. CASE ~nodes[x].mark
        <5>1. Cardinality(Uses(rest, x)) # 0
          BY <1>5, <1>7, <2>1, <2>3, <4>2
        <5> QED
          BY <5>1, FS_EmptySet
      <4> QED
        BY <4>1, <4>2
    <3> HIDE DEF less
    <3>5. DOMAIN Release(nodes, x) = DOMAIN nodes
      BY <3>1
    <3>6. \A y \in DOMAIN nodes : Release(nodes, x)[y] = IF y = x THEN less ELSE nodes[y]
      BY <3>1
    <3> QED
      BY <1>4, <1>8, <1>9, <3>3, <3>4, <3>5, <3>6 DEF Counted
  <2> QED
    BY <2>2, <2>3
<1> QED
  BY <1>10, <1>11

-----------------------------------------------------------------------------
(* clearvector *)

ReleasesTo(f, nodes, vec, n) ==
    f = [i \in 0 .. n |-> IF i = 0 THEN nodes ELSE Release(f[i - 1], vec[i - 1])]

\* The function that clearvector recurses by exists for every number of entries.
LEMMA ReleasesExist ==
  ASSUME NEW nodes, NEW vec, NEW n \in Nat
  PROVE  \E f : ReleasesTo(f, nodes, vec, n)
<1> DEFINE T == {m \in Nat : ~ \E f : ReleasesTo(f, nodes, vec, m)}
<1> SUFFICES ASSUME T # {} PROVE FALSE
  OBVIOUS
<1>1. PICK m \in T : \A y \in T : m <= y
  BY Least
<1>2. CASE m = 0
  <2> DEFINE f == [i \in 0 .. 0 |-> nodes]
  <2>1. f = [i \in 0 .. m |-> IF i = 0 THEN nodes ELSE Release(f[i - 1], vec[i - 1])]
    BY <1>2
  <2> QED
    BY <2>1, <1>1 DEF ReleasesTo
<1>3. CASE m # 0
  <2>1. m - 1 \in Nat /\ m - 1 \notin T
    BY <1>3, <1>1
  <2>2. PICK f : f = [i \in 0 .. m - 1 |->
                         IF i = 0 THEN nodes ELSE Release(f[i - 1], vec[i - 1])]
    BY <2>1 DEF ReleasesTo
  <2> DEFINE g == [i \in 0 .. m |-> IF i = m THEN Release(f[m - 1], vec[m - 1]) ELSE f[i]]
  <2>3. \A i \in 0 .. m : g[i] = IF i = 0 THEN nodes ELSE Release(g[i - 1], vec[i - 1])
    <3> TAKE i \in 0 .. m
    <3>1. CASE i = m
      BY <3>1, <1>3, <1>1
    <3>2. CASE i # m
      <4>1. i \in 0 .. m - 1
        BY <3>2, <1>1
      <4>2. f[i] = IF i = 0 THEN nodes ELSE Release(f[i - 1], vec[i - 1])
        BY <4>1, <2>2
      <4> QED
        BY <4>1, <4>2
    <3> QED
      BY <3>1, <3>2
  <2>4. g = [i \in 0 .. m |-> IF i = 0 THEN nodes ELSE Release(g[i - 1], vec[i - 1])]
    BY <2>3
  <2> QED
    BY <2>4, <1>1 DEF ReleasesTo
<1> QED
  BY <1>2, <1>3

\* clearvector is its last value.
LEMMA ClearIsLast ==
  ASSUME NEW nodes, NEW vec
  PROVE  \E f : ReleasesTo(f, nodes, vec, N) /\ clearvector(nodes, vec) = f[N]
<1> DEFINE G(f) == [i \in 0 .. N |-> IF i = 0 THEN nodes
                                      ELSE With(f[i - 1], LAMBDA a : Release(a, vec[i - 1]))]
           H(f) == [i \in 0 .. N |-> IF i = 0 THEN nodes ELSE Release(f[i - 1], vec[i - 1])]
           f == CHOOSE f : f = H(f)
<1>1. ASSUME NEW h PROVE G(h) = H(h)
  BY Zenon DEF With
<1>2. \A h : ReleasesTo(h, nodes, vec, N) <=> h = H(h)
  BY Zenon DEF ReleasesTo
<1>3. clearvector(nodes, vec) = (CHOOSE h : h = G(h))[N]
  BY Zenon DEF clearvector
<1> HIDE DEF G, H
<1>4. (CHOOSE h : h = G(h)) = f
  BY <1>1, Zenon
<1>5. \E h : h = H(h)
  BY <1>2, NPositive, ReleasesExist
<1>6. f = H(f)
  BY <1>5, Zenon
<1> HIDE DEF f
<1> QED
  BY <1>2, <1>3, <1>4, <1>6, Zenon

\* The entries of one level before point i.
EntriesBefore(l, i) == {l} \X (0 .. i - 1)

\* While a vector is cleared, what is left refers to live nodes.
LEMMA ClearCounted ==
  ASSUME NEW nodes, IsRing(nodes), NEW refs, AreRefs(refs), Counted(nodes, refs),
         NEW l, NEW vec,
         \A i \in Points : <<l, i>> \in DOMAIN refs /\ refs[<<l, i>>] = vec[i],
         NEW left, left = clearvector(nodes, vec)
  PROVE  IsRing(left) /\ Keeps(nodes, left) /\ Counted(left, Omit(refs, {l} \X Points))
<1>1. PICK f : ReleasesTo(f, nodes, vec, N) /\ left = f[N]
  BY ClearIsLast
<1> DEFINE Left(i) == /\ IsRing(f[i]) /\ Keeps(nodes, f[i])
                      /\ Counted(f[i], Omit(refs, EntriesBefore(l, i)))
           T == {i \in 0 .. N : ~Left(i)}
<1>2. \A i \in 0 .. N : f[i] = IF i = 0 THEN nodes ELSE Release(f[i - 1], vec[i - 1])
  BY <1>1 DEF ReleasesTo
<1>3. T = {}
  <2> SUFFICES ASSUME T # {} PROVE FALSE
    OBVIOUS
  <2>1. PICK i \in T : \A y \in T : i <= y
    <3>1. T \in SUBSET Nat
      BY NPositive
    <3> QED
      BY <3>1, Least
  <2>2. CASE i = 0
    <3>1. EntriesBefore(l, 0) = {} /\ Omit(refs, {}) = refs
      BY OmitNothing DEF EntriesBefore
    <3>2. f[i] = nodes /\ Keeps(nodes, nodes)
      BY <1>2, <2>1, <2>2 DEF Keeps
    <3> QED
      BY <2>1, <2>2, <3>1, <3>2
  <2>3. CASE i # 0
    <3> DEFINE s == <<l, i - 1>>
               held == Omit(refs, EntriesBefore(l, i - 1))
    <3>1. i - 1 \in 0 .. N /\ i - 1 \in Points /\ i \in Nat /\ i - 1 \in Nat /\ i - 1 \notin T
      BY <2>1, <2>3, NPositive
    <3>2. IsRing(f[i - 1]) /\ Keeps(nodes, f[i - 1]) /\ Counted(f[i - 1], held)
      BY <3>1
    <3>3. AreRefs(held) /\ DOMAIN held = DOMAIN refs \ EntriesBefore(l, i - 1)
      BY OmitRefs
    <3>4. s \in DOMAIN refs /\ refs[s] = vec[i - 1]
      BY <3>1
    <3>5. s \notin EntriesBefore(l, i - 1)
      BY <3>1 DEF EntriesBefore
    <3>6. s \in DOMAIN held /\ held[s] = vec[i - 1]
      BY <3>3, <3>4, <3>5 DEF Omit
    <3>7. EntriesBefore(l, i) = EntriesBefore(l, i - 1) \cup {s}
      BY <3>1 DEF EntriesBefore
    <3>8. f[i] = Release(f[i - 1], vec[i - 1])
      BY <1>2, <2>1, <2>3
    <3> HIDE DEF held, s
    <3>9. Omit(held, {s}) = Omit(refs, EntriesBefore(l, i))
      BY <3>7, OmitTwo DEF held
    <3>10. IsRing(f[i]) /\ Keeps(f[i - 1], f[i]) /\ Counted(f[i], Omit(held, {s}))
      BY <3>2, <3>3, <3>6, <3>8, ReleaseCounted
    <3>11. Keeps(nodes, f[i])
      BY <3>2, <3>10 DEF Keeps
    <3> QED
      BY <2>1, <3>9, <3>10, <3>11
  <2> QED
    BY <2>2, <2>3
<1>4. Left(N)
  BY <1>3, NPositive
<1>5. EntriesBefore(l, N) = {l} \X Points
  BY NPositive DEF EntriesBefore
<1> QED
  BY <1>1, <1>4, <1>5

-----------------------------------------------------------------------------
(* The levels that are made anew *)

ClearsTo(f, nodes, chain, k, n) ==
    f = [l \in k .. n |-> IF l = k THEN nodes ELSE clearvector(f[l - 1], chain[l].vec)]

\* The function that ClearedFrom recurses by exists for every number of levels.
LEMMA ClearsExist ==
  ASSUME NEW nodes, NEW chain, NEW k \in Nat, NEW n \in Nat, k <= n
  PROVE  \E f : ClearsTo(f, nodes, chain, k, n)
<1> DEFINE T == {m \in Nat : k <= m /\ ~ \E f : ClearsTo(f, nodes, chain, k, m)}
<1> SUFFICES ASSUME T # {} PROVE FALSE
  OBVIOUS
<1>1. PICK m \in T : \A y \in T : m <= y
  BY Least
<1>2. CASE m = k
  <2> DEFINE f == [l \in k .. k |-> nodes]
  <2>1. f = [l \in k .. m |-> IF l = k THEN nodes ELSE clearvector(f[l - 1], chain[l].vec)]
    BY <1>2
  <2> QED
    BY <2>1, <1>1 DEF ClearsTo
<1>3. CASE m # k
  <2>1. m - 1 \in Nat /\ k <= m - 1 /\ m - 1 \notin T
    BY <1>3, <1>1
  <2>2. PICK f : f = [l \in k .. m - 1 |->
                         IF l = k THEN nodes ELSE clearvector(f[l - 1], chain[l].vec)]
    BY <2>1 DEF ClearsTo
  <2> DEFINE g == [l \in k .. m |-> IF l = m THEN clearvector(f[m - 1], chain[m].vec) ELSE f[l]]
  <2>3. \A l \in k .. m : g[l] = IF l = k THEN nodes ELSE clearvector(g[l - 1], chain[l].vec)
    <3> TAKE l \in k .. m
    <3>1. CASE l = m
      BY <2>1, <3>1, <1>3, <1>1
    <3>2. CASE l # m
      <4>1. l \in k .. m - 1
        BY <3>2, <1>1
      <4>2. f[l] = IF l = k THEN nodes ELSE clearvector(f[l - 1], chain[l].vec)
        BY <4>1, <2>2
      <4> QED
        BY <4>1, <4>2
    <3> QED
      BY <3>1, <3>2
  <2>4. g = [l \in k .. m |-> IF l = k THEN nodes ELSE clearvector(g[l - 1], chain[l].vec)]
    BY <2>3
  <2> QED
    BY <2>4, <1>1 DEF ClearsTo
<1> QED
  BY <1>2, <1>3

\* ClearedFrom is its last value.
LEMMA ClearedIsLast ==
  ASSUME NEW nodes, NEW chain, NEW k \in Nat, Len(chain) \in Nat, k <= Len(chain)
  PROVE  \E f : /\ ClearsTo(f, nodes, chain, k, Len(chain))
                /\ ClearedFrom(nodes, chain, k) = f[Len(chain)]
<1> DEFINE G(f) == [l \in k .. Len(chain) |->
                       IF l = k THEN nodes
                       ELSE With(f[l - 1], LAMBDA a : clearvector(a, chain[l].vec))]
           H(f) == [l \in k .. Len(chain) |->
                       IF l = k THEN nodes ELSE clearvector(f[l - 1], chain[l].vec)]
           f == CHOOSE f : f = H(f)
<1>1. ASSUME NEW h PROVE G(h) = H(h)
  BY Zenon DEF With
<1>2. \A h : ClearsTo(h, nodes, chain, k, Len(chain)) <=> h = H(h)
  BY Zenon DEF ClearsTo
<1>3. ClearedFrom(nodes, chain, k) = (CHOOSE h : h = G(h))[Len(chain)]
  BY Zenon DEF ClearedFrom
<1> HIDE DEF G, H
<1>4. (CHOOSE h : h = G(h)) = f
  BY <1>1, Zenon
<1>5. \E h : h = H(h)
  BY <1>2, ClearsExist
<1>6. f = H(f)
  BY <1>5, Zenon
<1> HIDE DEF f
<1> QED
  BY <1>2, <1>3, <1>4, <1>6, Zenon

\* The entries of the levels after k, up to l.
EntriesOf(k, l) == (k + 1 .. l) \X Points

\* The entries of a chain are references.
LEMMA ChainRefs ==
  ASSUME NEW chain, NEW n, IsChain(chain, n)
  PROVE  /\ AreRefs(Refs(chain, n)) /\ DOMAIN Refs(chain, n) = (1 .. n) \X Points
         /\ Len(chain) = n /\ DOMAIN chain = 1 .. n
<1>1. n \in Nat /\ chain = [l \in 1 .. n |-> chain[l]]
  BY DEF IsChain
<1>2. Len(chain) = n /\ DOMAIN chain = 1 .. n
  BY <1>1
<1>3. IsFiniteSet((1 .. n) \X Points)
  <2>1. IsFiniteSet(1 .. n)
    BY <1>1, FS_Interval
  <2> QED
    BY <2>1, NPositive, FS_Product
<1>4. \A l \in 1 .. n : \A i \in Points : chain[l].vec[i] \in Int /\ chain[l].vec[i] >= -1
  BY DEF IsChain, IsLevel
<1> QED
  BY <1>2, <1>3, <1>4 DEF AreRefs, Refs

\* The vectors after level k are cleared: what is left refers to live nodes.
LEMMA ClearedFromCounted ==
  ASSUME NEW nodes, IsRing(nodes), NEW chain, NEW n, IsChain(chain, n),
         Counted(nodes, Refs(chain, n)), NEW k \in 0 .. n,
         NEW left, left = ClearedFrom(nodes, chain, k)
  PROVE  IsRing(left) /\ Keeps(nodes, left) /\ Counted(left, Omit(Refs(chain, n), EntriesOf(k, n)))
<1>1. n \in Nat /\ k \in Nat /\ k <= n /\ Len(chain) = n
  BY ChainRefs DEF IsChain
<1>2. PICK f : ClearsTo(f, nodes, chain, k, n) /\ left = f[n]
  BY <1>1, ClearedIsLast
<1> DEFINE refs == Refs(chain, n)
<1>3. AreRefs(refs) /\ DOMAIN refs = (1 .. n) \X Points
  BY ChainRefs
<1>4. \A l \in 1 .. n : \A i \in Points : refs[<<l, i>>] = chain[l].vec[i]
  BY DEF Refs
<1>5. Counted(nodes, refs)
  OBVIOUS
<1> HIDE DEF refs
<1> DEFINE Left(l) == /\ IsRing(f[l]) /\ Keeps(nodes, f[l])
                      /\ Counted(f[l], Omit(refs, EntriesOf(k, l)))
           T == {l \in k .. n : ~Left(l)}
<1>6. \A l \in k .. n : f[l] = IF l = k THEN nodes ELSE clearvector(f[l - 1], chain[l].vec)
  BY <1>2 DEF ClearsTo
<1>7. T = {}
  <2> SUFFICES ASSUME T # {} PROVE FALSE
    OBVIOUS
  <2>1. PICK l \in T : \A y \in T : l <= y
    <3>1. T \in SUBSET Nat
      BY <1>1
    <3> QED
      BY <3>1, Least
  <2>2. CASE l = k
    <3>1. EntriesOf(k, k) = {} /\ Omit(refs, {}) = refs
      BY <1>1, <1>3, OmitNothing DEF EntriesOf
    <3>2. f[l] = nodes /\ Keeps(nodes, nodes)
      BY <1>6, <2>1, <2>2 DEF Keeps
    <3> QED
      BY <1>1, <1>5, <2>1, <2>2, <3>1, <3>2
  <2>3. CASE l # k
    <3> DEFINE held == Omit(refs, EntriesOf(k, l - 1))
               vec == chain[l].vec
    <3>1. /\ l - 1 \in k .. n /\ l \in 1 .. n /\ l - 1 \notin T /\ l \in k .. n
          /\ l \in Nat /\ l - 1 \in Nat /\ k + 1 <= l
      BY <1>1, <2>1, <2>3
    <3>2. IsRing(f[l - 1]) /\ Keeps(nodes, f[l - 1]) /\ Counted(f[l - 1], held)
      BY <3>1
    <3>3. AreRefs(held) /\ DOMAIN held = DOMAIN refs \ EntriesOf(k, l - 1)
      BY <1>3, OmitRefs
    <3>4. \A i \in Points : <<l, i>> \in DOMAIN held /\ held[<<l, i>>] = vec[i]
      <4> TAKE i \in Points
      <4>1. <<l, i>> \notin EntriesOf(k, l - 1)
        BY <3>1 DEF EntriesOf
      <4>2. <<l, i>> \in DOMAIN refs
        BY <1>3, <3>1
      <4> QED
        BY <1>4, <3>1, <3>3, <4>1, <4>2 DEF Omit
    <3>5. f[l] = clearvector(f[l - 1], vec)
      BY <1>6, <2>3, <3>1
    <3>6. EntriesOf(k, l) = EntriesOf(k, l - 1) \cup ({l} \X Points)
      BY <1>1, <3>1 DEF EntriesOf
    <3> HIDE DEF held, vec
    <3>7. Omit(held, {l} \X Points) = Omit(refs, EntriesOf(k, l))
      BY <3>6, OmitTwo DEF held
    <3>8. IsRing(f[l]) /\ Keeps(f[l - 1], f[l]) /\ Counted(f[l], Omit(held, {l} \X Points))
      BY <3>2, <3>3, <3>4, <3>5, ClearCounted
    <3>9. Keeps(nodes, f[l])
      BY <3>2, <3>8 DEF Keeps
    <3> QED
      BY <2>1, <3>7, <3>8, <3>9
  <2> QED
    BY <2>2, <2>3
<1>8. Left(n)
  BY <1>1, <1>7
<1> QED
  BY <1>2, <1>8 DEF refs

\* Min of a set of numbers is one of them.
LEMMA MinIn ==
  ASSUME NEW S \in SUBSET Nat, S # {}
  PROVE  Min(S) \in S
<1>1. PICK x \in S : \A y \in S : x <= y
  BY Least
<1> QED
  BY <1>1 DEF Min

\* Max of two numbers is the larger one.
LEMMA MaxOfTwo ==
  ASSUME NEW a \in Nat, NEW b \in Nat, NEW m, m = Max({a, b})
  PROVE  m \in Nat /\ a <= m /\ b <= m /\ (m = a \/ m = b)
<1> DEFINE P(x) == x \in {a, b} /\ \A y \in {a, b} : x >= y
<1>1. P(a) \/ P(b)
  OBVIOUS
<1>2. m = CHOOSE x \in {a, b} : \A y \in {a, b} : x >= y
  BY Zenon DEF Max
<1>3. P(m)
  BY <1>1, <1>2
<1> QED
  BY <1>3

\* Level l after levels 1 .. k were kept.
Made(chain, k, fix, l) ==
    IF l = k + 1 THEN [initschreier(fix[l]) EXCEPT !.orbits = chain[l].orbits]
    ELSE IF l <= Len(fix) + 1 THEN initschreier(IF l <= Len(fix) THEN fix[l] ELSE -1)
    ELSE [chain[l] EXCEPT !.vec = [i \in Points |-> NULL], !.pwr = [i \in Points |-> 0]]

\* A vector with nothing but its base point, or without that.
Cleared(v) == \A i \in Points : v.vec[i] \in {NULL, ID_PERMNODE}

\* initschreier: a level with nothing but its base point.
LEMMA NewLevel ==
  ASSUME NEW x \in -1 .. N - 1, NEW v, v = initschreier(x)
  PROVE  /\ IsLevel(v) /\ Cleared(v) /\ v.fixed = x
         /\ \A o : IsLevel([v EXCEPT !.orbits = o]) /\ Cleared([v EXCEPT !.orbits = o])
<1> DEFINE vec == [i \in Points |-> IF i = x THEN ID_PERMNODE ELSE NULL]
           pwr == [i \in Points |-> 0]
<1>1. v = [fixed |-> x, vec |-> vec, pwr |-> pwr, orbits |-> Identity]
  BY DEF initschreier
<1>2. vec \in [Points -> Int] /\ \A i \in Points : vec[i] \in {NULL, ID_PERMNODE} /\ vec[i] >= -1
  BY DEF NULL, ID_PERMNODE
<1> HIDE DEF vec, pwr
<1>3. \A o : [v EXCEPT !.orbits = o] = [fixed |-> x, vec |-> vec, pwr |-> pwr, orbits |-> o]
  BY <1>1
<1> QED
  BY <1>1, <1>2, <1>3 DEF IsLevel, Cleared

\* The levels that Rebase makes refer to no node, and the last has no base point.
LEMMA MadeLevel ==
  ASSUME NEW chain, NEW n, IsChain(chain, n), NEW fix \in Seq(Points),
         NEW k \in 0 .. Len(fix) - 1, k < n,
         NEW m, m = Max({n, Len(fix) + 1}), NEW l \in k + 1 .. m,
         NEW v, v = Made(chain, k, fix, l)
  PROVE  IsLevel(v) /\ Cleared(v) /\ (l = m => v.fixed = -1)
<1>1. n \in Nat /\ Len(fix) \in Nat
  BY DEF IsChain
<1>2. m \in Nat /\ n <= m /\ Len(fix) + 1 <= m /\ (m = n \/ m = Len(fix) + 1)
  BY <1>1, MaxOfTwo
<1>3. \A i \in 1 .. Len(fix) : fix[i] \in -1 .. N - 1
  BY NPositive
<1>4. -1 \in -1 .. N - 1
  BY NPositive
<1>5. CASE l = k + 1
  <2>1. v = [initschreier(fix[l]) EXCEPT !.orbits = chain[l].orbits]
    BY <1>5 DEF Made
  <2>2. l \in 1 .. Len(fix) /\ l # m
    BY <1>1, <1>2, <1>5
  <2>3. PICK w, o : w = initschreier(fix[l]) /\ o = chain[l].orbits
    OBVIOUS
  <2>4. IsLevel([w EXCEPT !.orbits = o]) /\ Cleared([w EXCEPT !.orbits = o])
    BY <1>3, <2>2, <2>3, NewLevel
  <2>5. v = [w EXCEPT !.orbits = o]
    BY <2>1, <2>3
  <2> QED
    BY <2>2, <2>4, <2>5
<1>6. CASE l # k + 1 /\ l <= Len(fix) + 1
  <2> DEFINE x == IF l <= Len(fix) THEN fix[l] ELSE -1
  <2>1. v = initschreier(x)
    BY <1>6 DEF Made
  <2>2. x \in -1 .. N - 1 /\ (l = m => x = -1)
    BY <1>1, <1>2, <1>3, <1>4
  <2> HIDE DEF x
  <2> QED
    BY <2>1, <2>2, NewLevel
<1>7. CASE l # k + 1 /\ ~ (l <= Len(fix) + 1)
  <2> DEFINE vec == [i \in Points |-> NULL]
             pwr == [i \in Points |-> 0]
  <2>1. v = [chain[l] EXCEPT !.vec = vec, !.pwr = pwr]
    BY <1>7 DEF Made
  <2>2. l \in 1 .. n /\ m = n
    BY <1>1, <1>2, <1>7
  <2>3. IsLevel(chain[l]) /\ (l = n => chain[l].fixed = -1)
    BY <2>2 DEF IsChain
  <2>4. vec \in [Points -> Int] /\ \A i \in Points : vec[i] = NULL /\ vec[i] >= -1
    BY DEF NULL
  <2> HIDE DEF vec, pwr
  <2>5. PICK old : old = chain[l]
    OBVIOUS
  <2>6. v = [fixed |-> old.fixed, vec |-> vec, pwr |-> pwr, orbits |-> old.orbits]
    BY <2>1, <2>3, <2>5 DEF IsLevel
  <2>7. old.fixed \in -1 .. N - 1 /\ (l = n => old.fixed = -1)
    BY <2>3, <2>5 DEF IsLevel
  <2>8. v = [fixed |-> v.fixed, vec |-> v.vec, pwr |-> v.pwr, orbits |-> v.orbits]
    BY <2>6
  <2>9. v.fixed = old.fixed /\ v.vec = vec
    BY <2>6
  <2>10. IsLevel(v)
    BY <2>4, <2>7, <2>8, <2>9 DEF IsLevel
  <2>11. Cleared(v)
    BY <2>4, <2>9 DEF Cleared
  <2> QED
    BY <2>2, <2>7, <2>9, <2>10, <2>11
<1> QED
  BY <1>5, <1>6, <1>7

\* Another base: the counts stay exact.
LEMMA RebaseCounted ==
  ASSUME NEW nodes, IsRing(nodes), NEW chain, NEW n, IsChain(chain, n),
         Counted(nodes, Refs(chain, n)), NEW fix \in Seq(Points),
         NEW k \in 0 .. Len(fix) - 1, k < n,
         NEW r, r = Rebase([ring |-> nodes, levels |-> chain], k, fix)
  PROVE  /\ \E m : IsRing(r.ring) /\ IsChain(r.levels, m) /\ Counted(r.ring, Refs(r.levels, m))
         /\ Keeps(nodes, r.ring)
<1>1. n \in Nat /\ Len(fix) \in Nat /\ Len(chain) = n /\ k \in Nat
  BY ChainRefs DEF IsChain
<1>2. PICK m : m = Max({n, Len(fix) + 1})
  OBVIOUS
<1>3. m \in Nat \ {0} /\ n <= m /\ k + 1 <= m
  BY <1>1, <1>2, MaxOfTwo
<1> DEFINE made == [l \in 1 .. m |-> IF l <= k THEN chain[l] ELSE Made(chain, k, fix, l)]
           left == ClearedFrom(nodes, chain, k)
<1>4. r.ring = left /\ r.levels = made
  BY <1>1, <1>2 DEF Rebase, Made
<1> HIDE DEF left
<1>5. \A l \in 1 .. k : made[l] = chain[l] /\ l \in 1 .. n
  BY <1>1, <1>3
<1>6. \A l \in k + 1 .. m : made[l] = Made(chain, k, fix, l)
  BY <1>1, <1>3
<1>7. made = [l \in 1 .. m |-> made[l]]
  OBVIOUS
<1> HIDE DEF made
<1>8. \A l \in k + 1 .. m : /\ IsLevel(made[l]) /\ Cleared(made[l])
                            /\ l = m => made[l].fixed = -1
  <2> TAKE l \in k + 1 .. m
  <2>1. PICK v : v = made[l]
    OBVIOUS
  <2>2. v = Made(chain, k, fix, l)
    BY <1>6, <2>1
  <2> QED
    BY <1>2, <2>1, <2>2, MadeLevel
<1>9. \A l \in 1 .. m : l \in 1 .. k \/ l \in k + 1 .. m
  BY <1>1, <1>3
<1>10. IsChain(made, m)
  <2>1. \A l \in 1 .. m : IsLevel(made[l])
    BY <1>5, <1>8, <1>9 DEF IsChain
  <2>2. m \in k + 1 .. m
    BY <1>1, <1>3
  <2> QED
    BY <1>3, <1>7, <1>8, <2>1, <2>2 DEF IsChain
<1> DEFINE kept == Omit(Refs(chain, n), EntriesOf(k, n))
<1>11. IsRing(left) /\ Keeps(nodes, left) /\ Counted(left, kept)
  BY <1>1, ClearedFromCounted DEF left
<1>12. AreRefs(Refs(made, m)) /\ DOMAIN Refs(made, m) = (1 .. m) \X Points
  BY <1>10, ChainRefs
<1>13. \A x \in Nat \ {0} : Uses(Refs(made, m), x) = Uses(kept, x)
  <2> TAKE x \in Nat \ {0}
  <2> DEFINE below == {s \in (1 .. k) \X Points : chain[s[1]].vec[s[2]] = x}
  <2>1. Uses(Refs(made, m), x) = below
    <3>1. \A s \in (1 .. m) \X Points : Refs(made, m)[s] = made[s[1]].vec[s[2]]
      BY DEF Refs
    <3>2. \A l \in k + 1 .. m : \A i \in Points : made[l].vec[i] # x
      BY <1>8 DEF Cleared, NULL, ID_PERMNODE
    <3>3. \A l \in 1 .. k : l \in 1 .. m
      BY <1>1, <1>3
    <3> QED
      BY <1>5, <1>9, <1>12, <3>1, <3>2, <3>3 DEF Uses
  <2>2. Uses(kept, x) = below
    <3>1. DOMAIN kept = (1 .. k) \X Points
      <4>1. DOMAIN kept = ((1 .. n) \X Points) \ ((k + 1 .. n) \X Points)
        <5>1. PICK refs : refs = Refs(chain, n)
          OBVIOUS
        <5>2. AreRefs(refs) /\ DOMAIN refs = (1 .. n) \X Points
          BY <5>1, ChainRefs
        <5>3. DOMAIN Omit(refs, EntriesOf(k, n)) = DOMAIN refs \ EntriesOf(k, n)
          BY <5>2, OmitRefs
        <5> QED
          BY <5>1, <5>2, <5>3 DEF EntriesOf
      <4>2. \A l : l \in 1 .. k <=> l \in 1 .. n /\ l \notin k + 1 .. n
        BY <1>1
      <4> QED
        BY <4>1, <4>2
    <3>2. \A s \in (1 .. k) \X Points : kept[s] = chain[s[1]].vec[s[2]]
      <4>1. \A s \in (1 .. k) \X Points : s \in (1 .. n) \X Points
        BY <1>5
      <4> QED
        BY <3>1, <4>1 DEF Omit, Refs
    <3> QED
      BY <3>1, <3>2 DEF Uses
  <2> QED
    BY <2>1, <2>2
<1> HIDE DEF kept
<1>14. Counted(left, Refs(made, m))
  BY <1>11, <1>12, <1>13, SameUses
<1> QED
  BY <1>4, <1>10, <1>11, <1>14

-----------------------------------------------------------------------------
(* Sharing *)

\* A new node has a place of its own, which nothing refers to.
LEMMA AddNode ==
  ASSUME NEW nodes, IsRing(nodes), NEW p, NEW mark \in BOOLEAN,
         NEW x, x = FreeNode(nodes), NEW more, more = addpermutation(nodes, p, mark)
  PROVE  /\ x \in Nat \ {0} /\ x \notin DOMAIN nodes
         /\ IsRing(more) /\ DOMAIN more = DOMAIN nodes \cup {x}
         /\ \A y \in DOMAIN nodes : more[y] = nodes[y]
         /\ more[x].refcount = 0 /\ more[x].p = p /\ more[x].mark = mark
<1> DEFINE c == Cardinality(DOMAIN nodes)
           free == 1 .. c + 1 \ DOMAIN nodes
<1>1. IsFiniteSet(DOMAIN nodes) /\ c \in Nat
  BY FS_CardinalityType DEF IsRing
<1>2. free # {}
  <2>1. IsFiniteSet(1 .. c + 1) /\ Cardinality(1 .. c + 1) = c + 1
    BY <1>1, FS_Interval
  <2>2. ~ (1 .. c + 1 \subseteq DOMAIN nodes)
    <3>1. 1 .. c + 1 \subseteq DOMAIN nodes => Cardinality(1 .. c + 1) <= c
      BY <1>1, FS_Subset
    <3> QED
      BY <1>1, <2>1, <3>1
  <2> QED
    BY <2>2
<1>3. x \in free
  <2>1. free \in SUBSET Nat
    BY <1>1
  <2>2. x = Min(free)
    BY DEF FreeNode
  <2> HIDE DEF free
  <2> QED
    BY <1>2, <2>1, <2>2, MinIn
<1>4. x \in Nat \ {0} /\ x \notin DOMAIN nodes
  BY <1>1, <1>3
<1> DEFINE node == [p |-> p, mark |-> mark, refcount |-> 0]
<1>5. more = [y \in DOMAIN nodes \cup {x} |-> IF y \in DOMAIN nodes THEN nodes[y] ELSE node]
  BY DEF addpermutation
<1>6. IsNode(node) /\ node.mark = mark /\ node.refcount = 0 /\ node.p = p
  BY DEF IsNode
<1> HIDE DEF node
<1>7. IsFiniteSet(DOMAIN nodes \cup {x})
  BY <1>1, FS_AddElement
<1>8. DOMAIN more = DOMAIN nodes \cup {x} /\ more = [y \in DOMAIN more |-> more[y]]
  BY <1>5
<1>9. more[x] = node /\ \A y \in DOMAIN nodes : more[y] = nodes[y]
  BY <1>4, <1>5
<1>10. DOMAIN nodes \subseteq Nat \ {0} /\ \A y \in DOMAIN nodes : IsNode(nodes[y])
  BY DEF IsRing
<1>11. \A y \in DOMAIN more : y \in Nat \ {0} /\ IsNode(more[y])
  BY <1>4, <1>6, <1>8, <1>9, <1>10
<1>12. IsFiniteSet(DOMAIN more)
  BY <1>7, <1>8
<1>13. IsRing(more)
  BY <1>8, <1>11, <1>12 DEF IsRing
<1>14. more[x].refcount = 0 /\ more[x].p = p /\ more[x].mark = mark
  BY <1>6, <1>9
<1> QED
  BY <1>4, <1>8, <1>9, <1>13, <1>14

\* A node that nothing refers to is kept when it is marked.
Holds(mark) == mark

Adds(more, nodes, p) == more = addpermutation(nodes, p, TRUE)

\* A marked node that nothing refers to may be added.
LEMMA AddCounted ==
  ASSUME NEW nodes, IsRing(nodes), NEW refs, AreRefs(refs), Counted(nodes, refs), NEW p,
         NEW more, Adds(more, nodes, p)
  PROVE  IsRing(more) /\ Counted(more, refs)
<1>1. PICK x : x = FreeNode(nodes)
  OBVIOUS
<1>2. PICK mark \in BOOLEAN : Holds(mark) /\ more = addpermutation(nodes, p, mark)
  BY Zenon DEF Adds, Holds
<1>3. /\ x \in Nat \ {0} /\ x \notin DOMAIN nodes
      /\ IsRing(more) /\ DOMAIN more = DOMAIN nodes \cup {x}
      /\ \A y \in DOMAIN nodes : more[y] = nodes[y]
      /\ more[x].refcount = 0
  BY <1>1, <1>2, AddNode
<1>4. more[x].mark
  BY <1>1, <1>2, <1>3 DEF addpermutation, Holds
<1>5. Uses(refs, x) = {}
  BY <1>3 DEF Uses, Counted
<1>6. Cardinality(Uses(refs, x)) = 0
  BY <1>5, FS_EmptySet
<1> QED
  BY <1>3, <1>4, <1>6 DEF Counted

\* Some empty places S come to refer to node x, to which nothing may refer before.
CountedBut(nodes, refs, x) ==
    /\ x \in DOMAIN nodes
    /\ \A y \in DOMAIN nodes :
           /\ nodes[y].refcount = Cardinality(Uses(refs, y))
           /\ y = x \/ nodes[y].mark \/ Uses(refs, y) # {}
    /\ \A s \in DOMAIN refs : refs[s] > 0 => refs[s] \in DOMAIN nodes

AreEmpty(S, refs) == S \in SUBSET DOMAIN refs /\ S # {} /\ \A s \in S : refs[s] = NULL

\* The count of x grows by the number of places that come to refer to it.
LEMMA ShareCounted ==
  ASSUME NEW nodes, IsRing(nodes), NEW refs, AreRefs(refs), NEW x,
         CountedBut(nodes, refs, x), NEW S, AreEmpty(S, refs),
         NEW more, more = [s \in DOMAIN refs |-> IF s \in S THEN x ELSE refs[s]],
         NEW count, count = Cardinality(S),
         NEW shared, shared = [nodes EXCEPT ![x].refcount = @ + count]
  PROVE  IsRing(shared) /\ AreRefs(more) /\ Counted(shared, more)
<1> USE DEF CountedBut, AreEmpty
<1>1. IsFiniteSet(S) /\ count \in Nat
  BY FS_Subset, FS_CardinalityType DEF AreRefs
<1>2. x \in Nat \ {0} /\ IsNode(nodes[x])
  BY DEF IsRing
<1>3. PICK old : old = nodes[x]
  OBVIOUS
<1> DEFINE node == [p |-> old.p, mark |-> old.mark, refcount |-> old.refcount + count]
<1>4. shared = [nodes EXCEPT ![x] = node]
  <2>1. node = [old EXCEPT !.refcount = @ + count]
    BY <1>2, <1>3 DEF IsNode
  <2> HIDE DEF node
  <2> QED
    BY <1>3, <2>1
<1>5. IsNode(node) /\ node.mark = old.mark /\ node.refcount = old.refcount + count
  BY <1>1, <1>2, <1>3 DEF IsNode
<1> HIDE DEF node
<1>6. DOMAIN shared = DOMAIN nodes
  BY <1>4
<1>7. \A y \in DOMAIN nodes : shared[y] = IF y = x THEN node ELSE nodes[y]
  BY <1>4
<1>8. IsRing(shared)
  BY <1>4, <1>5, <1>6, <1>7 DEF IsRing
<1>9. AreRefs(more) /\ DOMAIN more = DOMAIN refs
  BY <1>2 DEF AreRefs
<1>10. Uses(more, x) = Uses(refs, x) \cup S /\ Uses(refs, x) \cap S = {}
  BY <1>2 DEF Uses, NULL
<1>11. \A y \in DOMAIN nodes : y # x => Uses(more, y) = Uses(refs, y)
  BY DEF Uses, IsRing, NULL
<1>12. Cardinality(Uses(more, x)) = Cardinality(Uses(refs, x)) + count
  <2>1. IsFiniteSet(Uses(refs, x)) /\ Cardinality(Uses(refs, x)) \in Nat
    BY UsesFinite
  <2>2. Cardinality(Uses(refs, x) \cup S)
          = Cardinality(Uses(refs, x)) + Cardinality(S) - Cardinality(Uses(refs, x) \cap S)
    BY <1>1, <2>1, FS_Union
  <2>3. Cardinality(Uses(refs, x) \cap S) = 0
    BY <1>10, FS_EmptySet
  <2>4. Uses(more, x) = Uses(refs, x) \cup S
    BY <1>10
  <2>5. PICK a, b : a = Cardinality(Uses(refs, x)) /\ b = Cardinality(Uses(refs, x) \cap S)
    OBVIOUS
  <2>6. Cardinality(Uses(more, x)) = a + count - b
    BY <2>2, <2>4, <2>5
  <2>7. a \in Nat /\ b = 0
    BY <2>1, <2>3, <2>5
  <2> QED
    BY <1>1, <2>5, <2>6, <2>7
<1>13. Uses(more, x) # {}
  BY <1>10
<1>14. \A s \in DOMAIN more : more[s] = IF s \in S THEN x ELSE refs[s]
  OBVIOUS
<1>15. ASSUME NEW y \in DOMAIN shared
       PROVE  /\ shared[y].refcount = Cardinality(Uses(more, y))
              /\ shared[y].mark \/ Uses(more, y) # {}
  <2>1. CASE y = x
    BY <1>3, <1>5, <1>6, <1>7, <1>12, <1>13, <2>1
  <2>2. CASE y # x
    BY <1>6, <1>7, <1>11, <2>2
  <2> QED
    BY <2>1, <2>2
<1>16. \A s \in DOMAIN more : more[s] > 0 => more[s] \in DOMAIN shared
  BY <1>6, <1>9, <1>14
<1> QED
  BY <1>8, <1>9, <1>15, <1>16 DEF Counted

-----------------------------------------------------------------------------
(* filterschreier *)

\* What goes through the levels, with the node that holds it, if it has one.
IsFilter(t, n) ==
    /\ t = [ring |-> t.ring, levels |-> t.levels, w |-> t.w, curr |-> t.curr,
            ingroup |-> t.ingroup, changed |-> t.changed, stop |-> t.stop]
    /\ IsRing(t.ring) /\ IsChain(t.levels, n) /\ Counted(t.ring, Refs(t.levels, n))
    /\ t.curr = NULL \/ t.curr \in DOMAIN t.ring
    /\ t.ingroup \in BOOLEAN

\* A level of which other things change than the references.
LEMMA ReplaceLevel ==
  ASSUME NEW chain, NEW n, IsChain(chain, n), NEW l \in 1 .. n, NEW v, IsLevel(v),
         v.fixed = chain[l].fixed, NEW other, other = [chain EXCEPT ![l] = v]
  PROVE  /\ IsChain(other, n)
         /\ \A k \in 1 .. n : other[k] = IF k = l THEN v ELSE chain[k]
<1>1. n \in Nat \ {0} /\ chain = [k \in 1 .. n |-> chain[k]]
  BY DEF IsChain
<1>2. DOMAIN other = 1 .. n /\ \A k \in 1 .. n : other[k] = IF k = l THEN v ELSE chain[k]
  BY <1>1
<1>3. other = [k \in 1 .. n |-> other[k]]
  BY <1>1, <1>2
<1>4. \A k \in 1 .. n : IsLevel(other[k])
  BY <1>2 DEF IsChain
<1>5. other[n].fixed = -1
  BY <1>1, <1>2 DEF IsChain
<1> QED
  BY <1>1, <1>2, <1>3, <1>4, <1>5 DEF IsChain

\* A level that changes outside its vector refers to the same nodes.
LEMMA SameEntries ==
  ASSUME NEW chain, NEW n, NEW l \in 1 .. n, NEW v, v.vec = chain[l].vec, NEW other,
         \A k \in 1 .. n : other[k] = IF k = l THEN v ELSE chain[k]
  PROVE  Refs(other, n) = Refs(chain, n)
<1>1. \A k \in 1 .. n : other[k].vec = chain[k].vec
  OBVIOUS
<1> QED
  BY <1>1 DEF Refs

\* The orbits change no reference.
LEMMA JoinedFilter ==
  ASSUME NEW t, NEW n, IsFilter(t, n), NEW l \in 1 .. n, NEW o, NEW u, u = Joined(t, l, o)
  PROVE  IsFilter(u, n)
<1>1. PICK chain, old : chain = t.levels /\ old = chain[l]
  OBVIOUS
<1>2. IsChain(chain, n) /\ IsLevel(old)
  BY <1>1 DEF IsFilter, IsChain
<1> DEFINE v == [fixed |-> old.fixed, vec |-> old.vec, pwr |-> old.pwr, orbits |-> o]
           other == [chain EXCEPT ![l] = v]
           changed == t.changed \/ o # old.orbits
<1>3. v = [old EXCEPT !.orbits = o]
  BY <1>2 DEF IsLevel
<1>4. IsLevel(v) /\ v.fixed = old.fixed /\ v.vec = old.vec
  BY <1>2 DEF IsLevel
<1> HIDE DEF v
<1>5. l \in DOMAIN chain
  BY <1>2 DEF IsChain
<1>6. u = [t EXCEPT !.levels = other, !.changed = changed]
  BY <1>1, <1>3, <1>5 DEF Joined, IsFilter
<1>7. IsChain(other, n) /\ \A k \in 1 .. n : other[k] = IF k = l THEN v ELSE chain[k]
  BY <1>1, <1>2, <1>4, ReplaceLevel
<1> HIDE DEF other, changed
<1>8. Refs(other, n) = Refs(chain, n)
  BY <1>1, <1>4, <1>7, SameEntries
<1>9. /\ u.ring = t.ring /\ u.levels = other /\ u.curr = t.curr /\ u.ingroup = t.ingroup
      /\ u = [ring |-> u.ring, levels |-> u.levels, w |-> u.w, curr |-> u.curr,
              ingroup |-> u.ingroup, changed |-> u.changed, stop |-> u.stop]
  BY <1>6 DEF IsFilter
<1> QED
  BY <1>1, <1>7, <1>8, <1>9 DEF IsFilter

IsState(t) ==
    t = [ring |-> t.ring, levels |-> t.levels, w |-> t.w, curr |-> t.curr,
         ingroup |-> t.ingroup, changed |-> t.changed, stop |-> t.stop]

Extended(t, l, shared, more, pwr, x) ==
    [t EXCEPT !.ring = shared, !.levels[l].vec = more, !.levels[l].pwr = pwr,
              !.curr = x, !.ingroup = TRUE, !.changed = TRUE]

\* Known to be in the group.
InGroup(t) == t.ingroup

WithVector(chain, l, more, pwr) == [chain EXCEPT ![l].vec = more, ![l].pwr = pwr]

\* What the EXCEPT of ExtendVector changes.
LEMMA ChangeVector ==
  ASSUME NEW t, IsState(t), NEW chain, t.levels = chain,
         NEW l, NEW shared, NEW more, NEW pwr, NEW x, NEW u,
         u = Extended(t, l, shared, more, pwr, x)
  PROVE  /\ u.levels = WithVector(chain, l, more, pwr)
         /\ u.ring = shared /\ u.curr = x /\ u.ingroup \in BOOLEAN /\ InGroup(u)
         /\ u.w = t.w /\ u.stop = t.stop /\ IsState(u)
<1>1. u.levels = WithVector(chain, l, more, pwr)
  BY DEF IsState, Extended, WithVector
<1>2. /\ u.ring = shared /\ u.curr = x /\ u.ingroup \in BOOLEAN /\ InGroup(u)
      /\ u.w = t.w /\ u.stop = t.stop /\ IsState(u)
  BY DEF IsState, Extended, InGroup
<1> QED
  BY <1>1, <1>2

\* The points that come into the vector refer to the node of w.
LEMMA ExtendFilter ==
  ASSUME NEW t, NEW n, IsFilter(t, n), NEW l \in 1 .. n, NEW u, u = ExtendVector(t, l)
  PROVE  IsFilter(u, n)
<1>1. PICK chain, old, vec : chain = t.levels /\ old = chain[l] /\ vec = old.vec
  OBVIOUS
<1>2. /\ IsChain(chain, n) /\ IsLevel(old) /\ IsRing(t.ring) /\ Counted(t.ring, Refs(chain, n))
      /\ vec \in [Points -> Int] /\ n \in Nat /\ l \in DOMAIN chain
  BY <1>1 DEF IsFilter, IsChain, IsLevel
<1> DEFINE new == {j \in Points : vec[j] = NULL /\ Reach(vec, t.w, j) # {}}
           nodes == IF t.curr = NULL THEN addpermutation(t.ring, t.w, ~t.ingroup) ELSE t.ring
           x == IF t.curr = NULL THEN FreeNode(t.ring) ELSE t.curr
           count == Cardinality(new)
           more == [j \in Points |-> IF j \in new THEN x ELSE vec[j]]
           pwr == [j \in Points |-> IF j \in new THEN Min(Reach(vec, t.w, j)) ELSE old.pwr[j]]
           shared == [nodes EXCEPT ![x].refcount = @ + count]
           v == [fixed |-> old.fixed, vec |-> more, pwr |-> pwr, orbits |-> old.orbits]
           other == [chain EXCEPT ![l] = v]
<1>3. CASE new = {}
  <2>1. u = t
    BY <1>1, <1>3, Zenon DEF ExtendVector
  <2> QED
    BY <2>1
<1>4. CASE new # {}
  <2>1. u = Extended(t, l, shared, more, pwr, x)
    BY <1>1, <1>2, <1>4 DEF ExtendVector, IsFilter, IsLevel, Extended
  <2> HIDE DEF more, pwr, x, shared
  <2>2. [chain EXCEPT ![l].vec = more, ![l].pwr = pwr] = other
    BY <1>1, <1>2 DEF IsLevel
  <2>3. IsState(t)
    BY DEF IsFilter, IsState
  <2> HIDE DEF other
  <2>4. /\ u.ring = shared /\ u.levels = other /\ u.curr = x /\ u.ingroup \in BOOLEAN
        /\ IsState(u)
    <3>1. PICK more1, pwr1, x1, shared1 :
             more1 = more /\ pwr1 = pwr /\ x1 = x /\ shared1 = shared
      OBVIOUS
    <3>2. u = Extended(t, l, shared1, more1, pwr1, x1) /\ t.levels = chain
      BY <1>1, <2>1, <3>1
    <3>3. /\ u.levels = WithVector(chain, l, more1, pwr1)
          /\ u.ring = shared1 /\ u.curr = x1 /\ u.ingroup \in BOOLEAN
          /\ IsState(u)
      BY <2>3, <3>2, ChangeVector
    <3>4. u.levels = other
      BY <2>2, <3>1, <3>3 DEF WithVector
    <3> QED
      BY <3>1, <3>3, <3>4
  <2> DEFINE refs == Refs(chain, n)
             S == {l} \X new
  <2>5. AreRefs(refs) /\ DOMAIN refs = (1 .. n) \X Points
    BY <1>2, ChainRefs
  <2>6. \A k \in 1 .. n : \A j \in Points : refs[<<k, j>>] = chain[k].vec[j]
    BY DEF Refs
  <2>7. Counted(t.ring, refs)
    BY <1>2
  <2> HIDE DEF refs
  <2>8. IsRing(nodes) /\ CountedBut(nodes, refs, x)
    <3>1. CASE t.curr = NULL
      <4>1. PICK mark \in BOOLEAN : mark = ~t.ingroup
        OBVIOUS
      <4>2. nodes = addpermutation(t.ring, t.w, mark) /\ x = FreeNode(t.ring)
        BY <3>1, <4>1 DEF x
      <4> HIDE DEF nodes
      <4>3. /\ x \in Nat \ {0} /\ x \notin DOMAIN t.ring
            /\ IsRing(nodes) /\ DOMAIN nodes = DOMAIN t.ring \cup {x}
            /\ \A y \in DOMAIN t.ring : nodes[y] = t.ring[y]
            /\ nodes[x].refcount = 0
        BY <1>2, <4>2, AddNode
      <4>4. Uses(refs, x) = {}
        BY <2>7, <4>3 DEF Uses, Counted
      <4>5. Cardinality(Uses(refs, x)) = 0
        BY <4>4, FS_EmptySet
      <4> QED
        BY <2>7, <4>3, <4>5 DEF Counted, CountedBut
    <3>2. CASE t.curr # NULL
      <4>1. nodes = t.ring /\ x = t.curr /\ x \in DOMAIN t.ring
        BY <3>2 DEF x, IsFilter
      <4> QED
        BY <1>2, <2>7, <4>1 DEF Counted, CountedBut
    <3> QED
      BY <3>1, <3>2
  <2>9. AreEmpty(S, refs)
    <3>1. \A j \in new : refs[<<l, j>>] = NULL
      BY <1>1, <2>6
    <3>2. new \subseteq Points
      OBVIOUS
    <3>3. PICK j : j \in new
      BY <1>4
    <3> HIDE DEF new
    <3>4. <<l, j>> \in S
      BY <3>3
    <3> QED
      BY <2>5, <3>1, <3>2, <3>4 DEF AreEmpty
  <2>10. count = Cardinality(S)
    <3>1. IsFiniteSet(new)
      BY NPositive, FS_Subset
    <3>2. IsFiniteSet({l}) /\ Cardinality({l}) = 1
      BY FS_Singleton
    <3>3. Cardinality(S) = Cardinality({l}) * Cardinality(new) /\ Cardinality(new) \in Nat
      BY <3>1, <3>2, FS_Product, FS_CardinalityType
    <3> QED
      BY <3>2, <3>3
  <2> DEFINE after == [s \in DOMAIN refs |-> IF s \in S THEN x ELSE refs[s]]
  <2>11. shared = [nodes EXCEPT ![x].refcount = @ + count]
    BY DEF shared
  <2>12. x \in Nat \ {0} /\ \A j \in Points : more[j] = IF j \in new THEN x ELSE vec[j]
    BY <2>8 DEF IsRing, more, CountedBut
  <2>13. DOMAIN more = Points /\ more = [j \in Points |-> more[j]]
    BY DEF more
  <2>14. \A s : s \in S <=> s \in {l} \X new
    OBVIOUS
  <2>15. new \subseteq Points
    OBVIOUS
  <2> HIDE DEF S, count, nodes, new
  <2>16. IsRing(shared) /\ Counted(shared, after)
    <3>1. PICK refs1, S1, x1, after1, count1, shared1, nodes1 :
             /\ refs1 = refs /\ S1 = S /\ x1 = x /\ after1 = after /\ count1 = count
             /\ shared1 = shared /\ nodes1 = nodes
      OBVIOUS
    <3>2. after1 = [s \in DOMAIN refs1 |-> IF s \in S1 THEN x1 ELSE refs1[s]]
      BY <3>1
    <3> HIDE DEF after
    <3>3. AreRefs(refs1) /\ IsRing(nodes1) /\ CountedBut(nodes1, refs1, x1)
      BY <2>5, <2>8, <3>1
    <3>4. AreEmpty(S1, refs1)
      BY <2>9, <3>1
    <3>5. count1 = Cardinality(S1) /\ shared1 = [nodes1 EXCEPT ![x1].refcount = @ + count1]
      BY <2>10, <2>11, <3>1
    <3>6. IsRing(shared1) /\ Counted(shared1, after1)
      BY <3>2, <3>3, <3>4, <3>5, ShareCounted
    <3> QED
      BY <3>1, <3>6
  <2>17. more \in [Points -> Int] /\ \A j \in Points : more[j] >= -1
    BY <1>1, <1>2, <2>12, <2>13 DEF IsLevel
  <2>18. IsLevel(v) /\ v.fixed = chain[l].fixed /\ v.vec = more
    BY <1>1, <1>2, <2>17 DEF IsLevel
  <2> HIDE DEF v
  <2>19. IsChain(other, n) /\ \A k \in 1 .. n : other[k] = IF k = l THEN v ELSE chain[k]
    BY <1>2, <2>18, ReplaceLevel DEF other
  <2>20. Refs(other, n) = after
    <3>1. ASSUME NEW k \in 1 .. n, NEW j \in Points
          PROVE  other[k].vec[j] = after[<<k, j>>]
      <4>1. after[<<k, j>>] = IF <<k, j>> \in S THEN x ELSE chain[k].vec[j]
        BY <2>5, <2>6
      <4>2. CASE k = l
        BY <1>1, <2>12, <2>14, <2>18, <2>19, <4>1, <4>2
      <4>3. CASE k # l
        BY <2>14, <2>19, <4>1, <4>3
      <4> QED
        BY <4>2, <4>3
    <3>2. DOMAIN after = (1 .. n) \X Points /\ after = [s \in DOMAIN after |-> after[s]]
      BY <2>5
    <3> HIDE DEF after
    <3>3. \A s \in (1 .. n) \X Points : other[s[1]].vec[s[2]] = after[s]
      BY <3>1
    <3> QED
      BY <3>2, <3>3 DEF Refs
  <2>21. x \in DOMAIN shared
    BY <2>8, <2>11 DEF CountedBut
  <2> HIDE DEF after
  <2> QED
    BY <2>4, <2>16, <2>19, <2>20, <2>21 DEF IsFilter, IsState
<1> QED
  BY <1>3, <1>4

\* To follow the edges changes no reference.
LEMMA SiftFilter ==
  ASSUME NEW t, NEW n, IsFilter(t, n), NEW l, NEW u, u = Sift(t, l)
  PROVE  IsFilter(u, n)
<1>1. u = t \/ \E b : u = [t EXCEPT !.w = b, !.curr = NULL]
  BY Zenon DEF Sift
<1>2. ASSUME NEW b, u = [t EXCEPT !.w = b, !.curr = NULL] PROVE IsFilter(u, n)
  <2>1. /\ u.ring = t.ring /\ u.levels = t.levels /\ u.curr = NULL /\ u.ingroup = t.ingroup
        /\ u = [ring |-> u.ring, levels |-> u.levels, w |-> u.w, curr |-> u.curr,
                ingroup |-> u.ingroup, changed |-> u.changed, stop |-> u.stop]
    BY <1>2 DEF IsFilter
  <2> QED
    BY <2>1 DEF IsFilter
<1> QED
  BY <1>1, <1>2

\* To stop changes no reference.
LEMMA StopFilter ==
  ASSUME NEW t, NEW n, IsFilter(t, n), NEW u, u = [t EXCEPT !.stop = TRUE]
  PROVE  IsFilter(u, n)
<1>1. /\ u.ring = t.ring /\ u.levels = t.levels /\ u.curr = t.curr /\ u.ingroup = t.ingroup
      /\ u = [ring |-> u.ring, levels |-> u.levels, w |-> u.w, curr |-> u.curr,
              ingroup |-> u.ingroup, changed |-> u.changed, stop |-> u.stop]
  BY DEF IsFilter
<1> QED
  BY <1>1 DEF IsFilter

\* One level that has a base point, or none.
LEMMA VectorFilter ==
  ASSUME NEW t, NEW n, IsFilter(t, n), NEW l \in 1 .. n, NEW u, u = ThroughVector(t, l)
  PROVE  IsFilter(u, n)
<1>1. CASE t.levels[l].fixed < 0
  <2>1. u = [t EXCEPT !.stop = TRUE]
    BY <1>1, Zenon DEF ThroughVector
  <2> QED
    BY <2>1, StopFilter
<1>2. CASE ~ t.levels[l].fixed < 0
  <2>1. u = Sift(ExtendVector(t, l), l)
    BY <1>2, Zenon DEF ThroughVector, With
  <2>2. PICK v : v = ExtendVector(t, l)
    OBVIOUS
  <2>3. IsFilter(v, n)
    BY <2>2, ExtendFilter
  <2>4. u = Sift(v, l)
    BY <2>1, <2>2
  <2> QED
    BY <2>3, <2>4, SiftFilter
<1> QED
  BY <1>1, <1>2

\* One level.
LEMMA LevelFilter ==
  ASSUME NEW t, NEW n, IsFilter(t, n), NEW l \in 1 .. n, NEW u, u = FilterLevel(t, l)
  PROVE  IsFilter(u, n)
<1>1. u = [t EXCEPT !.stop = TRUE]
      \/ u = ThroughVector(Joined(t, l, JoinOrbits(t.levels[l].orbits, t.w)), l)
  BY Zenon DEF FilterLevel, With
<1>2. CASE u = [t EXCEPT !.stop = TRUE]
  BY <1>2, StopFilter
<1>3. CASE u = ThroughVector(Joined(t, l, JoinOrbits(t.levels[l].orbits, t.w)), l)
  <2>1. PICK o : o = JoinOrbits(t.levels[l].orbits, t.w)
    OBVIOUS
  <2>2. PICK v : v = Joined(t, l, o)
    OBVIOUS
  <2>3. IsFilter(v, n)
    BY <2>2, JoinedFilter
  <2>4. u = ThroughVector(v, l)
    BY <1>3, <2>1, <2>2
  <2> QED
    BY <2>3, <2>4, VectorFilter
<1> QED
  BY <1>1, <1>2, <1>3

FiltersTo(f, t, n) == f = [l \in 0 .. n |-> IF l = 0 THEN t ELSE FilterLevel(f[l - 1], l)]

\* The function that Filtered recurses by exists for every number of levels.
LEMMA FiltersExist ==
  ASSUME NEW t, NEW n \in Nat
  PROVE  \E f : FiltersTo(f, t, n)
<1> DEFINE T == {m \in Nat : ~ \E f : FiltersTo(f, t, m)}
<1> SUFFICES ASSUME T # {} PROVE FALSE
  OBVIOUS
<1>1. PICK m \in T : \A y \in T : m <= y
  BY Least
<1>2. CASE m = 0
  <2> DEFINE f == [l \in 0 .. 0 |-> t]
  <2>1. f = [l \in 0 .. m |-> IF l = 0 THEN t ELSE FilterLevel(f[l - 1], l)]
    BY <1>2
  <2> QED
    BY <2>1, <1>1 DEF FiltersTo
<1>3. CASE m # 0
  <2>1. m - 1 \in Nat /\ m - 1 \notin T
    BY <1>3, <1>1
  <2>2. PICK f : f = [l \in 0 .. m - 1 |-> IF l = 0 THEN t ELSE FilterLevel(f[l - 1], l)]
    BY <2>1 DEF FiltersTo
  <2> DEFINE g == [l \in 0 .. m |-> IF l = m THEN FilterLevel(f[m - 1], m) ELSE f[l]]
  <2>3. \A l \in 0 .. m : g[l] = IF l = 0 THEN t ELSE FilterLevel(g[l - 1], l)
    <3> TAKE l \in 0 .. m
    <3>1. CASE l = m
      BY <2>1, <3>1, <1>3, <1>1
    <3>2. CASE l # m
      <4>1. l \in 0 .. m - 1
        BY <3>2, <1>1
      <4>2. f[l] = IF l = 0 THEN t ELSE FilterLevel(f[l - 1], l)
        BY <4>1, <2>2
      <4> QED
        BY <4>1, <4>2
    <3> QED
      BY <3>1, <3>2
  <2>4. g = [l \in 0 .. m |-> IF l = 0 THEN t ELSE FilterLevel(g[l - 1], l)]
    BY <2>3
  <2> QED
    BY <2>4, <1>1 DEF FiltersTo
<1> QED
  BY <1>2, <1>3

Started(nodes, chain, p, ingroup) ==
    [ring |-> nodes, levels |-> chain, w |-> p, curr |-> NULL,
     ingroup |-> ingroup, changed |-> FALSE, stop |-> FALSE]

\* Filtered is its last value.
LEMMA FilteredIsLast ==
  ASSUME NEW nodes, NEW chain, NEW p, NEW ingroup, Len(chain) \in Nat,
         NEW t, t = Started(nodes, chain, p, ingroup)
  PROVE  \E f : /\ FiltersTo(f, t, Len(chain))
                /\ Filtered(nodes, chain, p, ingroup) = f[Len(chain)]
<1> DEFINE G(f) == [l \in 0 .. Len(chain) |->
                       IF l = 0
                       THEN [ring |-> nodes, levels |-> chain, w |-> p, curr |-> NULL,
                             ingroup |-> ingroup, changed |-> FALSE, stop |-> FALSE]
                       ELSE With(f[l - 1], LAMBDA s : FilterLevel(s, l))]
           H(f) == [l \in 0 .. Len(chain) |-> IF l = 0 THEN t ELSE FilterLevel(f[l - 1], l)]
           f == CHOOSE f : f = H(f)
<1>1. ASSUME NEW h PROVE G(h) = H(h)
  BY Zenon DEF With, Started
<1>2. \A h : FiltersTo(h, t, Len(chain)) <=> h = H(h)
  BY Zenon DEF FiltersTo
<1>3. Filtered(nodes, chain, p, ingroup) = (CHOOSE h : h = G(h))[Len(chain)]
  BY Zenon DEF Filtered
<1> HIDE DEF G, H
<1>4. (CHOOSE h : h = G(h)) = f
  BY <1>1, Zenon
<1>5. \E h : h = H(h)
  BY <1>2, FiltersExist
<1>6. f = H(f)
  BY <1>5, Zenon
<1> HIDE DEF f
<1> QED
  BY <1>2, <1>3, <1>4, <1>6, Zenon

\* All levels.
LEMMA FilteredIsFilter ==
  ASSUME NEW nodes, IsRing(nodes), NEW chain, NEW n, IsChain(chain, n),
         Counted(nodes, Refs(chain, n)), NEW p, NEW ingroup \in BOOLEAN,
         NEW t, t = Filtered(nodes, chain, p, ingroup)
  PROVE  IsFilter(t, n)
<1>1. n \in Nat /\ Len(chain) = n
  BY ChainRefs DEF IsChain
<1>2. PICK s : s = Started(nodes, chain, p, ingroup)
  OBVIOUS
<1>3. PICK f : FiltersTo(f, s, n) /\ t = f[n]
  BY <1>1, <1>2, FilteredIsLast
<1>4. IsFilter(s, n)
  BY <1>2 DEF Started, IsFilter
<1> DEFINE T == {l \in 0 .. n : ~ IsFilter(f[l], n)}
<1>5. \A l \in 0 .. n : f[l] = IF l = 0 THEN s ELSE FilterLevel(f[l - 1], l)
  BY <1>3 DEF FiltersTo
<1>6. T = {}
  <2> SUFFICES ASSUME T # {} PROVE FALSE
    OBVIOUS
  <2>1. PICK l \in T : \A y \in T : l <= y
    <3>1. T \in SUBSET Nat
      BY <1>1
    <3> QED
      BY <3>1, Least
  <2>2. CASE l = 0
    BY <1>4, <1>5, <2>1, <2>2
  <2>3. CASE l # 0
    <3>1. l \in 1 .. n /\ l - 1 \in 0 .. n /\ l - 1 \notin T
      BY <1>1, <2>1, <2>3
    <3>2. IsFilter(f[l - 1], n)
      BY <3>1
    <3>3. f[l] = FilterLevel(f[l - 1], l)
      BY <1>5, <2>1, <2>3
    <3>4. PICK a, b : a = f[l - 1] /\ b = f[l]
      OBVIOUS
    <3>5. IsFilter(a, n) /\ b = FilterLevel(a, l)
      BY <3>2, <3>3, <3>4
    <3>6. IsFilter(b, n)
      BY <3>1, <3>5, LevelFilter
    <3> QED
      BY <2>1, <3>4, <3>6
  <2> QED
    BY <2>2, <2>3
<1> QED
  BY <1>1, <1>3, <1>6

\* filterschreier keeps the counts exact.
LEMMA FilterCounted ==
  ASSUME NEW nodes, IsRing(nodes), NEW chain, NEW n, IsChain(chain, n),
         Counted(nodes, Refs(chain, n)), NEW p, NEW ingroup \in BOOLEAN,
         NEW r, r = filterschreier(nodes, chain, p, ingroup)
  PROVE  IsRing(r.ring) /\ IsChain(r.levels, n) /\ Counted(r.ring, Refs(r.levels, n))
<1>1. PICK t : t = Filtered(nodes, chain, p, ingroup)
  OBVIOUS
<1>2. IsFilter(t, n)
  BY <1>1, FilteredIsFilter
<1>3. r = Outcome(t, p)
  <2>1. r = Outcome(Filtered(nodes, chain, p, ingroup), p)
    BY Zenon DEF filterschreier, With
  <2> QED
    BY <1>1, <2>1, Zenon
<1>4. r.levels = t.levels /\ (r.ring = t.ring \/ Adds(r.ring, t.ring, p))
  <2>1. \E more, changed : /\ more = t.ring \/ Adds(more, t.ring, p)
                           /\ r = [ring |-> more, levels |-> t.levels, changed |-> changed]
    BY <1>3, Zenon DEF Outcome, Adds
  <2> QED
    BY <2>1
<1>5. /\ IsRing(t.ring) /\ IsChain(t.levels, n) /\ Counted(t.ring, Refs(t.levels, n))
  BY <1>2 DEF IsFilter
<1>6. AreRefs(Refs(t.levels, n))
  BY <1>5, ChainRefs
<1>7. CASE r.ring = t.ring
  BY <1>4, <1>5, <1>7
<1>8. CASE Adds(r.ring, t.ring, p)
  <2>1. PICK refs, old, new : refs = Refs(t.levels, n) /\ old = t.ring /\ new = r.ring
    OBVIOUS
  <2>2. IsRing(old) /\ AreRefs(refs) /\ Counted(old, refs) /\ Adds(new, old, p)
    BY <1>5, <1>6, <1>8, <2>1
  <2>3. IsRing(new) /\ Counted(new, refs)
    BY <2>2, AddCounted
  <2> QED
    BY <1>4, <1>5, <2>1, <2>3
<1> QED
  BY <1>4, <1>7, <1>8

-----------------------------------------------------------------------------
(* Permutations *)

\* p after p, k times: a function that holds all of them.
PowersTo(f, wp, p, k) == f = [i \in 0 .. k |-> IF i = 0 THEN wp ELSE Then(f[i - 1], p)]

\* The function that applyperm recurses by exists for every power.
LEMMA PowersExist ==
  ASSUME NEW wp, NEW p, NEW k \in Nat
  PROVE  \E f : PowersTo(f, wp, p, k)
<1> DEFINE T == {m \in Nat : ~ \E f : PowersTo(f, wp, p, m)}
<1> SUFFICES ASSUME T # {} PROVE FALSE
  OBVIOUS
<1>1. PICK m \in T : \A y \in T : m <= y
  BY Least
<1>2. CASE m = 0
  <2> DEFINE f == [i \in 0 .. 0 |-> wp]
  <2>1. f = [i \in 0 .. m |-> IF i = 0 THEN wp ELSE Then(f[i - 1], p)]
    BY <1>2
  <2> QED
    BY <2>1, <1>1 DEF PowersTo
<1>3. CASE m # 0
  <2>1. m - 1 \in Nat /\ m - 1 \notin T
    BY <1>3, <1>1
  <2>2. PICK f : f = [i \in 0 .. m - 1 |-> IF i = 0 THEN wp ELSE Then(f[i - 1], p)]
    BY <2>1 DEF PowersTo
  <2> DEFINE g == [i \in 0 .. m |-> IF i = m THEN Then(f[m - 1], p) ELSE f[i]]
  <2>3. \A i \in 0 .. m : g[i] = IF i = 0 THEN wp ELSE Then(g[i - 1], p)
    <3> TAKE i \in 0 .. m
    <3>1. CASE i = m
      BY <2>1, <3>1, <1>3, <1>1
    <3>2. CASE i # m
      <4>1. i \in 0 .. m - 1
        BY <3>2, <1>1
      <4>2. f[i] = IF i = 0 THEN wp ELSE Then(f[i - 1], p)
        BY <4>1, <2>2
      <4> QED
        BY <4>1, <4>2
    <3> QED
      BY <3>1, <3>2
  <2>4. g = [i \in 0 .. m |-> IF i = 0 THEN wp ELSE Then(g[i - 1], p)]
    BY <2>3
  <2> QED
    BY <2>4, <1>1 DEF PowersTo
<1> QED
  BY <1>2, <1>3

\* applyperm is its last value.
LEMMA PowerIsLast ==
  ASSUME NEW wp, NEW p, NEW k \in Nat
  PROVE  \E f : PowersTo(f, wp, p, k) /\ applyperm(wp, p, k) = f[k]
<1> DEFINE f == CHOOSE f : f = [i \in 0 .. k |-> IF i = 0 THEN wp ELSE Then(f[i - 1], p)]
<1>1. PowersTo(f, wp, p, k)
  BY PowersExist DEF PowersTo
<1>2. applyperm(wp, p, k) = f[k]
  BY DEF applyperm
<1> QED
  BY <1>1, <1>2

\* Its values, one by one.
LEMMA PowersAt ==
  ASSUME NEW f, NEW wp, NEW p, NEW k \in Nat, PowersTo(f, wp, p, k)
  PROVE  f[0] = wp /\ \A i \in 1 .. k : i - 1 \in 0 .. k /\ f[i] = Then(f[i - 1], p)
BY DEF PowersTo

\* One permutation after another is a permutation.
LEMMA ThenAt ==
  ASSUME NEW p \in Perms, NEW q \in Perms
  PROVE  Then(p, q) \in Perms /\ \A i \in Points : Then(p, q)[i] = q[p[i]]
BY DEF Then, Perms

\* The identity is a permutation that moves nothing.
LEMMA IdentityAt == Identity \in Perms /\ \A i \in Points : Identity[i] = i
BY DEF Identity, Perms

\* The powers of p are permutations, that move the points by way of each other.
LEMMA Powers ==
  ASSUME NEW w \in Perms, NEW p \in Perms, NEW k \in Nat, NEW f, PowersTo(f, w, p, k)
  PROVE  /\ \A i \in 0 .. k : f[i] \in Perms
         /\ \A i \in 1 .. k : \A x \in Points : f[i][x] = p[f[i - 1][x]]
<1>1. f[0] = w /\ \A i \in 1 .. k : i - 1 \in 0 .. k /\ f[i] = Then(f[i - 1], p)
  BY PowersAt
<1> DEFINE T == {i \in 0 .. k : f[i] \notin Perms}
<1>2. T = {}
  <2> SUFFICES ASSUME T # {} PROVE FALSE
    OBVIOUS
  <2>1. PICK i \in T : \A y \in T : i <= y
    <3>1. T \in SUBSET Nat
      OBVIOUS
    <3> QED
      BY <3>1, Least
  <2>2. i # 0
    BY <1>1, <2>1
  <2>3. i \in 1 .. k /\ i - 1 \in 0 .. k /\ i - 1 \notin T
    BY <2>1, <2>2
  <2>4. f[i - 1] \in Perms
    BY <2>3
  <2>5. f[i] \in Perms
    BY <1>1, <2>3, <2>4, ThenAt
  <2> QED
    BY <2>1, <2>5
<1>3. \A i \in 0 .. k : f[i] \in Perms
  BY <1>2
<1> QED
  BY <1>1, <1>3, ThenAt

\* applyperm by the one before.
LEMMA applypermNext ==
  ASSUME NEW w \in Perms, NEW p \in Perms, NEW k \in Nat
  PROVE  /\ applyperm(w, p, k) \in Perms
         /\ applyperm(w, p, 0) = w
         /\ \A x \in Points : applyperm(w, p, k + 1)[x] = p[applyperm(w, p, k)[x]]
<1>1. ASSUME NEW m \in Nat PROVE applyperm(w, p, m) \in Perms
  <2>1. PICK f : PowersTo(f, w, p, m) /\ applyperm(w, p, m) = f[m]
    BY PowerIsLast
  <2> QED
    BY <2>1, Powers
<1>2. applyperm(w, p, 0) = w
  <2>1. PICK f : PowersTo(f, w, p, 0) /\ applyperm(w, p, 0) = f[0]
    BY PowerIsLast
  <2> QED
    BY <2>1, PowersAt
<1>3. PICK f : PowersTo(f, w, p, k) /\ applyperm(w, p, k) = f[k]
  BY PowerIsLast
<1>4. PICK g : PowersTo(g, w, p, k + 1) /\ applyperm(w, p, k + 1) = g[k + 1]
  BY PowerIsLast
<1> DEFINE T == {i \in 0 .. k : f[i] # g[i]}
<1>5. T = {}
  <2> SUFFICES ASSUME T # {} PROVE FALSE
    OBVIOUS
  <2>1. PICK i \in T : \A y \in T : i <= y
    <3>1. T \in SUBSET Nat
      OBVIOUS
    <3> QED
      BY <3>1, Least
  <2>2. f[0] = w /\ g[0] = w
    BY <1>3, <1>4, PowersAt
  <2>3. i \in 1 .. k /\ i \in 1 .. k + 1 /\ i - 1 \notin T /\ i - 1 \in 0 .. k
    BY <2>1, <2>2
  <2>4. f[i] = Then(f[i - 1], p)
    BY <1>3, <2>3, PowersAt
  <2>5. g[i] = Then(g[i - 1], p)
    BY <1>4, <2>3, PowersAt
  <2> QED
    BY <2>1, <2>3, <2>4, <2>5
<1>6. g[k] = f[k]
  BY <1>5
<1>7. k + 1 \in 1 .. k + 1 /\ k + 1 - 1 = k /\ k + 1 \in Nat
  OBVIOUS
<1>8. \A x \in Points : g[k + 1][x] = p[g[k][x]]
  <2>1. \A i \in 1 .. k + 1 : \A x \in Points : g[i][x] = p[g[i - 1][x]]
    BY <1>4, <1>7, Powers
  <2> QED
    BY <1>7, <2>1
<1> QED
  BY <1>1, <1>2, <1>3, <1>4, <1>6, <1>8

\* Each point goes its own way, whatever it comes from.
LEMMA applypermAt ==
  ASSUME NEW w \in Perms, NEW p \in Perms, NEW k \in Nat, NEW x \in Points
  PROVE  applyperm(w, p, k)[x] = applyperm(Identity, p, k)[w[x]]
<1> DEFINE T == {i \in Nat : applyperm(w, p, i)[x] # applyperm(Identity, p, i)[w[x]]}
<1>1. w[x] \in Points
  BY DEF Perms
<1>2. T = {}
  <2> SUFFICES ASSUME T # {} PROVE FALSE
    OBVIOUS
  <2>1. PICK i \in T : \A y \in T : i <= y
    BY Least
  <2>2. i # 0
    <3>1. applyperm(w, p, 0)[x] = w[x]
      BY applypermNext
    <3>2. applyperm(Identity, p, 0)[w[x]] = w[x]
      BY <1>1, applypermNext, IdentityAt
    <3> QED
      BY <2>1, <3>1, <3>2
  <2>3. PICK j \in Nat : i = j + 1 /\ j \notin T
    <3>1. i - 1 \in Nat /\ i = (i - 1) + 1 /\ i - 1 \notin T
      BY <2>1, <2>2
    <3> QED
      BY <3>1
  <2>4. applyperm(w, p, j + 1)[x] = p[applyperm(w, p, j)[x]]
    BY applypermNext
  <2>5. applyperm(Identity, p, j + 1)[w[x]] = p[applyperm(Identity, p, j)[w[x]]]
    BY <1>1, applypermNext, IdentityAt
  <2>6. applyperm(w, p, j)[x] = applyperm(Identity, p, j)[w[x]]
    BY <2>3
  <2> QED
    BY <2>1, <2>3, <2>4, <2>5, <2>6
<1> QED
  BY <1>2

\* A point that p does not move stays.
LEMMA applypermFixes ==
  ASSUME NEW w \in Perms, NEW p \in Perms, NEW k \in Nat, NEW x \in Points,
         p[x] = x, w[x] = x
  PROVE  applyperm(w, p, k)[x] = x
<1> DEFINE T == {i \in Nat : applyperm(w, p, i)[x] # x}
<1>1. T = {}
  <2> SUFFICES ASSUME T # {} PROVE FALSE
    OBVIOUS
  <2>1. PICK i \in T : \A y \in T : i <= y
    BY Least
  <2>2. i # 0
    BY <2>1, applypermNext
  <2>3. PICK j \in Nat : i = j + 1 /\ j \notin T
    <3>1. i - 1 \in Nat /\ i = (i - 1) + 1 /\ i - 1 \notin T
      BY <2>1, <2>2
    <3> QED
      BY <3>1
  <2>4. applyperm(w, p, j + 1)[x] = p[applyperm(w, p, j)[x]]
    BY applypermNext
  <2> QED
    BY <2>1, <2>3, <2>4
<1> QED
  BY <1>1

\* A point comes back after N steps at most.
LEMMA Returns ==
  ASSUME NEW w \in Perms, NEW x \in Points, w[x] # x
  PROVE  \E k \in 1 .. N : applyperm(Identity, w, k)[w[x]] = x
<1> DEFINE q(k) == IF k = 0 THEN x ELSE applyperm(Identity, w, k - 1)[w[x]]
           f == [k \in 0 .. N |-> q(k)]
           T == {c \in Nat : \E d \in 0 .. N : c < d /\ q(c) = q(d)}
<1>1. N \in Nat /\ IsFiniteSet(Points) /\ Cardinality(Points) = N
  BY NPositive, FS_Interval DEF Points
<1>2. w \in [Points -> Points] /\ \A i, j \in Points : w[i] = w[j] => i = j
  BY DEF Perms
<1>3. ASSUME NEW k \in Nat PROVE q(k) \in Points /\ q(k + 1) = w[q(k)]
  <2>1. CASE k = 0
    <3>1. q(0 + 1) = applyperm(Identity, w, 0)[w[x]]
      OBVIOUS
    <3>2. applyperm(Identity, w, 0) = Identity
      BY applypermNext, IdentityAt
    <3> QED
      BY <1>2, <2>1, <3>1, <3>2, IdentityAt
  <2>2. CASE k # 0
    <3>1. PICK e \in Nat : k = e + 1
      <4>1. k - 1 \in Nat /\ k = (k - 1) + 1
        BY <2>2
      <4> QED
        BY <4>1
    <3>2. q(k) = applyperm(Identity, w, e)[w[x]] /\ q(k + 1) = applyperm(Identity, w, e + 1)[w[x]]
      BY <3>1
    <3>3. applyperm(Identity, w, e) \in Perms
      BY applypermNext, IdentityAt
    <3>4. applyperm(Identity, w, e + 1)[w[x]] = w[applyperm(Identity, w, e)[w[x]]]
      BY <1>2, applypermNext, IdentityAt
    <3> QED
      BY <1>2, <3>2, <3>3, <3>4 DEF Perms
  <2> QED
    BY <2>1, <2>2
<1> HIDE DEF q
<1>4. T # {}
  <2>1. f \in [0 .. N -> Points]
    BY <1>3
  <2>2. IsFiniteSet(0 .. N) /\ Cardinality(0 .. N) = N + 1
    BY <1>1, FS_Interval
  <2>3. Cardinality(Points) < Cardinality(0 .. N)
    BY <1>1, <2>2
  <2>4. PICK a, b \in 0 .. N : a # b /\ f[a] = f[b]
    <3> HIDE DEF f
    <3> QED
      BY <1>1, <2>1, <2>2, <2>3, FS_PigeonHole
  <2>5. a < b \/ b < a
    BY <1>1, <2>4
  <2>6. q(a) = q(b)
    BY <2>4
  <2> QED
    BY <1>1, <2>4, <2>5, <2>6
<1>5. PICK c \in T : \A y \in T : c <= y
  <2>1. T \in SUBSET Nat
    OBVIOUS
  <2> HIDE DEF T
  <2> QED
    BY <1>4, <2>1, Least
<1>6. PICK d \in 0 .. N : c < d /\ q(c) = q(d)
  BY <1>5
<1>7. c = 0
  <2> SUFFICES ASSUME c # 0 PROVE FALSE
    OBVIOUS
  <2>1. c - 1 \in Nat /\ d - 1 \in Nat /\ d - 1 \in 0 .. N /\ c - 1 < d - 1
        /\ c = (c - 1) + 1 /\ d = (d - 1) + 1
    BY <1>1, <1>5, <1>6
  <2>2. PICK a \in Nat, b \in Nat : a = c - 1 /\ b = d - 1
    BY <2>1
  <2>3. q(a) \in Points /\ q(c) = w[q(a)] /\ q(b) \in Points /\ q(d) = w[q(b)]
    BY <1>3, <2>1, <2>2
  <2>4. q(a) = q(b)
    BY <1>2, <1>6, <2>3
  <2>5. a \in T
    BY <2>1, <2>2, <2>4
  <2> QED
    BY <1>5, <2>1, <2>2, <2>5
<1>8. d \in 1 .. N /\ q(0) = x
  BY <1>1, <1>6, <1>7 DEF q
<1>9. applyperm(Identity, w, d - 1)[w[x]] = x
  BY <1>6, <1>7, <1>8 DEF q
<1>10. d - 1 # 0
  <2>1. ASSUME d - 1 = 0 PROVE FALSE
    <3>1. applyperm(Identity, w, 0) = Identity
      BY applypermNext, IdentityAt
    <3>2. Identity[w[x]] = w[x]
      BY <1>2, IdentityAt
    <3> QED
      BY <1>9, <2>1, <3>1, <3>2
  <2> QED
    BY <2>1
<1>11. d - 1 \in 1 .. N
  BY <1>1, <1>8, <1>10
<1> QED
  BY <1>9, <1>11

-----------------------------------------------------------------------------
(* Where the edges of a vector lead *)

Tree(level) == {i \in Points : level.vec[i] > 0}
Held(level) == {i \in Points : level.vec[i] # NULL}

\* The edges lead from each entry to another and out of every set of entries, so in the end
\* to the base point, and none of them moves a point of B.
Leads(nodes, level, B) ==
    /\ level.fixed \in Points /\ level.vec[level.fixed] = ID_PERMNODE
    /\ \A i \in Points : level.vec[i] = ID_PERMNODE => i = level.fixed
    /\ \A i \in Tree(level) :
           /\ nodes[level.vec[i]].p \in Perms /\ level.pwr[i] \in Nat
           /\ Edge(nodes, level, i)[i] \in Held(level)
           /\ \A b \in B : Edge(nodes, level, i)[b] = b
    /\ \A S \in SUBSET Tree(level) : S # {} => \E i \in S : Edge(nodes, level, i)[i] \notin S

\* The base point is the one entry that no edge leaves.
LEMMA EntryOf ==
  ASSUME NEW nodes, NEW level, IsLevel(level), NEW B, Leads(nodes, level, B)
  PROVE  /\ Held(level) = Tree(level) \cup {level.fixed} /\ level.fixed \notin Tree(level)
         /\ level.fixed \in Points
BY DEF Leads, IsLevel, Held, Tree, NULL, ID_PERMNODE

\* What edges do depends on the vector and on the permutations it refers to.
LEMMA LeadsSame ==
  ASSUME NEW nodes, NEW more, NEW level, NEW other, NEW B, Leads(nodes, level, B),
         other.fixed = level.fixed, other.vec = level.vec, other.pwr = level.pwr,
         \A i \in Tree(level) : more[level.vec[i]].p = nodes[level.vec[i]].p
  PROVE  Leads(more, other, B)
<1>1. Tree(other) = Tree(level) /\ Held(other) = Held(level)
  BY DEF Tree, Held
<1>2. \A i \in Tree(level) : Edge(more, other, i) = Edge(nodes, level, i)
  BY DEF Edge
<1> QED
  BY <1>1, <1>2 DEF Leads

\* A vector with nothing but its base point.
LEMMA NewLeads ==
  ASSUME NEW nodes, NEW level, level.fixed \in Points, NEW B,
         \A i \in Points : level.vec[i] = IF i = level.fixed THEN ID_PERMNODE ELSE NULL
  PROVE  Leads(nodes, level, B)
<1>1. Tree(level) = {}
  BY DEF Tree, NULL, ID_PERMNODE
<1> QED
  BY <1>1 DEF Leads, NULL, ID_PERMNODE

\* The points that come to the base point in up to k steps.
WithinTo(f, nodes, level, n) ==
    f = [k \in 0 .. n |-> IF k = 0 THEN {level.fixed} ELSE Leading(nodes, level, f[k - 1])]

\* The function that Rooted recurses by exists for every number of steps.
LEMMA WithinExists ==
  ASSUME NEW nodes, NEW level, NEW n \in Nat
  PROVE  \E f : WithinTo(f, nodes, level, n)
<1> DEFINE T == {m \in Nat : ~ \E f : WithinTo(f, nodes, level, m)}
<1> SUFFICES ASSUME T # {} PROVE FALSE
  OBVIOUS
<1>1. PICK m \in T : \A y \in T : m <= y
  BY Least
<1>2. CASE m = 0
  <2> DEFINE f == [k \in 0 .. 0 |-> {level.fixed}]
  <2>1. f = [k \in 0 .. m |-> IF k = 0 THEN {level.fixed} ELSE Leading(nodes, level, f[k - 1])]
    BY <1>2
  <2> QED
    BY <2>1, <1>1 DEF WithinTo
<1>3. CASE m # 0
  <2>1. m - 1 \in Nat /\ m - 1 \notin T
    BY <1>3, <1>1
  <2>2. PICK f : f = [k \in 0 .. m - 1 |-> IF k = 0 THEN {level.fixed} ELSE Leading(nodes, level, f[k - 1])]
    BY <2>1 DEF WithinTo
  <2> DEFINE g == [k \in 0 .. m |-> IF k = m THEN Leading(nodes, level, f[m - 1]) ELSE f[k]]
  <2>3. \A k \in 0 .. m : g[k] = IF k = 0 THEN {level.fixed} ELSE Leading(nodes, level, g[k - 1])
    <3> TAKE k \in 0 .. m
    <3>1. CASE k = m
      BY <2>1, <3>1, <1>3, <1>1
    <3>2. CASE k # m
      <4>1. k \in 0 .. m - 1
        BY <3>2, <1>1
      <4>2. f[k] = IF k = 0 THEN {level.fixed} ELSE Leading(nodes, level, f[k - 1])
        BY <4>1, <2>2
      <4> QED
        BY <4>1, <4>2
    <3> QED
      BY <3>1, <3>2
  <2>4. g = [k \in 0 .. m |-> IF k = 0 THEN {level.fixed} ELSE Leading(nodes, level, g[k - 1])]
    BY <2>3
  <2> QED
    BY <2>4, <1>1 DEF WithinTo
<1> QED
  BY <1>2, <1>3

\* Rooted is its last value.
LEMMA RootedIsLast ==
  ASSUME NEW nodes, NEW level
  PROVE  \E f : WithinTo(f, nodes, level, N) /\ Rooted(nodes, level) = f[N]
<1> DEFINE G(f) == [k \in 0 .. N |-> IF k = 0 THEN {level.fixed}
                                      ELSE With(f[k - 1], LAMBDA z : Leading(nodes, level, z))]
           H(f) == [k \in 0 .. N |-> IF k = 0 THEN {level.fixed} ELSE Leading(nodes, level, f[k - 1])]
           f == CHOOSE f : f = H(f)
<1>1. ASSUME NEW h PROVE G(h) = H(h)
  BY Zenon DEF With
<1>2. \A h : WithinTo(h, nodes, level, N) <=> h = H(h)
  BY Zenon DEF WithinTo
<1>3. Rooted(nodes, level) = (CHOOSE h : h = G(h))[N]
  BY Zenon DEF Rooted
<1> HIDE DEF G, H
<1>4. (CHOOSE h : h = G(h)) = f
  BY <1>1, Zenon
<1>5. \E h : h = H(h)
  BY <1>2, NPositive, WithinExists
<1>6. f = H(f)
  BY <1>5, Zenon
<1> HIDE DEF f
<1> QED
  BY <1>2, <1>3, <1>4, <1>6, Zenon

\* What is left of w after k rounds.
RoundsTo(f, nodes, level, w, n) ==
    f = [k \in 0 .. n |-> IF k = 0 THEN w ELSE Nearer(nodes, level, f[k - 1])]

\* The function that Back recurses by exists for every number of rounds.
LEMMA RoundsExist ==
  ASSUME NEW nodes, NEW level, NEW w, NEW n \in Nat
  PROVE  \E f : RoundsTo(f, nodes, level, w, n)
<1> DEFINE T == {m \in Nat : ~ \E f : RoundsTo(f, nodes, level, w, m)}
<1> SUFFICES ASSUME T # {} PROVE FALSE
  OBVIOUS
<1>1. PICK m \in T : \A y \in T : m <= y
  BY Least
<1>2. CASE m = 0
  <2> DEFINE f == [k \in 0 .. 0 |-> w]
  <2>1. f = [k \in 0 .. m |-> IF k = 0 THEN w ELSE Nearer(nodes, level, f[k - 1])]
    BY <1>2
  <2> QED
    BY <2>1, <1>1 DEF RoundsTo
<1>3. CASE m # 0
  <2>1. m - 1 \in Nat /\ m - 1 \notin T
    BY <1>3, <1>1
  <2>2. PICK f : f = [k \in 0 .. m - 1 |-> IF k = 0 THEN w ELSE Nearer(nodes, level, f[k - 1])]
    BY <2>1 DEF RoundsTo
  <2> DEFINE g == [k \in 0 .. m |-> IF k = m THEN Nearer(nodes, level, f[m - 1]) ELSE f[k]]
  <2>3. \A k \in 0 .. m : g[k] = IF k = 0 THEN w ELSE Nearer(nodes, level, g[k - 1])
    <3> TAKE k \in 0 .. m
    <3>1. CASE k = m
      BY <2>1, <3>1, <1>3, <1>1
    <3>2. CASE k # m
      <4>1. k \in 0 .. m - 1
        BY <3>2, <1>1
      <4>2. f[k] = IF k = 0 THEN w ELSE Nearer(nodes, level, f[k - 1])
        BY <4>1, <2>2
      <4> QED
        BY <4>1, <4>2
    <3> QED
      BY <3>1, <3>2
  <2>4. g = [k \in 0 .. m |-> IF k = 0 THEN w ELSE Nearer(nodes, level, g[k - 1])]
    BY <2>3
  <2> QED
    BY <2>4, <1>1 DEF RoundsTo
<1> QED
  BY <1>2, <1>3

\* Back is its last value.
LEMMA BackIsLast ==
  ASSUME NEW nodes, NEW level, NEW w
  PROVE  \E f : RoundsTo(f, nodes, level, w, N) /\ Back(nodes, level, w) = f[N]
<1> DEFINE G(f) == [k \in 0 .. N |-> IF k = 0 THEN w
                                      ELSE With(f[k - 1], LAMBDA z : Nearer(nodes, level, z))]
           H(f) == [k \in 0 .. N |-> IF k = 0 THEN w ELSE Nearer(nodes, level, f[k - 1])]
           f == CHOOSE f : f = H(f)
<1>1. ASSUME NEW h PROVE G(h) = H(h)
  BY Zenon DEF With
<1>2. \A h : RoundsTo(h, nodes, level, w, N) <=> h = H(h)
  BY Zenon DEF RoundsTo
<1>3. Back(nodes, level, w) = (CHOOSE h : h = G(h))[N]
  BY Zenon DEF Back
<1> HIDE DEF G, H
<1>4. (CHOOSE h : h = G(h)) = f
  BY <1>1, Zenon
<1>5. \E h : h = H(h)
  BY <1>2, NPositive, RoundsExist
<1>6. f = H(f)
  BY <1>5, Zenon
<1> HIDE DEF f
<1> QED
  BY <1>2, <1>3, <1>4, <1>6, Zenon

\* The points found in k steps, by those found in k - 1 steps.
LEMMA WithinAt ==
  ASSUME NEW f, NEW nodes, NEW level, WithinTo(f, nodes, level, N)
  PROVE  /\ f[0] = {level.fixed}
         /\ \A k \in 1 .. N : k - 1 \in 0 .. N /\ f[k] = Leading(nodes, level, f[k - 1])
BY NPositive DEF WithinTo

\* What is found in k steps are entries, each one the base point or one step from what is
\* found in k - 1 steps.
LEMMA WithinNear ==
  ASSUME NEW nodes, NEW level, IsLevel(level), NEW B, Leads(nodes, level, B),
         NEW f, WithinTo(f, nodes, level, N)
  PROVE  \A k \in 0 .. N : /\ f[k] \subseteq Held(level) /\ level.fixed \in f[k]
                           /\ \A j \in f[k] \ {level.fixed} :
                                  k # 0 /\ j \in Tree(level) /\ Edge(nodes, level, j)[j] \in f[k - 1]
<1> DEFINE Good(k) == /\ f[k] \subseteq Held(level) /\ level.fixed \in f[k]
                      /\ \A j \in f[k] \ {level.fixed} :
                             k # 0 /\ j \in Tree(level) /\ Edge(nodes, level, j)[j] \in f[k - 1]
           T == {k \in 0 .. N : ~ Good(k)}
<1>1. /\ f[0] = {level.fixed}
      /\ \A k \in 1 .. N : k - 1 \in 0 .. N /\ f[k] = Leading(nodes, level, f[k - 1])
  BY WithinAt
<1>2. Held(level) = Tree(level) \cup {level.fixed} /\ level.fixed \notin Tree(level)
  BY EntryOf
<1>3. N \in Nat
  BY NPositive
<1>4. ASSUME NEW R PROVE Leading(nodes, level, R) = R \cup {i \in Tree(level) : Edge(nodes, level, i)[i] \in R}
  BY DEF Leading, Tree
<1>5. T = {}
  <2> SUFFICES ASSUME T # {} PROVE FALSE
    OBVIOUS
  <2>1. PICK k \in T : \A y \in T : k <= y
    <3>1. T \in SUBSET Nat
      BY <1>3
    <3> HIDE DEF T
    <3> QED
      BY <3>1, Least
  <2>2. k # 0
    <3>1. Good(0)
      BY <1>1, <1>2
    <3> QED
      BY <2>1, <3>1
  <2>3. k \in 1 .. N /\ k - 1 \in 0 .. N /\ k - 1 \notin T
    BY <1>3, <2>1, <2>2
  <2>4. Good(k - 1)
    BY <2>3
  <2>5. f[k] = f[k - 1] \cup {i \in Tree(level) : Edge(nodes, level, i)[i] \in f[k - 1]}
    BY <1>1, <1>4, <2>3
  <2>6. f[k] \subseteq Held(level) /\ level.fixed \in f[k]
    BY <1>2, <2>4, <2>5
  <2>7. ASSUME NEW j \in f[k], j # level.fixed
        PROVE  j \in Tree(level) /\ Edge(nodes, level, j)[j] \in f[k - 1]
    <3>1. CASE j \in f[k - 1]
      <4>1. k - 1 # 0 /\ j \in Tree(level) /\ Edge(nodes, level, j)[j] \in f[(k - 1) - 1]
        BY <2>4, <2>7, <3>1
      <4>2. k - 1 \in 1 .. N
        BY <1>3, <2>3, <4>1
      <4>3. f[k - 1] = Leading(nodes, level, f[(k - 1) - 1])
        BY <1>1, <4>2
      <4>4. f[(k - 1) - 1] \subseteq f[k - 1]
        BY <1>4, <4>3
      <4> QED
        BY <4>1, <4>4
    <3>2. CASE j \notin f[k - 1]
      BY <2>5, <3>2
    <3> QED
      BY <3>1, <3>2
  <2>8. Good(k)
    BY <2>2, <2>6, <2>7
  <2> QED
    BY <2>1, <2>8
<1> QED
  BY <1>5

\* As long as not all are found, one more step finds one more.
LEMMA WithinGrows ==
  ASSUME NEW nodes, NEW level, IsLevel(level), NEW B, Leads(nodes, level, B),
         NEW f, WithinTo(f, nodes, level, N)
  PROVE  f[N] = Held(level)
<1> DEFINE Good(k) == f[k] = Held(level) \/ Cardinality(f[k]) > k
           T == {k \in 0 .. N : ~ Good(k)}
<1>1. /\ f[0] = {level.fixed}
      /\ \A k \in 1 .. N : k - 1 \in 0 .. N /\ f[k] = Leading(nodes, level, f[k - 1])
  BY WithinAt
<1>2. \A k \in 0 .. N : f[k] \subseteq Held(level) /\ level.fixed \in f[k]
  BY WithinNear
<1>3. /\ Held(level) = Tree(level) \cup {level.fixed} /\ level.fixed \notin Tree(level)
      /\ Held(level) \subseteq Points
  BY EntryOf DEF Held
<1>4. N \in Nat /\ IsFiniteSet(Points) /\ Cardinality(Points) = N
  BY NPositive, FS_Interval DEF Points
<1>5. \A k \in 0 .. N : IsFiniteSet(f[k]) /\ Cardinality(f[k]) \in Nat /\ Cardinality(f[k]) <= N
  BY <1>2, <1>3, <1>4, FS_Subset, FS_CardinalityType
<1>6. T = {}
  <2> SUFFICES ASSUME T # {} PROVE FALSE
    OBVIOUS
  <2>1. PICK k \in T : \A y \in T : k <= y
    <3>1. T \in SUBSET Nat
      BY <1>4
    <3> HIDE DEF T
    <3> QED
      BY <3>1, Least
  <2>2. k # 0
    <3>1. Cardinality(f[0]) = 1
      BY <1>1, FS_Singleton
    <3> QED
      BY <2>1, <3>1
  <2>3. k \in 1 .. N /\ k - 1 \in 0 .. N /\ k - 1 \notin T
    BY <1>4, <2>1, <2>2
  <2>4. Good(k - 1)
    BY <2>3
  <2>5. PICK R, S : R = f[k - 1] /\ S = f[k]
    OBVIOUS
  <2>6. S = R \cup {i \in Tree(level) : Edge(nodes, level, i)[i] \in R}
    BY <1>1, <2>3, <2>5 DEF Leading, Tree
  <2>7. R \subseteq S /\ S \subseteq Held(level) /\ R \subseteq Held(level) /\ level.fixed \in R
    BY <1>2, <2>3, <2>5, <2>6
  <2>8. CASE R = Held(level)
    BY <2>1, <2>5, <2>7, <2>8
  <2>9. CASE R # Held(level)
    <3>1. Cardinality(R) > k - 1
      BY <2>4, <2>5, <2>9
    <3>2. PICK rest : rest = Tree(level) \ R
      OBVIOUS
    <3>3. rest # {} /\ rest \in SUBSET Tree(level)
      BY <1>3, <2>7, <2>9, <3>2
    <3>4. PICK i \in rest : Edge(nodes, level, i)[i] \notin rest
      BY <3>3 DEF Leads
    <3>5. Edge(nodes, level, i)[i] \in Held(level)
      BY <3>2, <3>4 DEF Leads
    <3>6. Edge(nodes, level, i)[i] \in R
      BY <1>3, <2>7, <3>2, <3>4, <3>5
    <3>7. i \in S /\ i \notin R
      BY <2>6, <3>2, <3>4, <3>6
    <3>8. Cardinality(R) < Cardinality(S)
      <4>1. IsFiniteSet(S) /\ IsFiniteSet(R) /\ Cardinality(S) \in Nat /\ Cardinality(R) \in Nat
        BY <1>5, <2>3, <2>5
      <4>2. Cardinality(R) <= Cardinality(S) /\ (Cardinality(R) = Cardinality(S) => R = S)
        BY <2>7, <4>1, FS_Subset
      <4> QED
        BY <3>7, <4>1, <4>2
    <3>9. Cardinality(S) \in Nat /\ Cardinality(R) \in Nat
      BY <1>5, <2>3, <2>5
    <3>10. Cardinality(S) > k
      BY <2>3, <3>1, <3>8, <3>9
    <3> QED
      BY <2>1, <2>5, <3>10
  <2> QED
    BY <2>8, <2>9
<1>7. N \in 0 .. N
  BY <1>4
<1>8. Good(N)
  BY <1>6, <1>7
<1>9. Cardinality(f[N]) <= N /\ Cardinality(f[N]) \in Nat
  BY <1>5, <1>7
<1> QED
  BY <1>4, <1>8, <1>9

\* Edges lead from every entry to the base point.
LEMMA RootedIsAll ==
  ASSUME NEW nodes, NEW level, IsLevel(level), NEW B, Leads(nodes, level, B)
  PROVE  Rooted(nodes, level) = Held(level)
<1>1. PICK f : WithinTo(f, nodes, level, N) /\ Rooted(nodes, level) = f[N]
  BY RootedIsLast
<1> QED
  BY <1>1, WithinGrows

FixesAll(w, B) == \A b \in B : w[b] = b

\* A round with a permutation that takes the base point to an entry.
IsRound(nodes, level, B, w, u) ==
    /\ IsLevel(level) /\ B \subseteq Points /\ Leads(nodes, level, B)
    /\ w \in Perms /\ FixesAll(w, B) /\ w[level.fixed] \in Held(level)
    /\ u = Nearer(nodes, level, w)

\* One round: the base point comes one step nearer, and the points of B stay.
LEMMA NearerStep ==
  ASSUME NEW nodes, NEW level, NEW B, NEW w, NEW u, IsRound(nodes, level, B, w, u),
         NEW j, j = w[level.fixed]
  PROVE  /\ u \in Perms /\ FixesAll(u, B)
         /\ j = level.fixed => u[level.fixed] = j
         /\ j # level.fixed => u[level.fixed] = Edge(nodes, level, j)[j]
<1> USE DEF IsRound
<1>1. CASE j = level.fixed
  BY <1>1 DEF Nearer
<1>2. CASE j # level.fixed
  <2>1. j \in Tree(level) /\ level.fixed \in Points
    BY <1>2, EntryOf
  <2>2. PICK p, k : p = nodes[level.vec[j]].p /\ k = level.pwr[j]
    OBVIOUS
  <2>3. /\ p \in Perms /\ k \in Nat
        /\ \A b \in B : applyperm(Identity, p, k)[b] = b
    BY <2>1, <2>2 DEF Leads, Edge
  <2>4. u = applyperm(w, p, k)
    BY <1>2, <2>2 DEF Nearer
  <2>5. u \in Perms
    BY <2>3, <2>4, applypermNext
  <2>6. \A x \in Points : u[x] = applyperm(Identity, p, k)[w[x]]
    BY <2>3, <2>4, applypermAt
  <2>7. FixesAll(u, B)
    BY <2>3, <2>6 DEF FixesAll
  <2>8. u[level.fixed] = applyperm(Identity, p, k)[j]
    BY <2>1, <2>6
  <2> QED
    BY <1>2, <2>2, <2>5, <2>7, <2>8 DEF Edge
<1> QED
  BY <1>1, <1>2

\* What w was in each round; the base point never leaves the vector.
ByRounds(nodes, level, B, w, u) ==
    \E g : /\ RoundsTo(g, nodes, level, w, N) /\ u = g[N]
           /\ \A k \in 0 .. N : /\ g[k] \in Perms /\ FixesAll(g[k], B)
                                /\ g[k][level.fixed] \in Held(level)

\* The loop of filterschreier ends with the base point where it was, within N rounds.
LEMMA BackHome ==
  ASSUME NEW nodes, NEW level, IsLevel(level), NEW B, B \subseteq Points,
         Leads(nodes, level, B), NEW w \in Perms, FixesAll(w, B),
         w[level.fixed] \in Held(level), NEW u, u = Back(nodes, level, w)
  PROVE  /\ u \in Perms /\ FixesAll(u, B) /\ u[level.fixed] = level.fixed
         /\ ByRounds(nodes, level, B, w, u)
<1>1. PICK f : WithinTo(f, nodes, level, N)
  BY RootedIsLast
<1>2. PICK g : RoundsTo(g, nodes, level, w, N) /\ u = g[N]
  BY BackIsLast
<1>3. N \in Nat
  BY NPositive
<1>4. g[0] = w /\ \A k \in 1 .. N : g[k] = Nearer(nodes, level, g[k - 1])
  BY <1>2, <1>3 DEF RoundsTo
<1>5. f[N] = Held(level) /\ f[0] = {level.fixed}
  BY <1>1, WithinGrows, WithinAt
<1>6. \A k \in 0 .. N : /\ f[k] \subseteq Held(level) /\ level.fixed \in f[k]
                        /\ \A j \in f[k] \ {level.fixed} :
                               k # 0 /\ j \in Tree(level) /\ Edge(nodes, level, j)[j] \in f[k - 1]
  BY <1>1, WithinNear
<1> DEFINE Good(k) == g[k] \in Perms /\ FixesAll(g[k], B) /\ g[k][level.fixed] \in f[N - k]
           T == {k \in 0 .. N : ~ Good(k)}
<1>7. T = {}
  <2> SUFFICES ASSUME T # {} PROVE FALSE
    OBVIOUS
  <2>1. PICK k \in T : \A y \in T : k <= y
    <3>1. T \in SUBSET Nat
      BY <1>3
    <3> HIDE DEF T
    <3> QED
      BY <3>1, Least
  <2>2. k # 0
    <3>1. Good(0)
      BY <1>3, <1>4, <1>5
    <3> QED
      BY <2>1, <3>1
  <2>3. k \in 1 .. N /\ k - 1 \in 0 .. N /\ k - 1 \notin T
    BY <1>3, <2>1, <2>2
  <2>4. Good(k - 1)
    BY <2>3
  <2>5. PICK m \in 0 .. N : m = N - k /\ N - (k - 1) = m + 1 /\ m + 1 \in 0 .. N /\ m + 1 - 1 = m
    BY <1>3, <2>3
  <2>6. PICK a, b, j : a = g[k - 1] /\ b = g[k] /\ j = a[level.fixed]
    OBVIOUS
  <2>7. a \in Perms /\ FixesAll(a, B) /\ j \in f[m + 1] /\ b = Nearer(nodes, level, a)
    BY <1>4, <2>3, <2>4, <2>5, <2>6
  <2>8. j \in Held(level)
    BY <1>6, <2>5, <2>7
  <2>9. /\ b \in Perms /\ FixesAll(b, B)
        /\ j = level.fixed => b[level.fixed] = j
        /\ j # level.fixed => b[level.fixed] = Edge(nodes, level, j)[j]
    <3>1. b = Nearer(nodes, level, a) /\ j = a[level.fixed] /\ j \in Held(level)
      BY <2>6, <2>7, <2>8
    <3>2. a \in Perms /\ FixesAll(a, B)
      BY <2>7
    <3>3. IsRound(nodes, level, B, a, b)
      BY <3>1, <3>2 DEF IsRound
    <3> HIDE DEF T, Good
    <3> QED
      BY <3>1, <3>3, NearerStep
  <2>10. b[level.fixed] \in f[m]
    BY <1>6, <2>5, <2>7, <2>9
  <2>11. Good(k)
    BY <2>5, <2>6, <2>9, <2>10
  <2> QED
    BY <2>1, <2>11
<1>8. Good(N)
  BY <1>3, <1>7
<1>9. u[level.fixed] \in f[0] /\ u \in Perms /\ FixesAll(u, B)
  <2>1. N - N = 0
    BY <1>3
  <2> QED
    BY <1>2, <1>8, <2>1
<1>10. ByRounds(nodes, level, B, w, u)
  <2>1. ASSUME NEW k \in 0 .. N
        PROVE  g[k] \in Perms /\ FixesAll(g[k], B) /\ g[k][level.fixed] \in Held(level)
    <3>1. PICK m \in 0 .. N : m = N - k
      BY <1>3
    <3>2. Good(k)
      BY <1>7
    <3> QED
      BY <1>6, <3>1, <3>2
  <2> QED
    BY <1>2, <2>1 DEF ByRounds
<1> QED
  BY <1>5, <1>9, <1>10

\* A point whose cycle comes to the vector gets an entry that leads to where it comes to it.
LEMMA ReachAt ==
  ASSUME NEW w \in Perms, NEW vec, NEW j \in Points, NEW S, S = Reach(vec, w, j), S # {},
         NEW k, k = Min(S)
  PROVE  k \in 1 .. N /\ k \in Nat /\ vec[applyperm(Identity, w, k)[j]] # NULL
         /\ applyperm(Identity, w, k)[j] \in Points
<1>1. S \in SUBSET Nat /\ S \subseteq 1 .. N
  BY NPositive DEF Reach
<1>2. k \in S
  BY <1>1, MinIn
<1>3. applyperm(Identity, w, k) \in Perms
  BY <1>1, <1>2, applypermNext, IdentityAt
<1> QED
  BY <1>1, <1>2, <1>3 DEF Reach, Perms

\* The level after the points new came into its vector.
Grown(level, other, new, x, w) ==
    /\ new \subseteq Points \ Held(level)
    /\ other.fixed = level.fixed
    /\ \A j \in Points : other.vec[j] = IF j \in new THEN x ELSE level.vec[j]
    /\ \A j \in new : Reach(level.vec, w, j) # {}
    /\ \A j \in Points : other.pwr[j] = IF j \in new THEN Min(Reach(level.vec, w, j))
                                        ELSE level.pwr[j]

\* The edges of the points that come into a vector lead to points that were there before.
LEMMA GrownLeads ==
  ASSUME NEW nodes, NEW more, NEW level, IsLevel(level), NEW B, B \subseteq Points,
         Leads(nodes, level, B), NEW w \in Perms, FixesAll(w, B),
         NEW x \in Nat \ {0}, more[x].p = w,
         \A i \in Tree(level) : more[level.vec[i]].p = nodes[level.vec[i]].p,
         NEW new, NEW other, Grown(level, other, new, x, w)
  PROVE  Leads(more, other, B)
<1>1. Held(level) = Tree(level) \cup {level.fixed} /\ level.fixed \notin Tree(level)
      /\ level.fixed \in Points /\ Held(level) \subseteq Points
  BY EntryOf DEF Held
<1>2. Tree(other) = Tree(level) \cup new /\ Held(other) = Held(level) \cup new
      /\ Held(level) \cap new = {}
  BY <1>1 DEF Grown, Tree, Held, NULL
<1>3. \A i \in Tree(level) : /\ Edge(more, other, i) = Edge(nodes, level, i)
                             /\ other.vec[i] = level.vec[i] /\ other.pwr[i] = level.pwr[i]
  <2>1. \A i \in Tree(level) : i \in Points /\ i \notin new
    BY <1>1, <1>2
  <2> QED
    BY <2>1 DEF Grown, Edge
<1>4. ASSUME NEW i \in new
      PROVE  /\ more[other.vec[i]].p \in Perms /\ other.pwr[i] \in Nat
             /\ Edge(more, other, i)[i] \in Held(level)
             /\ \A b \in B : Edge(more, other, i)[b] = b
  <2>1. PICK S, k : S = Reach(level.vec, w, i) /\ k = Min(S)
    OBVIOUS
  <2>2. i \in Points /\ S # {} /\ other.vec[i] = x /\ other.pwr[i] = k
    BY <2>1 DEF Grown
  <2>3. k \in Nat /\ level.vec[applyperm(Identity, w, k)[i]] # NULL
        /\ applyperm(Identity, w, k)[i] \in Points
    BY <2>1, <2>2, ReachAt
  <2>4. Edge(more, other, i) = applyperm(Identity, w, k)
    BY <2>2 DEF Edge
  <2>5. \A b \in B : applyperm(Identity, w, k)[b] = b
    BY <2>3, applypermFixes, IdentityAt DEF FixesAll
  <2> QED
    BY <2>2, <2>3, <2>4, <2>5 DEF Held
<1>5. \A i \in Tree(other) : /\ more[other.vec[i]].p \in Perms /\ other.pwr[i] \in Nat
                             /\ Edge(more, other, i)[i] \in Held(other)
                             /\ \A b \in B : Edge(more, other, i)[b] = b
  <2> TAKE i \in Tree(other)
  <2>1. CASE i \in new
    BY <1>2, <1>4, <2>1
  <2>2. CASE i \in Tree(level)
    BY <1>2, <1>3, <2>2 DEF Leads
  <2> QED
    BY <1>2, <2>1, <2>2
<1>6. ASSUME NEW S \in SUBSET Tree(other), S # {}
      PROVE  \E i \in S : Edge(more, other, i)[i] \notin S
  <2>1. CASE S \cap Tree(level) # {}
    <3>1. PICK i \in S \cap Tree(level) : Edge(nodes, level, i)[i] \notin S \cap Tree(level)
      BY <2>1 DEF Leads
    <3>2. Edge(nodes, level, i)[i] \in Held(level)
      BY <3>1 DEF Leads
    <3>3. Edge(nodes, level, i)[i] \notin S
      BY <1>1, <1>2, <3>1, <3>2
    <3> QED
      BY <1>3, <3>1, <3>3
  <2>2. CASE S \cap Tree(level) = {}
    <3>1. PICK i \in S : i \in new
      BY <1>2, <1>6, <2>2
    <3>2. Edge(more, other, i)[i] \notin S
      BY <1>1, <1>2, <1>4, <2>2, <3>1
    <3> QED
      BY <3>1, <3>2
  <2> QED
    BY <2>1, <2>2
<1>7. other.fixed \in Points /\ other.vec[other.fixed] = ID_PERMNODE
      /\ \A i \in Points : other.vec[i] = ID_PERMNODE => i = other.fixed
  <2>1. level.fixed \notin new
    BY <1>1, <1>2
  <2> QED
    BY <1>1, <2>1 DEF Grown, Leads, ID_PERMNODE
<1> QED
  BY <1>5, <1>6, <1>7 DEF Leads

\* The points that come into the vector of level l.
Newcomers(t, l) ==
    {j \in Points : t.levels[l].vec[j] = NULL /\ Reach(t.levels[l].vec, t.w, j) # {}}

\* The other nodes keep their marks; a new one is marked if w was not known to be in the group.
GrowsRing(t, u, x) ==
    /\ InGroup(u)
    /\ \A y \in DOMAIN t.ring : u.ring[y].mark = t.ring[y].mark
    /\ IF t.curr = NULL THEN x \notin DOMAIN t.ring /\ u.ring[x].mark = ~InGroup(t)
       ELSE x \in DOMAIN t.ring

\* They come into it with an entry for node x, that holds w.
Grows(t, u, l, n, x) ==
    /\ u.w = t.w /\ u.stop = t.stop /\ u.curr = x
    /\ x \in Nat \ {0} /\ u.ring[x].p = t.w
    /\ DOMAIN u.ring = DOMAIN t.ring \cup {x}
    /\ \A y \in DOMAIN t.ring : u.ring[y].p = t.ring[y].p
    /\ GrowsRing(t, u, x)
    /\ \A k \in 1 .. n : k # l => u.levels[k] = t.levels[k]
    /\ u.levels[l].orbits = t.levels[l].orbits
    /\ Grown(t.levels[l], u.levels[l], Newcomers(t, l), x, t.w)

HoldsCurrent(t) == t.curr # NULL => t.ring[t.curr].p = t.w

\* What ExtendVector does when there are such points.
LEMMA ExtendGrows ==
  ASSUME NEW t, NEW n, IsFilter(t, n), HoldsCurrent(t), NEW l \in 1 .. n,
         NEW u, u = ExtendVector(t, l), NEW new, new = Newcomers(t, l), new # {}
  PROVE  \E x : Grows(t, u, l, n, x)
<1>1. PICK chain, old, vec : chain = t.levels /\ old = chain[l] /\ vec = old.vec
  OBVIOUS
<1>2. /\ IsChain(chain, n) /\ IsLevel(old) /\ IsRing(t.ring)
      /\ n \in Nat /\ l \in DOMAIN chain
  BY <1>1 DEF IsFilter, IsChain
<1>3. new = {j \in Points : vec[j] = NULL /\ Reach(vec, t.w, j) # {}}
  BY <1>1 DEF Newcomers
<1> DEFINE nodes == IF t.curr = NULL THEN addpermutation(t.ring, t.w, ~t.ingroup) ELSE t.ring
           x == IF t.curr = NULL THEN FreeNode(t.ring) ELSE t.curr
           count == Cardinality(new)
           more == [j \in Points |-> IF j \in new THEN x ELSE vec[j]]
           pwr == [j \in Points |-> IF j \in new THEN Min(Reach(vec, t.w, j)) ELSE old.pwr[j]]
           shared == [nodes EXCEPT ![x].refcount = @ + count]
           v == [fixed |-> old.fixed, vec |-> more, pwr |-> pwr, orbits |-> old.orbits]
           other == [chain EXCEPT ![l] = v]
<1>4. u = Extended(t, l, shared, more, pwr, x)
  BY <1>1, <1>2, <1>3 DEF ExtendVector, IsFilter, IsLevel, Extended
<1>5. \A j \in Points : /\ more[j] = IF j \in new THEN x ELSE vec[j]
                        /\ pwr[j] = IF j \in new THEN Min(Reach(vec, t.w, j)) ELSE old.pwr[j]
  OBVIOUS
<1> HIDE DEF more, pwr, x, shared
<1>6. [chain EXCEPT ![l].vec = more, ![l].pwr = pwr] = other
  BY <1>1, <1>2 DEF IsLevel
<1>7. v.fixed = old.fixed /\ v.vec = more /\ v.pwr = pwr /\ v.orbits = old.orbits
  OBVIOUS
<1>8. \A k \in 1 .. n : other[k] = IF k = l THEN v ELSE chain[k]
  BY <1>2 DEF IsChain
<1> HIDE DEF other, v
<1>9. IsState(t)
  BY DEF IsFilter, IsState
<1>10. /\ u.ring = shared /\ u.levels = other /\ u.curr = x /\ u.w = t.w /\ u.stop = t.stop
       /\ InGroup(u)
  <2>1. PICK more1, pwr1, x1, shared1 :
           more1 = more /\ pwr1 = pwr /\ x1 = x /\ shared1 = shared
    OBVIOUS
  <2>2. u = Extended(t, l, shared1, more1, pwr1, x1) /\ t.levels = chain
    BY <1>1, <1>4, <2>1
  <2>3. /\ u.levels = WithVector(chain, l, more1, pwr1)
        /\ u.ring = shared1 /\ u.curr = x1 /\ u.w = t.w /\ u.stop = t.stop /\ InGroup(u)
    BY <1>9, <2>2, ChangeVector
  <2>4. u.levels = other
    BY <1>6, <2>1, <2>3 DEF WithVector
  <2> QED
    BY <2>1, <2>3, <2>4
<1>11. /\ x \in Nat \ {0} /\ IsRing(nodes) /\ nodes[x].p = t.w
       /\ DOMAIN nodes = DOMAIN t.ring \cup {x}
       /\ \A y \in DOMAIN t.ring : nodes[y].p = t.ring[y].p /\ nodes[y].mark = t.ring[y].mark
       /\ IF t.curr = NULL THEN x \notin DOMAIN t.ring /\ nodes[x].mark = ~InGroup(t)
          ELSE x \in DOMAIN t.ring
  <2>1. CASE t.curr = NULL
    <3>1. PICK mark \in BOOLEAN : mark = ~t.ingroup
      OBVIOUS
    <3>2. nodes = addpermutation(t.ring, t.w, mark) /\ x = FreeNode(t.ring)
      BY <2>1, <3>1 DEF x
    <3> HIDE DEF nodes
    <3>3. PICK a, b : a = t.ring /\ b = t.w
      OBVIOUS
    <3>4. IsRing(a) /\ nodes = addpermutation(a, b, mark) /\ x = FreeNode(a)
      BY <1>2, <3>2, <3>3
    <3>5. /\ x \in Nat \ {0} /\ IsRing(nodes) /\ DOMAIN nodes = DOMAIN a \cup {x}
          /\ \A y \in DOMAIN a : nodes[y] = a[y]
          /\ nodes[x].p = b /\ x \notin DOMAIN a /\ nodes[x].mark = mark
      BY <3>4, AddNode
    <3> QED
      BY <2>1, <3>1, <3>3, <3>5 DEF InGroup
  <2>2. CASE t.curr # NULL
    <3>1. nodes = t.ring /\ x = t.curr /\ x \in DOMAIN t.ring
      BY <2>2 DEF x, IsFilter
    <3> QED
      BY <1>2, <2>2, <3>1 DEF IsRing, HoldsCurrent
  <2> QED
    BY <2>1, <2>2
<1>12. /\ DOMAIN shared = DOMAIN nodes
       /\ \A y \in DOMAIN nodes : shared[y].p = nodes[y].p /\ shared[y].mark = nodes[y].mark
  <2>1. shared = [nodes EXCEPT ![x].refcount = @ + count]
    BY DEF shared
  <2> HIDE DEF nodes, count
  <2>2. PICK node : node = nodes[x]
    OBVIOUS
  <2>3. x \in DOMAIN nodes /\ IsNode(node)
    BY <1>11, <2>2 DEF IsRing
  <2>4. PICK less : less = [node EXCEPT !.refcount = @ + count]
    OBVIOUS
  <2>5. less.p = node.p /\ less.mark = node.mark
    BY <2>3, <2>4 DEF IsNode
  <2>6. shared = [nodes EXCEPT ![x] = less]
    BY <2>1, <2>2, <2>4
  <2> QED
    BY <2>2, <2>3, <2>5, <2>6
<1>13. PICK level : level = other[l]
  OBVIOUS
<1>14. /\ level.fixed = old.fixed /\ level.vec = more /\ level.pwr = pwr
       /\ level.orbits = old.orbits
  BY <1>7, <1>8, <1>13
<1>15. Grown(old, level, new, x, t.w)
  <2>1. new \subseteq Points \ Held(old) /\ \A j \in new : Reach(old.vec, t.w, j) # {}
    BY <1>1, <1>3 DEF Held
  <2> HIDE DEF count
  <2> QED
    BY <1>1, <1>5, <1>14, <2>1 DEF Grown
<1> HIDE DEF nodes
<1>16. /\ u.ring[x].p = t.w /\ DOMAIN u.ring = DOMAIN t.ring \cup {x}
       /\ \A y \in DOMAIN t.ring : u.ring[y].p = t.ring[y].p
  BY <1>10, <1>11, <1>12
<1>17. \A k \in 1 .. n : k # l => u.levels[k] = t.levels[k]
  BY <1>1, <1>8, <1>10
<1>18. Grown(t.levels[l], u.levels[l], Newcomers(t, l), x, t.w)
  BY <1>1, <1>10, <1>13, <1>15
<1>19. x \in Nat \ {0} /\ u.w = t.w /\ u.stop = t.stop /\ u.curr = x
  BY <1>10, <1>11
<1>20. GrowsRing(t, u, x)
  <2>1. /\ \A y \in DOMAIN t.ring : u.ring[y].mark = t.ring[y].mark
        /\ u.ring[x].mark = nodes[x].mark
    BY <1>10, <1>11, <1>12
  <2> QED
    BY <1>10, <1>11, <2>1 DEF GrowsRing
<1>21. u.levels[l].orbits = t.levels[l].orbits
  BY <1>1, <1>10, <1>13, <1>14
<1>22. Grows(t, u, l, n, x)
  BY <1>16, <1>17, <1>18, <1>19, <1>20, <1>21 DEF Grows
<1> QED
  BY <1>22

\* The levels up to l have base points, those before l are the points of Before.
InUse(chain, l) == \A i \in 1 .. l : chain[i].fixed >= 0

Before(chain, l) == {chain[i].fixed : i \in 1 .. l - 1}

ChainLeads(nodes, chain, n) ==
    \A l \in 1 .. n : InUse(chain, l) => Leads(nodes, chain[l], Before(chain, l))

PermsIn(nodes) == \A x \in DOMAIN nodes : nodes[x].p \in Perms

\* The base points of the levels in use are points.
LEMMA BeforePoints ==
  ASSUME NEW chain, NEW n, IsChain(chain, n), NEW l \in 1 .. n, InUse(chain, l)
  PROVE  Before(chain, l) \subseteq Points /\ chain[l].fixed \in Points
<1>1. n \in Nat /\ \A i \in 1 .. n : chain[i].fixed \in -1 .. N - 1
  BY DEF IsChain, IsLevel
<1>2. \A i \in 1 .. l : i \in 1 .. n /\ chain[i].fixed \in Points
  BY <1>1, NPositive DEF InUse
<1>3. l \in 1 .. l /\ \A i \in 1 .. l - 1 : i \in 1 .. l
  BY <1>1
<1> QED
  BY <1>2, <1>3 DEF Before

\* Levels with the same vectors, and nodes with the same permutations.
SameTrees(chain, other, n) ==
    \A k \in 1 .. n : /\ other[k].fixed = chain[k].fixed /\ other[k].vec = chain[k].vec
                      /\ other[k].pwr = chain[k].pwr

\* Which levels are in use depends on the base points only.
LEMMA SameUse ==
  ASSUME NEW chain, NEW other, NEW n \in Nat, \A k \in 1 .. n : other[k].fixed = chain[k].fixed,
         NEW l \in 0 .. n
  PROVE  /\ InUse(other, l) <=> InUse(chain, l)
         /\ Before(other, l) = Before(chain, l)
         /\ Before(other, l + 1) = Before(chain, l + 1)
<1>1. \A k \in 1 .. l : k \in 1 .. n
  OBVIOUS
<1>2. \A k \in 1 .. l - 1 : k \in 1 .. n
  OBVIOUS
<1>3. l + 1 - 1 = l
  OBVIOUS
<1> QED
  BY <1>1, <1>2, <1>3 DEF InUse, Before

\* The edges of a chain lead as before when its vectors and their permutations are the same.
LEMMA SameChainLeads ==
  ASSUME NEW nodes, NEW chain, NEW n, IsChain(chain, n), ChainLeads(nodes, chain, n),
         NEW more, NEW other, SameTrees(chain, other, n),
         \A l \in 1 .. n : \A i \in Tree(chain[l]) :
             more[chain[l].vec[i]].p = nodes[chain[l].vec[i]].p
  PROVE  ChainLeads(more, other, n)
<1> SUFFICES ASSUME NEW l \in 1 .. n, InUse(other, l)
             PROVE  Leads(more, other[l], Before(other, l))
  BY DEF ChainLeads
<1>1. n \in Nat /\ l \in 0 .. n /\ \A k \in 1 .. n : other[k].fixed = chain[k].fixed
  BY DEF IsChain, SameTrees
<1>2. InUse(chain, l) /\ Before(other, l) = Before(chain, l)
  BY <1>1, SameUse
<1>3. PICK level, u, B : level = chain[l] /\ u = other[l] /\ B = Before(chain, l)
  OBVIOUS
<1>4. Leads(nodes, level, B)
  BY <1>2, <1>3 DEF ChainLeads
<1>5. u.fixed = level.fixed /\ u.vec = level.vec /\ u.pwr = level.pwr
  BY <1>3 DEF SameTrees
<1>6. \A i \in Tree(level) : more[level.vec[i]].p = nodes[level.vec[i]].p
  BY <1>3
<1> QED
  BY <1>2, <1>3, <1>4, <1>5, <1>6, LeadsSame

\* The entries of a chain are live nodes.
LEMMA TreeNodes ==
  ASSUME NEW nodes, NEW chain, NEW n, IsChain(chain, n), Counted(nodes, Refs(chain, n))
  PROVE  \A l \in 1 .. n : \A i \in Tree(chain[l]) : chain[l].vec[i] \in DOMAIN nodes
<1> SUFFICES ASSUME NEW l \in 1 .. n, NEW i \in Tree(chain[l])
             PROVE  chain[l].vec[i] \in DOMAIN nodes
  OBVIOUS
<1>1. <<l, i>> \in DOMAIN Refs(chain, n) /\ Refs(chain, n)[<<l, i>>] = chain[l].vec[i]
  BY DEF Refs, Tree
<1> QED
  BY <1>1 DEF Counted, Tree

-----------------------------------------------------------------------------
(* filterschreier: what has come through l levels *)

Stopped(t) == t.stop

Passed(t, l) == InUse(t.levels, l) /\ FixesAll(t.w, Before(t.levels, l + 1))

Traced(t, n) ==
    /\ IsFilter(t, n) /\ PermsIn(t.ring) /\ ChainLeads(t.ring, t.levels, n)
    /\ t.w \in Perms /\ HoldsCurrent(t)

\* What joining orbits leaves alone.
LEMMA JoinedShape ==
  ASSUME NEW t, NEW n, IsFilter(t, n), NEW l \in 1 .. n, NEW o, NEW u, u = Joined(t, l, o)
  PROVE  /\ u.ring = t.ring /\ u.w = t.w /\ u.curr = t.curr /\ u.stop = t.stop
         /\ u.ingroup = t.ingroup
         /\ SameTrees(t.levels, u.levels, n)
         /\ \A k \in 1 .. n : u.levels[k].orbits = IF k = l THEN o ELSE t.levels[k].orbits
<1>1. PICK chain, old : chain = t.levels /\ old = chain[l]
  OBVIOUS
<1>2. IsChain(chain, n) /\ IsLevel(old)
  BY <1>1 DEF IsFilter, IsChain
<1> DEFINE v == [fixed |-> old.fixed, vec |-> old.vec, pwr |-> old.pwr, orbits |-> o]
           other == [chain EXCEPT ![l] = v]
           changed == t.changed \/ o # old.orbits
<1>3. v = [old EXCEPT !.orbits = o]
  BY <1>2 DEF IsLevel
<1>4. v.fixed = old.fixed /\ v.vec = old.vec /\ v.pwr = old.pwr /\ v.orbits = o
  OBVIOUS
<1> HIDE DEF v
<1>5. l \in DOMAIN chain
  BY <1>2 DEF IsChain
<1>6. u = [t EXCEPT !.levels = other, !.changed = changed]
  BY <1>1, <1>3, <1>5 DEF Joined, IsFilter
<1>7. \A k \in 1 .. n : other[k] = IF k = l THEN v ELSE chain[k]
  BY <1>2 DEF IsChain
<1> HIDE DEF other, changed
<1>8. /\ u.ring = t.ring /\ u.levels = other /\ u.curr = t.curr /\ u.w = t.w
      /\ u.stop = t.stop /\ u.ingroup = t.ingroup
  BY <1>6 DEF IsFilter
<1>9. SameTrees(chain, other, n)
  BY <1>1, <1>4, <1>7 DEF SameTrees
<1>10. \A k \in 1 .. n : other[k].orbits = IF k = l THEN o ELSE chain[k].orbits
  BY <1>4, <1>7
<1> QED
  BY <1>1, <1>8, <1>9, <1>10

\* After the orbits of a level were joined.
LEMMA JoinedTraced ==
  ASSUME NEW t, NEW n, Traced(t, n), NEW l \in 1 .. n, Passed(t, l - 1), NEW o,
         NEW u, u = Joined(t, l, o)
  PROVE  Traced(u, n) /\ Passed(u, l - 1)
<1>1. IsFilter(t, n) /\ IsChain(t.levels, n) /\ n \in Nat
  BY DEF Traced, IsFilter, IsChain
<1>2. /\ u.ring = t.ring /\ u.w = t.w /\ u.curr = t.curr /\ u.stop = t.stop
      /\ SameTrees(t.levels, u.levels, n)
  BY <1>1, JoinedShape
<1>3. IsFilter(u, n)
  BY <1>1, JoinedFilter
<1>4. ChainLeads(u.ring, u.levels, n)
  <2>1. PICK nodes, chain, other : nodes = t.ring /\ chain = t.levels /\ other = u.levels
    OBVIOUS
  <2>2. IsChain(chain, n) /\ ChainLeads(nodes, chain, n) /\ SameTrees(chain, other, n)
    BY <1>1, <1>2, <2>1 DEF Traced
  <2>3. ChainLeads(nodes, other, n)
    BY <2>2, SameChainLeads
  <2> QED
    BY <1>2, <2>1, <2>3
<1>5. Passed(u, l - 1)
  <2>1. PICK chain, other, m : chain = t.levels /\ other = u.levels /\ m = l - 1
    OBVIOUS
  <2>2. m \in 0 .. n /\ \A k \in 1 .. n : other[k].fixed = chain[k].fixed
    BY <1>1, <1>2, <2>1 DEF SameTrees
  <2>3. (InUse(other, m) <=> InUse(chain, m)) /\ Before(other, m + 1) = Before(chain, m + 1)
    BY <1>1, <2>2, SameUse
  <2> QED
    BY <1>2, <2>1, <2>3 DEF Passed
<1> QED
  BY <1>2, <1>3, <1>4, <1>5 DEF Traced, HoldsCurrent

\* At a level that is in use.
AtLevel(t, n, l) ==
    /\ Traced(t, n) /\ InUse(t.levels, l) /\ FixesAll(t.w, Before(t.levels, l))

\* The base point comes to a point of the vector.
Arrives(t, l) == t.w[t.levels[l].fixed] \in Held(t.levels[l])

\* After points came into the vector of a level.
LEMMA GrowsTraced ==
  ASSUME NEW t, NEW n, NEW l \in 1 .. n, AtLevel(t, n, l),
         NEW u, IsFilter(u, n), NEW x, Grows(t, u, l, n, x)
  PROVE  AtLevel(u, n, l) /\ u.w = t.w
<1>1. PICK chain, other, nodes, more, B, w :
         /\ chain = t.levels /\ other = u.levels /\ nodes = t.ring /\ more = u.ring
         /\ B = Before(chain, l) /\ w = t.w
  OBVIOUS
<1>2. /\ IsChain(chain, n) /\ Counted(nodes, Refs(chain, n)) /\ InUse(chain, l)
      /\ ChainLeads(nodes, chain, n) /\ PermsIn(nodes) /\ w \in Perms /\ FixesAll(w, B)
      /\ n \in Nat
  BY <1>1 DEF AtLevel, Traced, IsFilter, IsChain
<1>3. /\ u.w = w /\ u.curr = x /\ x \in Nat \ {0} /\ more[x].p = w
      /\ DOMAIN more = DOMAIN nodes \cup {x}
      /\ \A y \in DOMAIN nodes : more[y].p = nodes[y].p
      /\ \A k \in 1 .. n : k # l => other[k] = chain[k]
      /\ Grown(chain[l], other[l], Newcomers(t, l), x, w)
  BY <1>1 DEF Grows
<1>4. \A k \in 1 .. n : other[k].fixed = chain[k].fixed
  BY <1>3 DEF Grown
<1>5. \A k \in 1 .. n : (InUse(other, k) <=> InUse(chain, k)) /\ Before(other, k) = Before(chain, k)
  <2> TAKE k \in 1 .. n
  <2>1. k \in 0 .. n
    BY <1>2
  <2> QED
    BY <1>2, <1>4, <2>1, SameUse
<1>6. \A k \in 1 .. n : \A i \in Tree(chain[k]) : more[chain[k].vec[i]].p = nodes[chain[k].vec[i]].p
  BY <1>2, <1>3, TreeNodes
<1>7. ASSUME NEW k \in 1 .. n, InUse(other, k)
      PROVE  Leads(more, other[k], Before(other, k))
  <2>1. InUse(chain, k) /\ Before(other, k) = Before(chain, k)
    BY <1>5, <1>7
  <2>2. PICK level, v, C : level = chain[k] /\ v = other[k] /\ C = Before(chain, k)
    OBVIOUS
  <2>3. Leads(nodes, level, C) /\ IsLevel(level)
    BY <1>2, <2>1, <2>2 DEF ChainLeads, IsChain
  <2>4. \A i \in Tree(level) : more[level.vec[i]].p = nodes[level.vec[i]].p
    BY <1>6, <2>2
  <2>5. CASE k # l
    <3>1. v = level
      BY <1>3, <2>2, <2>5
    <3>2. Leads(more, v, C)
      BY <2>3, <2>4, <3>1, LeadsSame
    <3> QED
      BY <2>1, <2>2, <3>2
  <2>6. CASE k = l
    <3>1. PICK new : new = Newcomers(t, l)
      OBVIOUS
    <3>2. Grown(level, v, new, x, w) /\ B = C
      BY <1>1, <1>3, <2>2, <2>6, <3>1
    <3>3. C \subseteq Points
      BY <1>2, <2>1, <2>2, BeforePoints
    <3>4. w \in Perms /\ FixesAll(w, C) /\ x \in Nat \ {0} /\ more[x].p = w
      BY <1>2, <1>3, <3>2
    <3>5. Leads(more, v, C)
      BY <2>3, <2>4, <3>2, <3>3, <3>4, GrownLeads
    <3> QED
      BY <2>1, <2>2, <3>5
  <2> QED
    BY <2>5, <2>6
<1>8. ChainLeads(more, other, n)
  BY <1>7 DEF ChainLeads
<1>9. PermsIn(more)
  BY <1>2, <1>3 DEF PermsIn
<1>10. HoldsCurrent(u)
  BY <1>1, <1>3 DEF HoldsCurrent
<1>11. Traced(u, n)
  BY <1>1, <1>2, <1>3, <1>8, <1>9, <1>10 DEF Traced
<1>12. InUse(other, l) /\ FixesAll(u.w, Before(other, l))
  BY <1>1, <1>2, <1>3, <1>5
<1> QED
  BY <1>1, <1>3, <1>11, <1>12 DEF AtLevel

\* After the vector was extended it has the point that the base point comes to.
LEMMA ExtendTraced ==
  ASSUME NEW t, NEW n, NEW l \in 1 .. n, AtLevel(t, n, l), NEW u, u = ExtendVector(t, l)
  PROVE  AtLevel(u, n, l) /\ Arrives(u, l)
<1>1. PICK level, w, new : level = t.levels[l] /\ w = t.w /\ new = Newcomers(t, l)
  OBVIOUS
<1>2. /\ IsFilter(t, n) /\ HoldsCurrent(t) /\ w \in Perms /\ IsLevel(level)
      /\ IsFilter(u, n)
  <2>1. IsFilter(t, n) /\ HoldsCurrent(t) /\ w \in Perms
    BY <1>1 DEF AtLevel, Traced
  <2>2. IsLevel(level)
    BY <1>1, <2>1 DEF IsFilter, IsChain
  <2> QED
    BY <2>1, <2>2, ExtendFilter
<1>3. PICK B : Leads(t.ring, level, B)
  BY <1>1 DEF AtLevel, Traced, ChainLeads
<1>4. level.fixed \in Points /\ level.vec[level.fixed] # NULL
  BY <1>3 DEF Leads, NULL, ID_PERMNODE
<1>5. PICK j : j = w[level.fixed]
  OBVIOUS
<1>6. j \in Points
  BY <1>2, <1>4, <1>5 DEF Perms
<1>7. j \in Held(level) \/ j \in new
  <2> SUFFICES ASSUME level.vec[j] = NULL PROVE j \in new
    BY <1>6 DEF Held
  <2>1. j # level.fixed
    BY <1>4
  <2>2. PICK k \in 1 .. N : applyperm(Identity, w, k)[w[level.fixed]] = level.fixed
    BY <1>2, <1>4, <1>5, <2>1, Returns
  <2>3. k \in Reach(level.vec, w, j)
    BY <1>4, <1>5, <2>2 DEF Reach
  <2> QED
    BY <1>1, <1>6, <2>3 DEF Newcomers
<1>8. CASE new = {}
  <2>1. u = t
    BY <1>1, <1>8, Zenon DEF ExtendVector, Newcomers
  <2> QED
    BY <1>1, <1>5, <1>7, <1>8, <2>1 DEF Arrives
<1>9. CASE new # {}
  <2>1. PICK x : Grows(t, u, l, n, x)
    BY <1>1, <1>2, <1>9, ExtendGrows
  <2>2. AtLevel(u, n, l) /\ u.w = t.w
    BY <1>2, <2>1, GrowsTraced
  <2>3. Grown(level, u.levels[l], new, x, w) /\ x \in Nat \ {0}
    BY <1>1, <2>1 DEF Grows
  <2>4. Arrives(u, l)
    BY <1>1, <1>5, <1>6, <1>7, <2>2, <2>3 DEF Arrives, Grown, Held, NULL
  <2> QED
    BY <2>2, <2>4
<1> QED
  BY <1>8, <1>9

\* After the base point was brought back: it is fixed, and so are those before it.
LEMMA SiftTraced ==
  ASSUME NEW t, NEW n, NEW l \in 1 .. n, AtLevel(t, n, l), Arrives(t, l),
         NEW u, u = Sift(t, l)
  PROVE  Traced(u, n) /\ Passed(u, l)
<1>1. PICK level, w, B, nodes : level = t.levels[l] /\ w = t.w /\ B = Before(t.levels, l)
                                /\ nodes = t.ring
  OBVIOUS
<1>2. IsFilter(t, n) /\ IsChain(t.levels, n) /\ IsLevel(level) /\ n \in Nat
  BY <1>1 DEF AtLevel, Traced, IsFilter, IsChain
<1>3. B \subseteq Points
  BY <1>1, <1>2, BeforePoints DEF AtLevel
<1>4. /\ Leads(nodes, level, B) /\ w \in Perms /\ FixesAll(w, B)
      /\ w[level.fixed] \in Held(level)
  BY <1>1 DEF AtLevel, Traced, ChainLeads, Arrives
<1>5. Before(t.levels, l + 1) = B \cup {level.fixed}
  <2>1. l + 1 - 1 = l /\ l \in 1 .. l /\ \A i : i \in 1 .. l <=> i \in 1 .. l - 1 \/ i = l
    BY <1>2
  <2> QED
    BY <1>1, <2>1 DEF Before
<1>6. IsFilter(u, n)
  BY <1>2, SiftFilter
<1>7. CASE w[level.fixed] = level.fixed
  <2>1. u = t
    BY <1>1, <1>7, Zenon DEF Sift
  <2>2. FixesAll(w, Before(t.levels, l + 1))
    BY <1>4, <1>5, <1>7 DEF FixesAll
  <2> QED
    BY <1>1, <2>1, <2>2 DEF AtLevel, Passed
<1>8. CASE w[level.fixed] # level.fixed
  <2>1. PICK b : b = Back(nodes, level, w)
    OBVIOUS
  <2>2. u = [t EXCEPT !.w = b, !.curr = NULL]
    BY <1>1, <1>8, <2>1, Zenon DEF Sift
  <2>3. b \in Perms /\ FixesAll(b, B) /\ b[level.fixed] = level.fixed
    BY <1>2, <1>3, <1>4, <2>1, BackHome
  <2>4. u.ring = t.ring /\ u.levels = t.levels /\ u.w = b /\ u.curr = NULL
    BY <1>2, <2>2 DEF IsFilter
  <2>5. FixesAll(b, Before(t.levels, l + 1))
    BY <1>5, <2>3 DEF FixesAll
  <2>6. Traced(u, n)
    BY <1>6, <2>3, <2>4 DEF AtLevel, Traced, HoldsCurrent
  <2> QED
    BY <2>4, <2>5, <2>6 DEF AtLevel, Passed
<1> QED
  BY <1>7, <1>8

\* After the loop over the levels was left.
LEMMA StopTraced ==
  ASSUME NEW t, NEW n, Traced(t, n), NEW u, u = [t EXCEPT !.stop = TRUE]
  PROVE  Traced(u, n) /\ Stopped(u)
<1>1. IsFilter(t, n)
  BY DEF Traced
<1>2. IsFilter(u, n)
  BY <1>1, StopFilter
<1>3. u.ring = t.ring /\ u.levels = t.levels /\ u.w = t.w /\ u.curr = t.curr /\ u.stop
  BY <1>1 DEF IsFilter
<1> QED
  BY <1>2, <1>3 DEF Traced, HoldsCurrent, Stopped

\* What has come through the levels before a level with a base point is at that level.
LEMMA LevelReached ==
  ASSUME NEW t, NEW n, Traced(t, n), NEW l \in 1 .. n, Passed(t, l - 1),
         ~ t.levels[l].fixed < 0
  PROVE  AtLevel(t, n, l)
<1>1. n \in Nat /\ t.levels[l].fixed \in Int
  <2>1. IsChain(t.levels, n)
    BY DEF Traced, IsFilter
  <2>2. n \in Nat /\ IsLevel(t.levels[l])
    BY <2>1 DEF IsChain
  <2> QED
    BY <2>2, NPositive DEF IsLevel
<1>2. l - 1 + 1 = l /\ \A i \in 1 .. l : i \in 1 .. l - 1 \/ i = l
  BY <1>1
<1>3. InUse(t.levels, l)
  <2>1. \A i \in 1 .. l - 1 : t.levels[i].fixed >= 0
    BY DEF Passed, InUse
  <2>2. t.levels[l].fixed >= 0
    BY <1>1
  <2> QED
    BY <1>2, <2>1, <2>2 DEF InUse
<1> QED
  BY <1>2, <1>3 DEF AtLevel, Passed

\* One level that has a base point, or none.
LEMMA VectorTraced ==
  ASSUME NEW t, NEW n, Traced(t, n), NEW l \in 1 .. n, Passed(t, l - 1),
         NEW u, u = ThroughVector(t, l)
  PROVE  Traced(u, n) /\ (Stopped(u) \/ Passed(u, l))
<1>1. CASE t.levels[l].fixed < 0
  <2>1. u = [t EXCEPT !.stop = TRUE]
    BY <1>1, Zenon DEF ThroughVector
  <2> QED
    BY <2>1, StopTraced
<1>2. CASE ~ t.levels[l].fixed < 0
  <2>1. u = Sift(ExtendVector(t, l), l)
    BY <1>2, Zenon DEF ThroughVector, With
  <2>2. PICK v : v = ExtendVector(t, l)
    OBVIOUS
  <2>3. AtLevel(t, n, l)
    BY <1>2, LevelReached
  <2>4. AtLevel(v, n, l) /\ Arrives(v, l)
    BY <2>2, <2>3, ExtendTraced
  <2>5. u = Sift(v, l)
    BY <2>1, <2>2
  <2> QED
    BY <2>4, <2>5, SiftTraced
<1> QED
  BY <1>1, <1>2

\* One level: the permutation comes out fixing the base points up to it.
LEMMA LevelTraced ==
  ASSUME NEW t, NEW n, Traced(t, n), NEW l \in 1 .. n, Stopped(t) \/ Passed(t, l - 1),
         NEW u, u = FilterLevel(t, l)
  PROVE  Traced(u, n) /\ (Stopped(u) \/ Passed(u, l))
<1>1. \/ u = [t EXCEPT !.stop = TRUE]
      \/ /\ ~ Stopped(t)
         /\ u = ThroughVector(Joined(t, l, JoinOrbits(t.levels[l].orbits, t.w)), l)
  BY Zenon DEF FilterLevel, With, Stopped
<1>2. CASE u = [t EXCEPT !.stop = TRUE]
  BY <1>2, StopTraced
<1>3. CASE /\ ~ Stopped(t)
           /\ u = ThroughVector(Joined(t, l, JoinOrbits(t.levels[l].orbits, t.w)), l)
  <2>1. PICK o : o = JoinOrbits(t.levels[l].orbits, t.w)
    OBVIOUS
  <2>2. PICK v : v = Joined(t, l, o)
    OBVIOUS
  <2>3. Traced(v, n) /\ Passed(v, l - 1)
    BY <1>3, <2>2, JoinedTraced
  <2>4. u = ThroughVector(v, l)
    BY <1>3, <2>1, <2>2
  <2> QED
    BY <2>3, <2>4, VectorTraced
<1> QED
  BY <1>1, <1>2, <1>3

Comes(f, n) ==
    \A l \in 0 .. n : Traced(f[l], n) /\ (Stopped(f[l]) \/ Passed(f[l], l))

\* All levels, one by one.
LEMMA FilteredSteps ==
  ASSUME NEW nodes, IsRing(nodes), NEW chain, NEW n, IsChain(chain, n),
         Counted(nodes, Refs(chain, n)), PermsIn(nodes), ChainLeads(nodes, chain, n),
         NEW p \in Perms, NEW ingroup \in BOOLEAN,
         NEW s, s = Started(nodes, chain, p, ingroup),
         NEW t, t = Filtered(nodes, chain, p, ingroup)
  PROVE  \E f : FiltersTo(f, s, n) /\ t = f[n] /\ Comes(f, n)
<1>1. n \in Nat /\ Len(chain) = n
  BY ChainRefs DEF IsChain
<1>3. PICK f : FiltersTo(f, s, n) /\ t = f[n]
  BY <1>1, FilteredIsLast
<1>4. Traced(s, n) /\ Passed(s, 0)
  <2>1. IsFilter(s, n)
    BY DEF Started, IsFilter
  <2>2. s.ring = nodes /\ s.levels = chain /\ s.w = p /\ s.curr = NULL
    BY DEF Started
  <2>3. Passed(s, 0)
    BY DEF Passed, InUse, Before, FixesAll
  <2> QED
    BY <2>1, <2>2, <2>3 DEF Traced, HoldsCurrent
<1> DEFINE Good(l) == Traced(f[l], n) /\ (Stopped(f[l]) \/ Passed(f[l], l))
           T == {l \in 0 .. n : ~ Good(l)}
<1>5. \A l \in 0 .. n : f[l] = IF l = 0 THEN s ELSE FilterLevel(f[l - 1], l)
  BY <1>3 DEF FiltersTo
<1>6. T = {}
  <2> SUFFICES ASSUME T # {} PROVE FALSE
    OBVIOUS
  <2>1. PICK l \in T : \A y \in T : l <= y
    <3>1. T \in SUBSET Nat
      BY <1>1
    <3> HIDE DEF T
    <3> QED
      BY <3>1, Least
  <2>2. CASE l = 0
    BY <1>4, <1>5, <2>1, <2>2
  <2>3. CASE l # 0
    <3>1. l \in 1 .. n /\ l - 1 \in 0 .. n /\ l - 1 \notin T
      BY <1>1, <2>1, <2>3
    <3>2. Good(l - 1)
      BY <3>1
    <3>3. f[l] = FilterLevel(f[l - 1], l)
      BY <1>5, <2>1, <2>3
    <3>4. PICK a, b : a = f[l - 1] /\ b = f[l]
      OBVIOUS
    <3>5. Traced(a, n) /\ (Stopped(a) \/ Passed(a, l - 1)) /\ b = FilterLevel(a, l)
      BY <3>2, <3>3, <3>4
    <3>6. Traced(b, n) /\ (Stopped(b) \/ Passed(b, l))
      <4> HIDE DEF T, Good
      <4> QED
        BY <3>1, <3>5, LevelTraced
    <3> QED
      BY <2>1, <3>4, <3>6
  <2> QED
    BY <2>2, <2>3
<1>7. Comes(f, n)
  BY <1>6 DEF Comes
<1> QED
  BY <1>3, <1>7

\* What has come through all levels.
LEMMA FilteredTraced ==
  ASSUME NEW nodes, IsRing(nodes), NEW chain, NEW n, IsChain(chain, n),
         Counted(nodes, Refs(chain, n)), PermsIn(nodes), ChainLeads(nodes, chain, n),
         NEW p \in Perms, NEW ingroup \in BOOLEAN,
         NEW t, t = Filtered(nodes, chain, p, ingroup)
  PROVE  Traced(t, n)
<1>1. PICK s : s = Started(nodes, chain, p, ingroup)
  OBVIOUS
<1>2. PICK f : FiltersTo(f, s, n) /\ t = f[n] /\ Comes(f, n)
  BY <1>1, FilteredSteps
<1>3. n \in 0 .. n
  BY DEF IsChain
<1> QED
  BY <1>2, <1>3 DEF Comes

\* filterschreier: the counts stay exact, and the edges lead home.
LEMMA FilterLeads ==
  ASSUME NEW nodes, IsRing(nodes), NEW chain, NEW n, IsChain(chain, n),
         Counted(nodes, Refs(chain, n)), PermsIn(nodes), ChainLeads(nodes, chain, n),
         NEW p \in Perms, NEW ingroup \in BOOLEAN,
         NEW r, r = filterschreier(nodes, chain, p, ingroup)
  PROVE  /\ IsRing(r.ring) /\ IsChain(r.levels, n) /\ Counted(r.ring, Refs(r.levels, n))
         /\ PermsIn(r.ring) /\ ChainLeads(r.ring, r.levels, n)
<1>1. PICK t : t = Filtered(nodes, chain, p, ingroup)
  OBVIOUS
<1>2. Traced(t, n)
  BY <1>1, FilteredTraced
<1>3. r = Outcome(t, p)
  <2>1. r = Outcome(Filtered(nodes, chain, p, ingroup), p)
    BY Zenon DEF filterschreier, With
  <2> QED
    BY <1>1, <2>1, Zenon
<1>4. r.levels = t.levels /\ (r.ring = t.ring \/ Adds(r.ring, t.ring, p))
  <2>1. \E more, changed : /\ more = t.ring \/ Adds(more, t.ring, p)
                           /\ r = [ring |-> more, levels |-> t.levels, changed |-> changed]
    BY <1>3, Zenon DEF Outcome, Adds
  <2> QED
    BY <2>1
<1>5. IsRing(r.ring) /\ IsChain(r.levels, n) /\ Counted(r.ring, Refs(r.levels, n))
  BY FilterCounted
<1>6. PICK old, more, other : old = t.ring /\ more = r.ring /\ other = t.levels
  OBVIOUS
<1>7. /\ IsRing(old) /\ PermsIn(old) /\ ChainLeads(old, other, n) /\ IsChain(other, n)
      /\ Counted(old, Refs(other, n)) /\ (more = old \/ Adds(more, old, p))
  BY <1>2, <1>4, <1>6 DEF Traced, IsFilter
<1>8. CASE more = old
  BY <1>4, <1>5, <1>6, <1>7, <1>8
<1>9. CASE Adds(more, old, p)
  <2>1. PICK x : x = FreeNode(old)
    OBVIOUS
  <2>2. PICK mark \in BOOLEAN : more = addpermutation(old, p, mark)
    BY <1>9, Zenon DEF Adds
  <2>3. /\ DOMAIN more = DOMAIN old \cup {x} /\ \A y \in DOMAIN old : more[y] = old[y]
        /\ more[x].p = p
    BY <1>7, <2>1, <2>2, AddNode
  <2>4. PermsIn(more)
    BY <1>7, <2>3 DEF PermsIn
  <2>5. \A l \in 1 .. n : \A i \in Tree(other[l]) : more[other[l].vec[i]].p = old[other[l].vec[i]].p
    BY <1>7, <2>3, TreeNodes
  <2>6. SameTrees(other, other, n)
    BY DEF SameTrees
  <2>7. ChainLeads(more, other, n)
    BY <1>7, <2>5, <2>6, SameChainLeads
  <2> QED
    BY <1>4, <1>5, <1>6, <2>4, <2>7
<1> QED
  BY <1>7, <1>8, <1>9

-----------------------------------------------------------------------------
(* The calls *)

Filters(r, nodes, chain, p) ==
    \E ingroup \in BOOLEAN : r = filterschreier(nodes, chain, p, ingroup)

IsGroup(nodes, chain) ==
    /\ IsRing(nodes) /\ PermsIn(nodes)
    /\ \E n : IsChain(chain, n) /\ Counted(nodes, Refs(chain, n)) /\ ChainLeads(nodes, chain, n)

\* The same for the group as a whole.
LEMMA FilterGroup ==
  ASSUME NEW nodes, NEW chain, IsGroup(nodes, chain), NEW p \in Perms,
         NEW r, Filters(r, nodes, chain, p)
  PROVE  IsGroup(r.ring, r.levels)
<1>1. PICK n : /\ IsChain(chain, n) /\ Counted(nodes, Refs(chain, n))
               /\ ChainLeads(nodes, chain, n)
  BY DEF IsGroup
<1>2. PICK ingroup \in BOOLEAN : r = filterschreier(nodes, chain, p, ingroup)
  BY DEF Filters
<1>3. IsRing(nodes) /\ PermsIn(nodes)
  BY DEF IsGroup
<1>4. /\ IsRing(r.ring) /\ IsChain(r.levels, n) /\ Counted(r.ring, Refs(r.levels, n))
      /\ PermsIn(r.ring) /\ ChainLeads(r.ring, r.levels, n)
  BY <1>1, <1>2, <1>3, FilterLeads
<1> QED
  BY <1>4 DEF IsGroup

\* A level that was made anew for a point of the base.
Fresh(level) ==
    /\ level.fixed \in Points
    /\ \A i \in Points : level.vec[i] = IF i = level.fixed THEN ID_PERMNODE ELSE NULL

\* initschreier for a point of the base.
LEMMA FreshLevel ==
  ASSUME NEW x \in Points, NEW v, v = initschreier(x)
  PROVE  Fresh(v) /\ \A o : Fresh([v EXCEPT !.orbits = o])
<1> DEFINE vec == [i \in Points |-> IF i = x THEN ID_PERMNODE ELSE NULL]
           pwr == [i \in Points |-> 0]
<1>1. v = [fixed |-> x, vec |-> vec, pwr |-> pwr, orbits |-> Identity]
  BY DEF initschreier
<1>2. \A i \in Points : vec[i] = IF i = x THEN ID_PERMNODE ELSE NULL
  OBVIOUS
<1> HIDE DEF vec, pwr
<1>3. \A o : [v EXCEPT !.orbits = o] = [fixed |-> x, vec |-> vec, pwr |-> pwr, orbits |-> o]
  BY <1>1
<1> QED
  BY <1>1, <1>2, <1>3 DEF Fresh

\* The levels before the first point of the base that differs stay, those for the rest of
\* the base are new, and a level without a base point comes after them.
LEMMA RebaseLevels ==
  ASSUME NEW nodes, NEW chain, NEW n, IsChain(chain, n), NEW fix \in Seq(Points),
         NEW k \in 0 .. Len(fix) - 1, k < n,
         NEW r, r = Rebase([ring |-> nodes, levels |-> chain], k, fix)
  PROVE  /\ Len(fix) + 1 \in DOMAIN r.levels
         /\ \A l \in DOMAIN r.levels :
                /\ l <= k => r.levels[l] = chain[l]
                /\ k < l /\ l <= Len(fix) => Fresh(r.levels[l])
                /\ l = Len(fix) + 1 => r.levels[l].fixed = -1
<1>1. n \in Nat /\ Len(fix) \in Nat /\ Len(chain) = n /\ k \in Nat
  BY ChainRefs DEF IsChain
<1>2. PICK m : m = Max({n, Len(fix) + 1})
  OBVIOUS
<1>3. m \in Nat \ {0} /\ n <= m /\ Len(fix) + 1 <= m
  BY <1>1, <1>2, MaxOfTwo
<1> DEFINE made == [l \in 1 .. m |-> IF l <= k THEN chain[l] ELSE Made(chain, k, fix, l)]
<1>4. r.levels = made
  BY <1>1, <1>2 DEF Rebase, Made
<1>5. DOMAIN made = 1 .. m /\ Len(fix) + 1 \in 1 .. m
  BY <1>1, <1>3
<1>6. \A l \in 1 .. m : made[l] = IF l <= k THEN chain[l] ELSE Made(chain, k, fix, l)
  OBVIOUS
<1> HIDE DEF made
<1>7. ASSUME NEW l \in 1 .. m
      PROVE  /\ l <= k => made[l] = chain[l]
             /\ k < l /\ l <= Len(fix) => Fresh(made[l])
             /\ l = Len(fix) + 1 => made[l].fixed = -1
  <2>1. l <= k => made[l] = chain[l]
    BY <1>6
  <2>2. k < l => made[l] = Made(chain, k, fix, l)
    BY <1>1, <1>6
  <2>3. ASSUME k < l, l <= Len(fix) PROVE Fresh(made[l])
    <3>1. PICK x, w, o : x = fix[l] /\ w = initschreier(x) /\ o = chain[l].orbits
      OBVIOUS
    <3>2. x \in Points
      BY <1>1, <1>3, <2>3, <3>1
    <3>3. Fresh(w) /\ Fresh([w EXCEPT !.orbits = o])
      BY <3>1, <3>2, FreshLevel
    <3>4. made[l] = w \/ made[l] = [w EXCEPT !.orbits = o]
      BY <1>1, <1>3, <2>2, <2>3, <3>1 DEF Made
    <3> QED
      BY <3>3, <3>4
  <2>4. ASSUME l = Len(fix) + 1 PROVE made[l].fixed = -1
    <3>1. k < l /\ l # k + 1 /\ ~ l <= Len(fix)
      BY <1>1, <2>4
    <3>2. made[l] = initschreier(-1)
      BY <1>1, <1>3, <2>2, <2>4, <3>1 DEF Made
    <3> QED
      BY <3>2 DEF initschreier
  <2> QED
    BY <2>1, <2>3, <2>4
<1> QED
  BY <1>4, <1>5, <1>7

\* getorbits and getorbitsmin for another base.
LEMMA RebaseGroup ==
  ASSUME NEW nodes, NEW chain, IsGroup(nodes, chain), NEW fix \in Seq(Points),
         NEW k \in 0 .. Len(fix) - 1, \A n : IsChain(chain, n) => k < n,
         NEW r, r = Rebase([ring |-> nodes, levels |-> chain], k, fix)
  PROVE  IsGroup(r.ring, r.levels) /\ Keeps(nodes, r.ring)
<1>1. PICK n : /\ IsChain(chain, n) /\ Counted(nodes, Refs(chain, n))
               /\ ChainLeads(nodes, chain, n)
  BY DEF IsGroup
<1>2. IsRing(nodes) /\ PermsIn(nodes) /\ k < n
  BY <1>1 DEF IsGroup
<1>3. PICK left, made : left = r.ring /\ made = r.levels
  OBVIOUS
<1>4. PICK m : IsRing(left) /\ IsChain(made, m) /\ Counted(left, Refs(made, m))
  BY <1>1, <1>2, <1>3, RebaseCounted
<1>5. Keeps(nodes, left)
  BY <1>1, <1>2, <1>3, RebaseCounted
<1>6. PermsIn(left)
  BY <1>2, <1>5 DEF PermsIn, Keeps
<1>7. m \in Nat /\ DOMAIN made = 1 .. m /\ n \in Nat /\ Len(fix) \in Nat
  BY <1>1, <1>4 DEF IsChain
<1>8. /\ Len(fix) + 1 \in 1 .. m
      /\ \A l \in 1 .. m : /\ l <= k => made[l] = chain[l]
                           /\ k < l /\ l <= Len(fix) => Fresh(made[l])
                           /\ l = Len(fix) + 1 => made[l].fixed = -1
  BY <1>1, <1>2, <1>3, <1>7, RebaseLevels
<1>9. ASSUME NEW l \in 1 .. m, InUse(made, l)
      PROVE  Leads(left, made[l], Before(made, l))
  <2>1. l <= Len(fix)
    <3> SUFFICES ASSUME ~ l <= Len(fix) PROVE FALSE
      OBVIOUS
    <3>1. Len(fix) + 1 \in 1 .. l
      BY <1>7, <1>8
    <3>2. made[Len(fix) + 1].fixed >= 0
      BY <1>9, <3>1 DEF InUse
    <3> QED
      BY <1>8, <3>2
  <2>2. CASE l <= k
    <3>1. l \in 1 .. n /\ l \in 1 .. l /\ \A i \in 1 .. l : i \in 1 .. m /\ i <= k
      BY <1>2, <1>7, <2>2
    <3>2. \A i \in 1 .. l : made[i] = chain[i]
      BY <1>8, <3>1
    <3>3. InUse(chain, l) /\ Before(chain, l) = Before(made, l)
      <4>1. \A i \in 1 .. l - 1 : i \in 1 .. l
        BY <3>1
      <4> QED
        BY <1>9, <3>2, <4>1 DEF InUse, Before
    <3>4. PICK level, B : level = chain[l] /\ B = Before(chain, l)
      OBVIOUS
    <3>5. Leads(nodes, level, B) /\ made[l] = level
      BY <1>1, <3>1, <3>2, <3>3, <3>4 DEF ChainLeads
    <3>6. \A i \in Tree(level) : left[level.vec[i]].p = nodes[level.vec[i]].p
      <4>1. \A i \in Tree(level) : level.vec[i] \in DOMAIN left
        BY <1>4, <3>5, TreeNodes
      <4> QED
        BY <1>5, <4>1 DEF Keeps
    <3>7. Leads(left, level, B)
      BY <3>5, <3>6, LeadsSame
    <3> QED
      BY <3>3, <3>4, <3>5, <3>7
  <2>3. CASE ~ l <= k
    <3>1. Fresh(made[l])
      BY <1>2, <1>7, <1>8, <2>1, <2>3
    <3>2. PICK level, B : level = made[l] /\ B = Before(made, l)
      OBVIOUS
    <3>3. Leads(left, level, B)
      BY <3>1, <3>2, NewLeads DEF Fresh
    <3> QED
      BY <3>2, <3>3
  <2> QED
    BY <2>2, <2>3
<1>10. ChainLeads(left, made, m)
  BY <1>9 DEF ChainLeads
<1> QED
  BY <1>3, <1>4, <1>5, <1>6, <1>10 DEF IsGroup

\* A new group has no nodes and one level without a base point.
LEMMA NewGroup ==
  ASSUME NEW nodes, nodes = <<>>, NEW chain, chain = newgroup
  PROVE  IsGroup(nodes, chain)
<1>1. DOMAIN nodes = {} /\ nodes = [x \in DOMAIN nodes |-> nodes[x]]
  OBVIOUS
<1>2. IsRing(nodes) /\ PermsIn(nodes)
  BY <1>1, FS_EmptySet DEF IsRing, PermsIn
<1>3. PICK v : v = initschreier(-1)
  OBVIOUS
<1>4. IsLevel(v) /\ v.fixed = -1 /\ \A i \in Points : v.vec[i] = NULL
  BY <1>3, NPositive DEF initschreier, IsLevel, NULL, ID_PERMNODE
<1>5. chain = <<v>> /\ chain = [l \in 1 .. 1 |-> chain[l]] /\ chain[1] = v
  BY <1>3 DEF newgroup
<1>6. IsChain(chain, 1)
  BY <1>4, <1>5 DEF IsChain
<1>7. \A s \in DOMAIN Refs(chain, 1) : Refs(chain, 1)[s] = NULL
  BY <1>4, <1>5 DEF Refs
<1>8. Counted(nodes, Refs(chain, 1))
  BY <1>1, <1>7 DEF Counted, NULL
<1>9. ChainLeads(nodes, chain, 1)
  <2>1. \A l \in 1 .. 1 : ~ InUse(chain, l)
    BY <1>4, <1>5 DEF InUse
  <2> QED
    BY <2>1 DEF ChainLeads
<1> QED
  BY <1>2, <1>6, <1>8, <1>9 DEF IsGroup

\* How much of a base agrees with the chain.
LEMMA AgreementIs ==
  ASSUME NEW fix \in Bases, NEW k, k = Agreement(fix)
  PROVE  /\ fix \in Seq(Points) /\ k \in 0 .. Len(fix)
         /\ \A i \in 1 .. k : levels[i].fixed = fix[i]
         /\ \A n : IsChain(levels, n) => k < n
<1> DEFINE S == {m \in 0 .. Len(fix) : \A i \in 1 .. m : levels[i].fixed = fix[i]}
           P(x) == x \in S /\ \A y \in S : x >= y
<1>1. fix \in Seq(Points) /\ Len(fix) \in Nat
  BY ConstantsAssumption
<1>2. 0 \in S
  BY <1>1
<1>3. \E x : P(x)
  <2>1. PICK b \in Int : b = Len(fix)
    BY <1>1
  <2>2. S \in SUBSET Int /\ S # {}
    BY <1>1, <1>2
  <2>3. \A x \in S : x <= b
    BY <1>1, <2>1
  <2> HIDE DEF S
  <2>4. PICK x \in S : \A y \in S : y <= x
    BY <2>1, <2>2, <2>3, Greatest
  <2> QED
    BY <2>2, <2>4
<1>4. k = CHOOSE x \in S : \A y \in S : x >= y
  BY Zenon DEF Agreement, Max
<1>5. P(k)
  BY <1>3, <1>4
<1>6. k \in 0 .. Len(fix) /\ \A i \in 1 .. k : levels[i].fixed = fix[i]
  BY <1>5
<1>7. ASSUME NEW n, IsChain(levels, n), ~ k < n PROVE FALSE
  <2>1. n \in Nat \ {0} /\ levels[n].fixed = -1
    BY <1>7 DEF IsChain
  <2>2. n \in 1 .. k /\ n \in 1 .. Len(fix)
    BY <1>1, <1>6, <1>7, <2>1
  <2>3. levels[n].fixed = fix[n]
    BY <1>6, <2>2
  <2>4. fix[n] \in Points
    BY <1>1, <2>2
  <2> QED
    BY <2>1, <2>3, <2>4, NPositive
<1> QED
  BY <1>1, <1>6, <1>7

\* The levels of a base agree with the chain at most up to its last level.
LEMMA AgreementBelow ==
  ASSUME NEW fix \in Bases, Agreement(fix) < Len(fix), NEW k, k = Agreement(fix)
  PROVE  /\ fix \in Seq(Points) /\ k \in 0 .. Len(fix) - 1
         /\ \A n : IsChain(levels, n) => k < n
BY AgreementIs

\* The permutation that a walk is at.
IsWalk(c) ==
    \/ c = Idle
    \/ /\ c = [op |-> c.op, fix |-> c.fix, cell |-> c.cell, w |-> c.w, nfails |-> c.nfails]
       /\ c.w \in Perms

\* The automorphisms that Traces finds are permutations.
LEMMA PoolPerms ==
  ASSUME NEW P \in Pools, NEW p \in P
  PROVE  p \in Perms
BY ConstantsAssumption

\* A random walk stays among permutations.
LEMMA WalksPerms ==
  ASSUME PermsIn(ring), NEW v \in Perms, NEW w \in Walks(v)
  PROVE  w \in Perms
<1> DEFINE Once(S) == {Then(s, p) : s \in S, p \in InRing}
<1>1. \A p \in InRing : p \in Perms
  BY DEF InRing, PermsIn
<1>2. ASSUME NEW S, S \subseteq Perms PROVE Once(S) \subseteq Perms
  BY <1>1, <1>2, ThenAt
<1>3. Walks(v) = Once({v}) \cup Once(Once({v})) \cup Once(Once(Once({v})))
  BY DEF Walks
<1> HIDE DEF Once
<1>4. {v} \subseteq Perms
  OBVIOUS
<1>5. Once({v}) \subseteq Perms
  BY <1>2, <1>4
<1>6. Once(Once({v})) \subseteq Perms
  BY <1>2, <1>5
<1>7. Once(Once(Once({v}))) \subseteq Perms
  BY <1>2, <1>6
<1> QED
  BY <1>3, <1>5, <1>6, <1>7

\* A walk starts at a permutation of the ring.
LEMMA ExpandWalk ==
  ASSUME PermsIn(ring'), NEW op, NEW fix, NEW cell, Expand(op, fix, cell)
  PROVE  IsWalk(call')
<1>1. CASE ring' = <<>>
  BY <1>1 DEF Expand, IsWalk
<1>2. CASE ring' # <<>>
  <2>1. PICK x \in DOMAIN ring' :
           call' = [op |-> op, fix |-> fix, cell |-> cell, w |-> ring'[x].p, nfails |-> 0]
    BY <1>2 DEF Expand
  <2>2. ring'[x].p \in Perms
    BY <2>1 DEF PermsIn
  <2> QED
    BY <2>1, <2>2 DEF IsWalk
<1> QED
  BY <1>1, <1>2

RingInvariant == IsGroup(ring, levels) /\ pool \in Pools /\ IsWalk(call)

\* The inductive invariant: nodes and levels have their form, the counts are exact, and the
\* edges of every vector that is in use lead to its base point and keep those before.
THEOREM RingStays == Spec => []RingInvariant
<1>1. Init => RingInvariant
  BY NewGroup DEF Init, RingInvariant, IsWalk
<1>2. RingInvariant /\ [Next]_vars => RingInvariant'
  <2> SUFFICES ASSUME RingInvariant, [Next]_vars PROVE RingInvariant'
    OBVIOUS
  <2>1. IsGroup(ring, levels) /\ pool \in Pools /\ IsWalk(call) /\ PermsIn(ring)
    BY DEF RingInvariant, IsGroup
  <2>2. CASE addgenerator
    <3>1. PICK p \in pool : \E t \in {filterschreier(ring, levels, p, FALSE)} :
                                ring' = t.ring /\ levels' = t.levels
      BY <2>2, Zenon DEF addgenerator
    <3>2. PICK t : Filters(t, ring, levels, p) /\ ring' = t.ring /\ levels' = t.levels
      BY <3>1, Zenon DEF Filters
    <3>3. p \in Perms
      BY <2>1, <3>1, PoolPerms
    <3>4. IsGroup(t.ring, t.levels)
      BY <2>1, <3>2, <3>3, FilterGroup
    <3>5. pool' = pool /\ call' = call
      BY <2>2 DEF addgenerator
    <3> QED
      BY <2>1, <3>2, <3>4, <3>5 DEF RingInvariant
  <2>3. CASE GetKnownOrbits
    BY <2>1, <2>3 DEF GetKnownOrbits, RingInvariant
  <2>4. CASE GetOrbits
    <3>1. PICK fix \in Bases :
             /\ Agreement(fix) < Len(fix)
             /\ \E s \in {Rebase([ring |-> ring, levels |-> levels], Agreement(fix), fix)} :
                    ring' = s.ring /\ levels' = s.levels
             /\ Expand("getorbits", fix, {})
      BY <2>4, Zenon DEF GetOrbits
    <3>2. PICK k : k = Agreement(fix)
      OBVIOUS
    <3>3. PICK s : /\ s = Rebase([ring |-> ring, levels |-> levels], k, fix)
                   /\ ring' = s.ring /\ levels' = s.levels
      BY <3>1, <3>2
    <3>4. /\ fix \in Seq(Points) /\ k \in 0 .. Len(fix) - 1
          /\ \A n : IsChain(levels, n) => k < n
      BY <3>1, <3>2, AgreementBelow
    <3>5. IsGroup(s.ring, s.levels)
      BY <2>1, <3>3, <3>4, RebaseGroup
    <3>6. IsWalk(call')
      <4>1. PermsIn(ring')
        BY <3>3, <3>5 DEF IsGroup
      <4> QED
        BY <3>1, <4>1, ExpandWalk
    <3>7. pool' = pool
      BY <2>4 DEF GetOrbits
    <3> QED
      BY <2>1, <3>3, <3>5, <3>6, <3>7 DEF RingInvariant
  <2>5. CASE GetOrbitsMin
    <3>1. PICK fix \in Bases \ {<<>>}, cell \in Cells :
             /\ \E s \in {Rebase([ring |-> ring, levels |-> levels], 0, fix)} :
                    ring' = s.ring /\ levels' = s.levels
             /\ call' = Idle \/ Expand("getorbitsmin", fix, cell)
      BY <2>5, Zenon DEF GetOrbitsMin
    <3>2. fix \in Seq(Points) /\ fix # <<>>
      BY <3>1, ConstantsAssumption
    <3>3. 0 \in 0 .. Len(fix) - 1
      BY <3>2
    <3>4. \A n : IsChain(levels, n) => 0 < n
      BY DEF IsChain
    <3>5. PICK s : /\ s = Rebase([ring |-> ring, levels |-> levels], 0, fix)
                   /\ ring' = s.ring /\ levels' = s.levels
      BY <3>1
    <3>6. IsGroup(s.ring, s.levels)
      BY <2>1, <3>2, <3>3, <3>4, <3>5, RebaseGroup
    <3>7. IsWalk(call')
      <4>1. PermsIn(ring')
        BY <3>5, <3>6 DEF IsGroup
      <4>2. CASE call' = Idle
        BY <4>2 DEF IsWalk
      <4>3. CASE Expand("getorbitsmin", fix, cell)
        BY <4>1, <4>3, ExpandWalk
      <4> QED
        BY <3>1, <4>2, <4>3
    <3>8. pool' = pool
      BY <2>5 DEF GetOrbitsMin
    <3> QED
      BY <2>1, <3>5, <3>6, <3>7, <3>8 DEF RingInvariant
  <2>6. CASE Filter
    <3>1. PICK w \in Walks(call.w) :
             \E t \in {filterschreier(ring, levels, w, TRUE)} :
                 /\ ring' = t.ring /\ levels' = t.levels
                 /\ call' = Idle \/ \E k : call' = [call EXCEPT !.w = w, !.nfails = k]
      BY <2>6, Zenon DEF Filter
    <3>2. PICK t : Filters(t, ring, levels, w) /\ ring' = t.ring /\ levels' = t.levels
      BY <3>1, Zenon DEF Filters
    <3>3. call # Idle
      BY <2>6 DEF Filter
    <3>4. w \in Perms
      <4>1. call.w \in Perms
        BY <2>1, <3>3 DEF IsWalk
      <4> QED
        BY <2>1, <3>1, <4>1, WalksPerms
    <3>5. IsGroup(t.ring, t.levels)
      BY <2>1, <3>2, <3>4, FilterGroup
    <3>6. IsWalk(call')
      <4>1. CASE call' = Idle
        BY <4>1 DEF IsWalk
      <4>2. ASSUME NEW k, call' = [call EXCEPT !.w = w, !.nfails = k] PROVE IsWalk(call')
        <5>1. call' = [op |-> call.op, fix |-> call.fix, cell |-> call.cell, w |-> w, nfails |-> k]
          BY <2>1, <3>3, <4>2 DEF IsWalk
        <5> QED
          BY <3>4, <5>1 DEF IsWalk
      <4> QED
        BY <3>1, <4>1, <4>2
    <3>7. pool' = pool
      BY <2>6 DEF Filter
    <3> QED
      BY <2>1, <3>2, <3>5, <3>6, <3>7 DEF RingInvariant
  <2>7. CASE FindCurrOrbits
    BY <2>1, <2>7 DEF FindCurrOrbits, RingInvariant
  <2>8. CASE FreeSchreier
    <3>1. ring' = <<>> /\ levels' = newgroup /\ pool' \in Pools /\ call' = call
      BY <2>8 DEF FreeSchreier
    <3>2. IsGroup(ring', levels')
      BY <3>1, NewGroup
    <3> QED
      BY <2>1, <3>1, <3>2 DEF RingInvariant
  <2>9. CASE UNCHANGED vars
    BY <2>1, <2>9 DEF vars, RingInvariant
  <2> QED
    BY <2>2, <2>3, <2>4, <2>5, <2>6, <2>7, <2>8, <2>9 DEF Next
<1> QED
  BY <1>1, <1>2, PTL DEF Spec

\* Nodes are freed with the last reference to them and not before (schreier.c, clearvector).
LEMMA CountsExact ==
  ASSUME RingInvariant
  PROVE  NodesCounted
<1>1. PICK n : IsChain(levels, n) /\ Counted(ring, Refs(levels, n))
  BY DEF RingInvariant, IsGroup
<1>2. DOMAIN levels = 1 .. n
  BY <1>1 DEF IsChain
<1>3. \A x : Uses(Refs(levels, n), x) = References(x)
  BY <1>2 DEF Uses, Refs, References
<1>4. \A x \in DOMAIN ring : /\ ring[x].refcount = Cardinality(References(x))
                             /\ ring[x].mark \/ References(x) # {}
  BY <1>1, <1>3 DEF Counted
<1>5. ASSUME NEW l \in DOMAIN levels, NEW i \in Points, levels[l].vec[i] > 0
      PROVE  levels[l].vec[i] \in DOMAIN ring
  <2>1. <<l, i>> \in DOMAIN Refs(levels, n) /\ Refs(levels, n)[<<l, i>>] = levels[l].vec[i]
    BY <1>2 DEF Refs
  <2> QED
    BY <1>1, <1>5, <2>1 DEF Counted
<1> QED
  BY <1>4, <1>5 DEF NodesCounted

\* No count is above the number of entries that there are.
LEMMA TypesHold ==
  ASSUME RingInvariant
  PROVE  TypeOK
<1>1. PICK n : IsChain(levels, n) /\ Counted(ring, Refs(levels, n))
  BY DEF RingInvariant, IsGroup
<1>2. DOMAIN levels = 1 .. n /\ Len(levels) = n /\ n \in Nat \ {0}
  BY <1>1, ChainRefs DEF IsChain
<1>3. levels[n].fixed = -1 /\ \A l \in 1 .. n : levels[l].fixed \in -1 .. N - 1
  BY <1>1 DEF IsChain, IsLevel
<1>4. ASSUME NEW x \in DOMAIN ring
      PROVE  ring[x].p \in Perms /\ ring[x].refcount \in 0 .. N * n
  <2>1. PICK refs : refs = Refs(levels, n)
    OBVIOUS
  <2>2. AreRefs(refs) /\ DOMAIN refs = (1 .. n) \X Points
    BY <1>1, <2>1, ChainRefs
  <2>3. IsFiniteSet(Uses(refs, x)) /\ Cardinality(Uses(refs, x)) \in Nat
    BY <2>2, UsesFinite
  <2>4. IsFiniteSet(1 .. n) /\ Cardinality(1 .. n) = n
    BY <1>2, FS_Interval
  <2>5. IsFiniteSet(Points) /\ Cardinality(Points) = N /\ N \in Nat
    BY NPositive, FS_Interval DEF Points
  <2>6. IsFiniteSet((1 .. n) \X Points) /\ Cardinality((1 .. n) \X Points) = n * N
    BY <2>4, <2>5, FS_Product
  <2>7. Cardinality(Uses(refs, x)) <= n * N
    <3>1. Uses(refs, x) \subseteq (1 .. n) \X Points
      BY <2>2 DEF Uses
    <3>2. Cardinality(Uses(refs, x)) <= Cardinality((1 .. n) \X Points)
      BY <2>6, <3>1, FS_Subset
    <3> QED
      BY <2>6, <3>2
  <2>8. ring[x].refcount = Cardinality(Uses(refs, x))
    BY <1>1, <2>1 DEF Counted
  <2>9. ring[x].p \in Perms
    BY DEF RingInvariant, IsGroup, PermsIn
  <2>10. n * N = N * n /\ n * N \in Nat
    BY <1>2, <2>5
  <2> QED
    BY <2>3, <2>7, <2>8, <2>9, <2>10
<1> QED
  BY <1>2, <1>3, <1>4 DEF TypeOK

\* From each entry of a vector that is in use its edges lead to the base point.
LEMMA EdgesLeadHome ==
  ASSUME RingInvariant
  PROVE  EdgesLead
<1>1. PICK n : IsChain(levels, n) /\ ChainLeads(ring, levels, n)
  BY DEF RingInvariant, IsGroup
<1>2. DOMAIN levels = 1 .. n /\ n \in Nat
  BY <1>1 DEF IsChain
<1> SUFFICES ASSUME NEW l \in Used, levels[l].fixed >= 0
             PROVE  LET level == levels[l] IN
                    /\ level.vec[level.fixed] = ID_PERMNODE
                    /\ {i \in Points : level.vec[i] # NULL} = Rooted(ring, level)
                    /\ \A i \in Rooted(ring, level) \ {level.fixed} : \A m \in 1 .. l - 1 :
                           Edge(ring, level, i)[levels[m].fixed] = levels[m].fixed
  BY DEF EdgesLead
<1>3. l \in 1 .. n /\ \A i \in 1 .. l - 1 : levels[i].fixed >= 0
  BY <1>2 DEF Used
<1>4. InUse(levels, l)
  <2>1. \A i \in 1 .. l : i \in 1 .. l - 1 \/ i = l
    BY <1>2, <1>3
  <2> QED
    BY <1>3, <2>1 DEF InUse
<1>5. PICK level, B : level = levels[l] /\ B = Before(levels, l)
  OBVIOUS
<1>6. IsLevel(level) /\ Leads(ring, level, B)
  BY <1>1, <1>3, <1>4, <1>5 DEF IsChain, ChainLeads
<1>7. Rooted(ring, level) = Held(level)
  BY <1>6, RootedIsAll
<1>8. Held(level) = Tree(level) \cup {level.fixed}
  BY <1>6, EntryOf
<1>9. \A i \in Tree(level) : \A m \in 1 .. l - 1 :
          Edge(ring, level, i)[levels[m].fixed] = levels[m].fixed
  BY <1>5, <1>6 DEF Leads, Before
<1>10. level.vec[level.fixed] = ID_PERMNODE
  BY <1>6 DEF Leads
<1> QED
  BY <1>5, <1>7, <1>8, <1>9, <1>10 DEF Held

\* The vectors of schreier.c hold what its header says of them.
THEOREM VectorsHoldTheorem == Spec => []VectorsHold
<1>1. RingInvariant => VectorsHold
  BY CountsExact, TypesHold, EdgesLeadHome DEF VectorsHold
<1> QED
  BY <1>1, RingStays, PTL

-----------------------------------------------------------------------------
(* What a set of permutations generates *)

Maps == [Points -> Points]

RightClosed(R, S) == \A x \in R, s \in S : Then(x, s) \in R

\* The least set with the elements of T that is closed under S.
Closure(T, S) ==
    {x \in Maps : \A R \in SUBSET Maps : (T \subseteq R /\ RightClosed(R, S)) => x \in R}

\* One round of Generated.
Wider(T, S) == T \cup {Then(s, t) : s \in T, t \in S}

WidensTo(f, S) == f = [T \in SUBSET Maps |-> IF Wider(T, S) = T THEN T ELSE f[Wider(T, S)]]

\* Module GroupKnowledge has these terms too.
LEMMA KnowledgeTerms ==
    /\ Knowledge!Points = Points /\ Knowledge!Identity = Identity
    /\ \A p, q : Knowledge!Then(p, q) = Then(p, q)
BY DEF Knowledge!Points, Points, Knowledge!Identity, Identity, Knowledge!Then, Then

\* Maps after maps are maps.
LEMMA MapsAt ==
  ASSUME NEW p \in Maps, NEW q \in Maps
  PROVE  Then(p, q) \in Maps /\ \A i \in Points : Then(p, q)[i] = q[p[i]]
BY DEF Then, Maps

\* There are finitely many of them: a map is one of finitely many sets of pairs.
LEMMA MapsFinite == IsFiniteSet(Maps)
<1> DEFINE F == SUBSET (Points \X Points)
           f == [p \in Maps |-> {<<i, p[i]>> : i \in Points}]
<1>1. IsFiniteSet(F)
  BY NPositive, FS_Product, FS_SUBSET
<1>2. f \in [Maps -> F]
  BY DEF Maps
<1>3. ASSUME NEW p \in Maps, NEW q \in Maps, f[p] = f[q] PROVE p = q
  <2>1. ASSUME NEW i \in Points PROVE p[i] = q[i]
    <3>1. <<i, p[i]>> \in f[q]
      BY <1>3
    <3> QED
      BY <3>1
  <2> QED
    BY <2>1 DEF Maps
<1> HIDE DEF f, F
<1>4. f \in Injection(Maps, F)
  BY <1>2, <1>3 DEF Injection, IsInjective
<1> QED
  BY <1>1, <1>4, FS_Injection

\* A round takes maps to maps, and leaves out nothing.
LEMMA WiderMaps ==
  ASSUME NEW S \in SUBSET Maps, NEW T \in SUBSET Maps
  PROVE  Wider(T, S) \in SUBSET Maps /\ T \subseteq Wider(T, S)
BY MapsAt DEF Wider

\* A round does not change the closure; a set that a round does not change is its own.
LEMMA WiderCloses ==
  ASSUME NEW S \in SUBSET Maps, NEW T \in SUBSET Maps
  PROVE  /\ Wider(T, S) = T => Closure(T, S) = T
         /\ Closure(Wider(T, S), S) = Closure(T, S)
<1>1. ASSUME Wider(T, S) = T PROVE Closure(T, S) = T
  <2>1. RightClosed(T, S)
    BY <1>1 DEF Wider, RightClosed
  <2> QED
    BY <2>1 DEF Closure
<1>2. ASSUME NEW R \in SUBSET Maps, RightClosed(R, S)
      PROVE  T \subseteq R <=> Wider(T, S) \subseteq R
  BY <1>2 DEF Wider, RightClosed
<1>3. Closure(Wider(T, S), S) = Closure(T, S)
  BY <1>2 DEF Closure
<1> QED
  BY <1>1, <1>3

\* The function that Generated recurses by exists: it takes every set to its closure.
LEMMA WidensExist ==
  ASSUME NEW S \in SUBSET Maps
  PROVE  \E f : WidensTo(f, S)
<1> DEFINE f == [T \in SUBSET Maps |-> Closure(T, S)]
<1>1. ASSUME NEW T \in SUBSET Maps
      PROVE  f[T] = IF Wider(T, S) = T THEN T ELSE f[Wider(T, S)]
  BY WiderCloses, WiderMaps
<1>2. f = [T \in SUBSET Maps |-> IF Wider(T, S) = T THEN T ELSE f[Wider(T, S)]]
  BY <1>1
<1> QED
  BY <1>2 DEF WidensTo

\* No other function is one: a set for which it differed would have to have a round that makes
\* it larger, and the largest of these sets has none.
LEMMA WidensToClosure ==
  ASSUME NEW S \in SUBSET Maps, NEW f, WidensTo(f, S), NEW T \in SUBSET Maps
  PROVE  f[T] = Closure(T, S)
<1> DEFINE Wrong == {U \in SUBSET Maps : f[U] # Closure(U, S)}
           Sizes == {Cardinality(U) : U \in Wrong}
<1> SUFFICES ASSUME Wrong # {} PROVE FALSE
  OBVIOUS
<1>1. \A U \in SUBSET Maps : /\ IsFiniteSet(U) /\ Cardinality(U) \in Nat
                             /\ Cardinality(U) <= Cardinality(Maps)
  BY MapsFinite, FS_Subset, FS_CardinalityType
<1>2. Cardinality(Maps) \in Int
  BY MapsFinite, FS_CardinalityType
<1>3. PICK size \in Sizes : \A y \in Sizes : y <= size
  <2>1. Sizes \in SUBSET Int /\ Sizes # {} /\ \A x \in Sizes : x <= Cardinality(Maps)
    BY <1>1
  <2> HIDE DEF Sizes
  <2> QED
    BY <1>2, <2>1, Greatest
<1>4. PICK U \in Wrong : Cardinality(U) = size
  BY <1>3
<1>5. f[U] = IF Wider(U, S) = U THEN U ELSE f[Wider(U, S)]
  BY DEF WidensTo
<1>6. Wider(U, S) # U
  BY <1>4, <1>5, WiderCloses
<1>7. PICK W : W = Wider(U, S)
  OBVIOUS
<1>8. W \in SUBSET Maps /\ U \in SUBSET W /\ W # U /\ U \in SUBSET Maps
  BY <1>6, <1>7, WiderMaps
<1>9. W \in Wrong
  <2>1. f[W] = f[U] /\ Closure(W, S) = Closure(U, S)
    BY <1>5, <1>6, <1>7, <1>8, WiderCloses
  <2> QED
    BY <1>8, <2>1
<1>10. Cardinality(W) <= Cardinality(U)
  BY <1>3, <1>4, <1>9
<1>11. Cardinality(U) <= Cardinality(W) /\ (Cardinality(W) = Cardinality(U) => W = U)
  BY <1>1, <1>8, FS_Subset
<1> QED
  BY <1>1, <1>8, <1>10, <1>11

\* Generated is the closure of the identity.
LEMMA GeneratedIs ==
  ASSUME NEW S \in SUBSET Maps
  PROVE  Knowledge!Generated(S) = Closure({Identity}, S)
<1> DEFINE G(f) == [T \in SUBSET [Knowledge!Points -> Knowledge!Points] |->
                        LET U == T \cup {Knowledge!Then(s, t) : s \in T, t \in S}
                        IN  IF U = T THEN T ELSE f[U]]
           H(f) == [T \in SUBSET Maps |-> IF Wider(T, S) = T THEN T ELSE f[Wider(T, S)]]
           f == CHOOSE f : f = H(f)
<1>1. ASSUME NEW h PROVE G(h) = H(h)
  <2>1. [Knowledge!Points -> Knowledge!Points] = Maps
    BY KnowledgeTerms DEF Maps
  <2> DEFINE A(T) == LET U == T \cup {Knowledge!Then(s, t) : s \in T, t \in S}
                     IN  IF U = T THEN T ELSE h[U]
             B(T) == IF Wider(T, S) = T THEN T ELSE h[Wider(T, S)]
  <2>2. ASSUME NEW T PROVE A(T) = B(T)
    <3> DEFINE U == T \cup {Knowledge!Then(s, t) : s \in T, t \in S}
    <3>1. U = Wider(T, S)
      BY KnowledgeTerms DEF Wider
    <3>2. A(T) = IF U = T THEN T ELSE h[U]
      OBVIOUS
    <3> HIDE DEF U, A
    <3> QED
      BY <3>1, <3>2
  <2>3. G(h) = [T \in SUBSET [Knowledge!Points -> Knowledge!Points] |-> A(T)]
    OBVIOUS
  <2>4. H(h) = [T \in SUBSET Maps |-> B(T)]
    OBVIOUS
  <2> HIDE DEF A, B, G, H
  <2> QED
    BY <2>1, <2>2, <2>3, <2>4
<1>2. Knowledge!Generated(S) = (CHOOSE h : h = G(h))[{Knowledge!Identity}]
  BY DEF Knowledge!Generated
<1> HIDE DEF G
<1>3. \A h : WidensTo(h, S) <=> h = H(h)
  BY Zenon DEF WidensTo
<1> HIDE DEF H
<1>4. (CHOOSE h : h = G(h)) = f
  BY <1>1, Zenon
<1>5. \E h : h = H(h)
  BY <1>3, WidensExist
<1>6. f = H(f)
  BY <1>5, Zenon
<1> HIDE DEF f
<1>7. WidensTo(f, S)
  BY <1>3, <1>6
<1>8. {Identity} \in SUBSET Maps
  BY IdentityAt DEF Maps, Perms
<1>9. f[{Identity}] = Closure({Identity}, S)
  BY <1>7, <1>8, WidensToClosure
<1> QED
  BY <1>2, <1>4, <1>9, KnowledgeTerms


\* A group of permutations; there are finitely many, so inverses come by themselves.
Subgroup(G) == G \subseteq Perms /\ Identity \in G /\ RightClosed(G, G)

\* Permutations are maps.
LEMMA PermsAreMaps == Perms \subseteq Maps
BY DEF Perms, Maps

\* The laws of Then.
LEMMA ThenLaws ==
  ASSUME NEW x \in Maps, NEW y \in Maps, NEW z \in Maps
  PROVE  /\ Then(Then(x, y), z) = Then(x, Then(y, z))
         /\ Then(Identity, x) = x /\ Then(x, Identity) = x
<1>1. \A i \in Points : x[i] \in Points /\ y[i] \in Points /\ z[i] \in Points
  BY DEF Maps
<1>2. Then(Then(x, y), z) = Then(x, Then(y, z))
  <2>1. Then(Then(x, y), z) = [i \in Points |-> z[y[x[i]]]]
    BY DEF Then
  <2>2. Then(x, Then(y, z)) = [i \in Points |-> z[y[x[i]]]]
    BY <1>1 DEF Then
  <2> QED
    BY <2>1, <2>2
<1>3. x = [i \in Points |-> x[i]]
  BY DEF Maps
<1>4. Then(Identity, x) = [i \in Points |-> x[i]]
  BY DEF Then, Identity
<1>5. Then(x, Identity) = [i \in Points |-> x[i]]
  BY <1>1 DEF Then, Identity
<1> QED
  BY <1>2, <1>3, <1>4, <1>5

\* What permutations generate is the least group with them.
LEMMA ClosureIsGroup ==
  ASSUME NEW S \in SUBSET Perms, NEW G, G = Closure({Identity}, S)
  PROVE  Subgroup(G) /\ S \subseteq G
<1>1. S \in SUBSET Maps /\ Identity \in Perms /\ Identity \in Maps
  BY PermsAreMaps, IdentityAt
<1>2. G \subseteq Maps /\ Identity \in G
  BY <1>1 DEF Closure
<1>3. ASSUME NEW x \in G, NEW s \in S PROVE Then(x, s) \in G
  <2>1. Then(x, s) \in Maps
    BY <1>1, <1>2, MapsAt
  <2>2. ASSUME NEW R \in SUBSET Maps, {Identity} \subseteq R, RightClosed(R, S)
        PROVE  Then(x, s) \in R
    <3>1. x \in R
      BY <2>2 DEF Closure
    <3> QED
      BY <2>2, <3>1 DEF RightClosed
  <2> QED
    BY <2>1, <2>2 DEF Closure
<1>4. ASSUME NEW R \in SUBSET Maps, Identity \in R, RightClosed(R, S) PROVE G \subseteq R
  BY <1>4 DEF Closure
<1>5. G \subseteq Perms
  <2>1. RightClosed(Perms, S)
    BY ThenAt DEF RightClosed
  <2> QED
    BY <1>1, <1>4, <2>1, PermsAreMaps
<1>6. S \subseteq G
  BY <1>1, <1>2, <1>3, ThenLaws
<1>7. ASSUME NEW x \in G, NEW y \in G PROVE Then(x, y) \in G
  <2> DEFINE R == {z \in Maps : Then(x, z) \in G}
  <2>1. Identity \in R
    BY <1>1, <1>2, ThenLaws
  <2>2. ASSUME NEW z \in R, NEW s \in S PROVE Then(z, s) \in R
    <3> x \in Maps /\ z \in Maps /\ s \in Maps
      BY <1>1, <1>2
    <3>1. Then(Then(x, z), s) = Then(x, Then(z, s))
      BY ThenLaws
    <3>2. Then(Then(x, z), s) \in G
      BY <1>3
    <3>3. Then(z, s) \in Maps
      BY <1>1, MapsAt
    <3> QED
      BY <3>1, <3>2, <3>3
  <2>3. R \in SUBSET Maps /\ RightClosed(R, S)
    BY <2>2 DEF RightClosed
  <2>4. G \subseteq R
    <3> HIDE DEF R
    <3> QED
      BY <1>4, <2>1, <2>3
  <2> QED
    BY <2>4
<1> QED
  BY <1>2, <1>5, <1>6, <1>7 DEF Subgroup, RightClosed

\* A group with the generators has all that they generate.
LEMMA ClosureIsLeast ==
  ASSUME NEW S, NEW G, Subgroup(G), S \subseteq G
  PROVE  Closure({Identity}, S) \subseteq G
BY PermsAreMaps DEF Closure, Subgroup, RightClosed

\* Some power of an element of a group undoes it: going on by it, no two elements come to
\* the same.
LEMMA Undone ==
  ASSUME NEW G, Subgroup(G), NEW s \in G
  PROVE  \E r \in G : Then(r, s) = Identity /\ Then(s, r) = Identity
<1> DEFINE f == [x \in G |-> Then(x, s)]
<1>1. G \subseteq Perms /\ G \in SUBSET Maps /\ s \in Perms /\ Identity \in G
  BY PermsAreMaps DEF Subgroup
<1>2. IsFiniteSet(G)
  BY <1>1, MapsFinite, FS_Subset
<1>3. f \in [G -> G]
  BY DEF Subgroup, RightClosed
<1>4. ASSUME NEW x \in G, NEW y \in G, f[x] = f[y] PROVE x = y
  <2>1. Then(x, s) = Then(y, s) /\ x \in Perms /\ y \in Perms
    BY <1>1, <1>4
  <2>2. \A i \in Points : s[x[i]] = s[y[i]] /\ x[i] \in Points /\ y[i] \in Points
    <3>1. \A i \in Points : Then(x, s)[i] = s[x[i]] /\ Then(y, s)[i] = s[y[i]]
      BY <1>1, <2>1, ThenAt
    <3>2. \A i \in Points : x[i] \in Points /\ y[i] \in Points
      BY <2>1 DEF Perms
    <3> QED
      BY <2>1, <3>1, <3>2
  <2>3. \A i \in Points : x[i] = y[i]
    BY <1>1, <2>2 DEF Perms
  <2>4. x \in [Points -> Points] /\ y \in [Points -> Points]
    BY <2>1 DEF Perms
  <2> QED
    BY <2>3, <2>4
<1> HIDE DEF f
<1>5. f \in Injection(G, G)
  BY <1>3, <1>4 DEF Injection, IsInjective
<1>6. f \in Surjection(G, G)
  BY <1>2, <1>5, FS_Injection
<1>7. PICK r \in G : f[r] = Identity
  BY <1>1, <1>6 DEF Surjection
<1>8. Then(r, s) = Identity /\ r \in Perms
  BY <1>1, <1>7 DEF f
<1>9. \A i \in Points : s[r[i]] = i /\ r[i] \in Points /\ s[i] \in Points
  BY <1>1, <1>8, ThenAt, IdentityAt DEF Perms
<1>10. \A i \in Points : r[s[i]] = i
  BY <1>1, <1>9 DEF Perms
<1>11. Then(s, r) = Identity
  BY <1>10 DEF Then, Identity
<1> QED
  BY <1>8, <1>11

\* What can be undone is in a group with what comes of it.
LEMMA UndoIn ==
  ASSUME NEW G, Subgroup(G), NEW w \in Perms, NEW q \in G, Then(w, q) \in G
  PROVE  w \in G
<1>1. PICK r \in G : Then(q, r) = Identity
  BY Undone
<1>2. q \in Maps /\ r \in Maps /\ w \in Maps
  BY PermsAreMaps DEF Subgroup
<1>3. Then(Then(w, q), r) = w
  BY <1>1, <1>2, ThenLaws
<1> QED
  BY <1>3 DEF Subgroup, RightClosed

\* The powers of an element of a group are in it.
LEMMA PowersIn ==
  ASSUME NEW G, Subgroup(G), NEW p \in G, NEW k \in Nat, NEW w \in Perms
  PROVE  \E q \in G : applyperm(w, p, k) = Then(w, q)
<1>1. p \in Perms /\ Identity \in Perms /\ Identity \in G
  BY IdentityAt DEF Subgroup
<1> DEFINE T == {i \in Nat : applyperm(Identity, p, i) \notin G}
<1>2. T = {}
  <2> SUFFICES ASSUME T # {} PROVE FALSE
    OBVIOUS
  <2>1. PICK i \in T : \A y \in T : i <= y
    BY Least
  <2>2. i # 0
    BY <1>1, <2>1, applypermNext
  <2>3. PICK j \in Nat : i = j + 1 /\ j \notin T
    <3>1. i - 1 \in Nat /\ i = (i - 1) + 1 /\ i - 1 \notin T
      BY <2>1, <2>2
    <3> QED
      BY <3>1
  <2>4. PICK a, b : a = applyperm(Identity, p, j) /\ b = applyperm(Identity, p, j + 1)
    OBVIOUS
  <2>5. a \in G /\ b \in Perms /\ \A x \in Points : b[x] = p[a[x]]
    <3>1. j + 1 \in Nat
      OBVIOUS
    <3>2. a \in G
      BY <2>3, <2>4
    <3>3. \A m \in Nat : /\ applyperm(Identity, p, m) \in Perms
                         /\ \A x \in Points : applyperm(Identity, p, m + 1)[x]
                                               = p[applyperm(Identity, p, m)[x]]
      BY <1>1, applypermNext
    <3> QED
      BY <2>4, <3>1, <3>2, <3>3
  <2>6. b = Then(a, p)
    BY <2>5 DEF Then, Perms
  <2>7. b \in G
    BY <2>5, <2>6 DEF Subgroup, RightClosed
  <2> QED
    BY <2>1, <2>3, <2>4, <2>7
<1>3. PICK q : q = applyperm(Identity, p, k)
  OBVIOUS
<1>4. q \in G
  BY <1>2, <1>3
<1>5. PICK u : u = applyperm(w, p, k)
  OBVIOUS
<1>6. u \in Perms /\ \A x \in Points : u[x] = q[w[x]]
  BY <1>1, <1>3, <1>5, applypermNext, applypermAt
<1>7. u = Then(w, q)
  BY <1>6 DEF Then, Perms
<1> QED
  BY <1>4, <1>5, <1>7

\* The permutations that the edges of a level are made of.
TreeIn(nodes, level, G) == \A i \in Tree(level) : nodes[level.vec[i]].p \in G

\* All rounds of filterschreier's loop: w, then something made of those permutations.
LEMMA BackIn ==
  ASSUME NEW nodes, NEW level, IsLevel(level), NEW B, Leads(nodes, level, B),
         NEW G, Subgroup(G), TreeIn(nodes, level, G), NEW w \in Perms,
         NEW u, ByRounds(nodes, level, B, w, u)
  PROVE  \E q \in G : u = Then(w, q)
<1>1. PICK g : /\ RoundsTo(g, nodes, level, w, N) /\ u = g[N]
               /\ \A k \in 0 .. N : g[k] \in Perms /\ g[k][level.fixed] \in Held(level)
  BY DEF ByRounds
<1>2. N \in Nat
  BY NPositive
<1>3. g[0] = w /\ \A k \in 1 .. N : g[k] = Nearer(nodes, level, g[k - 1])
  BY <1>1, <1>2 DEF RoundsTo
<1> DEFINE Good(k) == \E q \in G : g[k] = Then(w, q)
           T == {k \in 0 .. N : ~ Good(k)}
<1>4. w \in Maps /\ G \subseteq Maps /\ Identity \in G
  BY PermsAreMaps DEF Subgroup
<1>5. T = {}
  <2> SUFFICES ASSUME T # {} PROVE FALSE
    OBVIOUS
  <2>1. PICK k \in T : \A y \in T : k <= y
    <3>1. T \in SUBSET Nat
      BY <1>2
    <3> HIDE DEF T
    <3> QED
      BY <3>1, Least
  <2>2. k # 0
    <3>1. Good(0)
      BY <1>3, <1>4, ThenLaws
    <3> QED
      BY <2>1, <3>1
  <2>3. k \in 1 .. N /\ k - 1 \in 0 .. N /\ k - 1 \notin T
    BY <1>2, <2>1, <2>2
  <2>4. Good(k - 1)
    BY <2>3
  <2>5. PICK q \in G : g[k - 1] = Then(w, q)
    BY <2>4
  <2>6. PICK a, b, j : a = g[k - 1] /\ b = g[k] /\ j = a[level.fixed]
    OBVIOUS
  <2>7. a \in Perms /\ j \in Held(level) /\ b = Nearer(nodes, level, a) /\ a = Then(w, q)
    BY <1>1, <1>3, <2>3, <2>5, <2>6
  <2> HIDE DEF T, Good
  <2>8. \E r \in G : b = Then(w, r)
    <3>1. CASE j = level.fixed
      <4>1. b = a
        BY <2>6, <2>7, <3>1 DEF Nearer
      <4> QED
        BY <2>7, <4>1
    <3>2. CASE j # level.fixed
      <4>1. j \in Tree(level)
        BY <2>7, <3>2, EntryOf
      <4>2. PICK p, m : p = nodes[level.vec[j]].p /\ m = level.pwr[j]
        OBVIOUS
      <4>3. b = applyperm(a, p, m)
        BY <2>6, <2>7, <3>2, <4>2 DEF Nearer
      <4>4. p \in G /\ m \in Nat
        BY <4>1, <4>2 DEF TreeIn, Leads
      <4>5. PICK r \in G : b = Then(a, r)
        BY <2>7, <4>3, <4>4, PowersIn
      <4>6. Then(q, r) \in G
        BY DEF Subgroup, RightClosed
      <4>7. b = Then(w, Then(q, r))
        BY <1>4, <2>7, <4>5, ThenLaws
      <4> QED
        BY <4>6, <4>7
    <3> QED
      BY <3>1, <3>2
  <2>9. Good(k)
    BY <2>6, <2>8 DEF Good
  <2> QED
    BY <2>1, <2>9 DEF T
<1>6. Good(N)
  BY <1>2, <1>5
<1> QED
  BY <1>1, <1>6


-----------------------------------------------------------------------------
(* What filterschreier learns *)

PermsOf(nodes) == {nodes[x].p : x \in DOMAIN nodes}

MarkedOf(nodes) == {nodes[x].p : x \in {y \in DOMAIN nodes : nodes[y].mark}}

\* The groups that have K and the marked permutations, and that w is in or, when it is known,
\* in which it is not asked for.
Covers(L, t, K) ==
    /\ Subgroup(L) /\ K \subseteq L /\ MarkedOf(t.ring) \subseteq L
    /\ InGroup(t) \/ t.w \in L

\* K is the group that was known, H that with w0; M was marked, and w0 came in.
Learns(t, K, H, M, w0, known) ==
    /\ PermsOf(t.ring) \subseteq H /\ t.w \in H
    /\ ~ InGroup(t) => PermsOf(t.ring) \subseteq K /\ t.curr = NULL
    /\ M \subseteq MarkedOf(t.ring)
    /\ known => InGroup(t) /\ MarkedOf(t.ring) = M
    /\ known \/ \A L : Covers(L, t, K) => w0 \in L

Setting(K, H) == Subgroup(K) /\ Subgroup(H) /\ K \subseteq H

\* What does not touch the ring and w changes nothing of that.
LEMMA LearnsSame ==
  ASSUME NEW K, NEW H, NEW M, NEW w0, NEW known, NEW t, Learns(t, K, H, M, w0, known),
         NEW u, u.ring = t.ring, u.w = t.w, u.curr = t.curr, InGroup(u) <=> InGroup(t)
  PROVE  Learns(u, K, H, M, w0, known)
<1>1. \A L : Covers(L, u, K) <=> Covers(L, t, K)
  BY DEF Covers
<1> QED
  BY <1>1 DEF Learns

\* A node that is added on the way holds w, and is marked if w was not known.
LEMMA GrowsLearns ==
  ASSUME NEW K, NEW H, NEW M, NEW w0, NEW known, NEW t, Learns(t, K, H, M, w0, known),
         NEW n, NEW l, NEW u, NEW x, Grows(t, u, l, n, x)
  PROVE  Learns(u, K, H, M, w0, known)
<1>1. PICK old, more, w : old = t.ring /\ more = u.ring /\ w = t.w
  OBVIOUS
<1>2. /\ u.w = w /\ InGroup(u) /\ more[x].p = w
      /\ DOMAIN more = DOMAIN old \cup {x}
      /\ \A y \in DOMAIN old : more[y].p = old[y].p /\ more[y].mark = old[y].mark
      /\ IF t.curr = NULL THEN x \notin DOMAIN old /\ more[x].mark = ~ InGroup(t)
         ELSE x \in DOMAIN old
  BY <1>1 DEF Grows, GrowsRing
<1>3. PermsOf(more) \subseteq PermsOf(old) \cup {w}
  BY <1>2 DEF PermsOf
<1>4. MarkedOf(old) \subseteq MarkedOf(more)
  BY <1>2 DEF MarkedOf
<1>5. InGroup(t) => MarkedOf(more) = MarkedOf(old)
  BY <1>2 DEF MarkedOf
<1>6. ~ InGroup(t) => w \in MarkedOf(more)
  <2> SUFFICES ASSUME ~ InGroup(t) PROVE w \in MarkedOf(more)
    OBVIOUS
  <2>1. t.curr = NULL
    BY DEF Learns
  <2>2. x \in DOMAIN more /\ more[x].mark
    BY <1>2, <2>1
  <2> QED
    BY <1>2, <2>2 DEF MarkedOf
<1>7. known \/ \A L : Covers(L, u, K) => w0 \in L
  <2> SUFFICES ASSUME ~ known, NEW L, Covers(L, u, K) PROVE w0 \in L
    OBVIOUS
  <2>1. Subgroup(L) /\ K \subseteq L /\ MarkedOf(more) \subseteq L
    BY <1>1 DEF Covers
  <2>2. Covers(L, t, K)
    BY <1>1, <1>4, <1>6, <2>1 DEF Covers
  <2> QED
    BY <2>2 DEF Learns
<1>8. PermsOf(more) \subseteq H /\ w \in H /\ M \subseteq MarkedOf(more)
  BY <1>1, <1>3, <1>4 DEF Learns
<1>9. known => MarkedOf(more) = M
  BY <1>1, <1>5 DEF Learns
<1> QED
  BY <1>1, <1>2, <1>7, <1>8, <1>9 DEF Learns

\* ExtendVector.
LEMMA ExtendLearns ==
  ASSUME NEW K, NEW H, NEW M, NEW w0, NEW known, NEW t, Learns(t, K, H, M, w0, known),
         NEW n, NEW l \in 1 .. n, AtLevel(t, n, l), NEW u, u = ExtendVector(t, l)
  PROVE  Learns(u, K, H, M, w0, known)
<1>1. PICK new : new = Newcomers(t, l)
  OBVIOUS
<1>2. CASE new = {}
  <2>1. u = t
    BY <1>1, <1>2, Zenon DEF ExtendVector, Newcomers
  <2> QED
    BY <2>1
<1>3. CASE new # {}
  <2>1. IsFilter(t, n) /\ HoldsCurrent(t)
    BY DEF AtLevel, Traced
  <2>2. PICK x : Grows(t, u, l, n, x)
    BY <1>1, <1>3, <2>1, ExtendGrows
  <2> QED
    BY <2>2, GrowsLearns
<1> QED
  BY <1>2, <1>3

\* Sift: from what is left of w and what is known, w can be had back.
LEMMA SiftLearns ==
  ASSUME NEW K, NEW H, Setting(K, H), NEW M, NEW w0, NEW known, NEW t,
         Learns(t, K, H, M, w0, known),
         NEW n, NEW l \in 1 .. n, AtLevel(t, n, l), Arrives(t, l), NEW u, u = Sift(t, l)
  PROVE  Learns(u, K, H, M, w0, known)
<1>1. PICK level, w, B, nodes : level = t.levels[l] /\ w = t.w /\ B = Before(t.levels, l)
                                /\ nodes = t.ring
  OBVIOUS
<1>2. IsFilter(t, n) /\ IsChain(t.levels, n) /\ IsLevel(level) /\ n \in Nat
  BY <1>1 DEF AtLevel, Traced, IsFilter, IsChain
<1>3. CASE w[level.fixed] = level.fixed
  <2>1. u = t
    BY <1>1, <1>3, Zenon DEF Sift
  <2> QED
    BY <2>1
<1>4. CASE w[level.fixed] # level.fixed
  <2>1. PICK b : b = Back(nodes, level, w)
    OBVIOUS
  <2>2. u = [t EXCEPT !.w = b, !.curr = NULL]
    BY <1>1, <1>4, <2>1, Zenon DEF Sift
  <2>3. u.ring = nodes /\ u.w = b /\ u.curr = NULL /\ (InGroup(u) <=> InGroup(t))
    BY <1>1, <1>2, <2>2 DEF IsFilter, InGroup
  <2>4. B \subseteq Points
    BY <1>1, <1>2, BeforePoints DEF AtLevel
  <2>5. /\ Leads(nodes, level, B) /\ w \in Perms /\ FixesAll(w, B)
        /\ w[level.fixed] \in Held(level)
    BY <1>1 DEF AtLevel, Traced, ChainLeads, Arrives
  <2>6. ByRounds(nodes, level, B, w, b)
    BY <1>2, <2>1, <2>4, <2>5, BackHome
  <2>7. ASSUME NEW G, Subgroup(G), PermsOf(nodes) \subseteq G
        PROVE  \E q \in G : b = Then(w, q)
    <3>1. \A i \in Tree(level) : level.vec[i] \in DOMAIN nodes
      BY <1>1, <1>2, TreeNodes DEF IsFilter
    <3>2. TreeIn(nodes, level, G)
      BY <2>7, <3>1 DEF TreeIn, PermsOf
    <3> QED
      BY <1>2, <2>5, <2>6, <2>7, <3>2, BackIn
  <2>8. b \in H
    <3>1. PermsOf(nodes) \subseteq H /\ w \in H /\ Subgroup(H)
      BY <1>1 DEF Learns, Setting
    <3>2. PICK q \in H : b = Then(w, q)
      BY <2>7, <3>1
    <3> QED
      BY <3>1, <3>2 DEF Subgroup, RightClosed
  <2>9. \A L : Covers(L, u, K) => Covers(L, t, K)
    <3> SUFFICES ASSUME NEW L, Covers(L, u, K), ~ InGroup(t) PROVE w \in L
      BY <1>1, <2>3 DEF Covers
    <3>1. Subgroup(L) /\ K \subseteq L /\ b \in L
      BY <2>3 DEF Covers
    <3>2. PermsOf(nodes) \subseteq K /\ Subgroup(K)
      BY <1>1 DEF Learns, Setting
    <3>3. PICK q \in K : b = Then(w, q)
      BY <2>7, <3>2
    <3> QED
      BY <2>5, <3>1, <3>3, UndoIn
  <2> QED
    BY <1>1, <2>3, <2>8, <2>9 DEF Learns
<1> QED
  BY <1>3, <1>4

\* One level.
LEMMA LevelLearns ==
  ASSUME NEW K, NEW H, Setting(K, H), NEW M, NEW w0, NEW known, NEW t,
         Learns(t, K, H, M, w0, known),
         NEW n, Traced(t, n), NEW l \in 1 .. n, Stopped(t) \/ Passed(t, l - 1),
         NEW u, u = FilterLevel(t, l)
  PROVE  Learns(u, K, H, M, w0, known)
<1>1. \/ u = [t EXCEPT !.stop = TRUE]
      \/ /\ ~ Stopped(t)
         /\ u = ThroughVector(Joined(t, l, JoinOrbits(t.levels[l].orbits, t.w)), l)
  BY Zenon DEF FilterLevel, With, Stopped
<1>2. ASSUME NEW s, NEW v, IsFilter(s, n), v = [s EXCEPT !.stop = TRUE],
             Learns(s, K, H, M, w0, known)
      PROVE  Learns(v, K, H, M, w0, known)
  <2>1. v.ring = s.ring /\ v.w = s.w /\ v.curr = s.curr /\ (InGroup(v) <=> InGroup(s))
    BY <1>2 DEF IsFilter, InGroup
  <2> QED
    BY <1>2, <2>1, LearnsSame
<1>3. IsFilter(t, n)
  BY DEF Traced
<1>4. CASE u = [t EXCEPT !.stop = TRUE]
  BY <1>2, <1>3, <1>4
<1>5. CASE /\ ~ Stopped(t)
           /\ u = ThroughVector(Joined(t, l, JoinOrbits(t.levels[l].orbits, t.w)), l)
  <2>1. PICK o : o = JoinOrbits(t.levels[l].orbits, t.w)
    OBVIOUS
  <2>2. PICK v : v = Joined(t, l, o)
    OBVIOUS
  <2>3. Traced(v, n) /\ Passed(v, l - 1)
    BY <1>5, <2>2, JoinedTraced
  <2>4. Learns(v, K, H, M, w0, known)
    <3>1. v.ring = t.ring /\ v.w = t.w /\ v.curr = t.curr /\ (InGroup(v) <=> InGroup(t))
      BY <1>3, <2>2, JoinedShape DEF InGroup
    <3> QED
      BY <3>1, LearnsSame
  <2>5. u = ThroughVector(v, l)
    BY <1>5, <2>1, <2>2
  <2>6. CASE v.levels[l].fixed < 0
    <3>1. u = [v EXCEPT !.stop = TRUE]
      BY <2>5, <2>6, Zenon DEF ThroughVector
    <3>2. IsFilter(v, n)
      BY <2>3 DEF Traced
    <3> QED
      BY <1>2, <2>4, <3>1, <3>2
  <2>7. CASE ~ v.levels[l].fixed < 0
    <3>1. u = Sift(ExtendVector(v, l), l)
      BY <2>5, <2>7, Zenon DEF ThroughVector, With
    <3>2. PICK y : y = ExtendVector(v, l)
      OBVIOUS
    <3>3. AtLevel(v, n, l)
      BY <2>3, <2>7, LevelReached
    <3>4. AtLevel(y, n, l) /\ Arrives(y, l)
      BY <3>2, <3>3, ExtendTraced
    <3>5. Learns(y, K, H, M, w0, known)
      BY <2>4, <3>2, <3>3, ExtendLearns
    <3>6. u = Sift(y, l)
      BY <3>1, <3>2
    <3> QED
      BY <3>4, <3>5, <3>6, SiftLearns
  <2> QED
    BY <2>6, <2>7
<1> QED
  BY <1>1, <1>4, <1>5


\* All levels.
LEMMA FilteredLearns ==
  ASSUME NEW nodes, IsRing(nodes), NEW chain, NEW n, IsChain(chain, n),
         Counted(nodes, Refs(chain, n)), PermsIn(nodes), ChainLeads(nodes, chain, n),
         NEW K, NEW H, Setting(K, H), PermsOf(nodes) \subseteq K,
         NEW p \in H, NEW known \in BOOLEAN, NEW M, M = MarkedOf(nodes),
         NEW t, t = Filtered(nodes, chain, p, known)
  PROVE  Learns(t, K, H, M, p, known)
<1>1. n \in Nat /\ p \in Perms
  BY DEF IsChain, Setting, Subgroup
<1>2. PICK s : s = Started(nodes, chain, p, known)
  OBVIOUS
<1>3. PICK f : FiltersTo(f, s, n) /\ t = f[n] /\ Comes(f, n)
  BY <1>1, <1>2, FilteredSteps
<1>4. \A l \in 0 .. n : f[l] = IF l = 0 THEN s ELSE FilterLevel(f[l - 1], l)
  BY <1>3 DEF FiltersTo
<1>5. Learns(s, K, H, M, p, known)
  <2>1. s.ring = nodes /\ s.w = p /\ s.curr = NULL /\ (InGroup(s) <=> known)
    BY <1>2 DEF Started, InGroup
  <2> QED
    BY <2>1 DEF Learns, Covers, Setting
<1> DEFINE T == {l \in 0 .. n : ~ Learns(f[l], K, H, M, p, known)}
<1>6. T = {}
  <2> SUFFICES ASSUME T # {} PROVE FALSE
    OBVIOUS
  <2>1. PICK l \in T : \A y \in T : l <= y
    <3>1. T \in SUBSET Nat
      BY <1>1
    <3> HIDE DEF T
    <3> QED
      BY <3>1, Least
  <2>2. CASE l = 0
    BY <1>4, <1>5, <2>1, <2>2
  <2>3. CASE l # 0
    <3>1. l \in 1 .. n /\ l - 1 \in 0 .. n /\ l - 1 \notin T
      BY <1>1, <2>1, <2>3
    <3>2. PICK a, b : a = f[l - 1] /\ b = f[l]
      OBVIOUS
    <3>3. Learns(a, K, H, M, p, known) /\ b = FilterLevel(a, l)
      BY <1>4, <2>1, <2>3, <3>1, <3>2
    <3>4. Traced(a, n) /\ (Stopped(a) \/ Passed(a, l - 1))
      BY <1>3, <3>1, <3>2 DEF Comes
    <3>5. Learns(b, K, H, M, p, known)
      <4> HIDE DEF T
      <4> QED
        BY <3>1, <3>3, <3>4, LevelLearns
    <3> QED
      BY <2>1, <3>2, <3>5
  <2> QED
    BY <2>2, <2>3
<1>7. n \in 0 .. n
  BY <1>1
<1> QED
  BY <1>3, <1>6, <1>7

\* What filterschreier leaves in the ring.
Learned(nodes, K, H, M, w0, known) ==
    /\ PermsOf(nodes) \subseteq H /\ M \subseteq MarkedOf(nodes)
    /\ known => MarkedOf(nodes) = M
    /\ known \/ \A L : (Subgroup(L) /\ K \subseteq L /\ MarkedOf(nodes) \subseteq L) => w0 \in L

\* What is added in the end is marked.
LEMMA OutcomeLearns ==
  ASSUME NEW K, NEW H, Setting(K, H), NEW p \in H, NEW known \in BOOLEAN, NEW M,
         NEW t, NEW n, Traced(t, n), Learns(t, K, H, M, p, known),
         NEW r, r = Outcome(t, p)
  PROVE  Learned(r.ring, K, H, M, p, known)
<1>1. PICK old, more : old = t.ring /\ more = r.ring
  OBVIOUS
<1>2. IsRing(old)
  BY <1>1 DEF Traced, IsFilter
<1>3. CASE t.w = Identity \/ InGroup(t)
  <2>1. \E changed : r = [ring |-> t.ring, levels |-> t.levels, changed |-> changed]
    BY <1>3, Zenon DEF Outcome, InGroup
  <2>2. more = old
    BY <1>1, <2>1
  <2>3. ASSUME NEW L, Subgroup(L), K \subseteq L, MarkedOf(old) \subseteq L PROVE Covers(L, t, K)
    BY <1>1, <1>3, <2>3 DEF Covers, Subgroup
  <2> QED
    BY <1>1, <2>2, <2>3 DEF Learns, Learned
<1>4. CASE ~ (t.w = Identity \/ InGroup(t))
  <2>1. r = [ring |-> addpermutation(t.ring, p, TRUE), levels |-> t.levels, changed |-> TRUE]
    BY <1>4, Zenon DEF Outcome, InGroup
  <2>2. PICK mark \in BOOLEAN : mark /\ mark = TRUE
    OBVIOUS
  <2>3. more = addpermutation(old, p, mark)
    BY <1>1, <2>1, <2>2
  <2>4. PICK x : x = FreeNode(old)
    OBVIOUS
  <2>5. /\ DOMAIN more = DOMAIN old \cup {x} /\ \A y \in DOMAIN old : more[y] = old[y]
        /\ more[x].p = p /\ more[x].mark = mark
    BY <1>2, <2>3, <2>4, AddNode
  <2>6. PermsOf(more) \subseteq PermsOf(old) \cup {p}
    BY <2>5 DEF PermsOf
  <2>7. MarkedOf(old) \subseteq MarkedOf(more)
    BY <2>5 DEF MarkedOf
  <2>8. p \in MarkedOf(more)
    BY <2>2, <2>5 DEF MarkedOf
  <2>9. ~ known
    BY <1>4 DEF Learns
  <2> QED
    BY <1>1, <2>6, <2>7, <2>8, <2>9 DEF Learns, Learned
<1> QED
  BY <1>3, <1>4

\* filterschreier.
LEMMA FilterLearns ==
  ASSUME NEW nodes, NEW chain, IsGroup(nodes, chain),
         NEW K, NEW H, Setting(K, H), PermsOf(nodes) \subseteq K,
         NEW p \in H, NEW known \in BOOLEAN,
         NEW r, r = filterschreier(nodes, chain, p, known)
  PROVE  Learned(r.ring, K, H, MarkedOf(nodes), p, known)
<1>1. PICK n : /\ IsChain(chain, n) /\ Counted(nodes, Refs(chain, n))
               /\ ChainLeads(nodes, chain, n)
  BY DEF IsGroup
<1>2. IsRing(nodes) /\ PermsIn(nodes) /\ p \in Perms
  BY DEF IsGroup, Setting, Subgroup
<1>3. PICK t, M : t = Filtered(nodes, chain, p, known) /\ M = MarkedOf(nodes)
  OBVIOUS
<1>4. Traced(t, n)
  BY <1>1, <1>2, <1>3, FilteredTraced
<1>5. Learns(t, K, H, M, p, known)
  BY <1>1, <1>2, <1>3, FilteredLearns
<1>6. r = Outcome(t, p)
  <2>1. r = Outcome(Filtered(nodes, chain, p, known), p)
    BY Zenon DEF filterschreier, With
  <2> QED
    BY <1>3, <2>1, Zenon
<1>7. Learned(r.ring, K, H, M, p, known)
  BY <1>4, <1>5, <1>6, OutcomeLearns
<1> QED
  BY <1>3, <1>7

\* The ring holds elements of G, and those that are marked generate it.
Knows(nodes, G) ==
    /\ Subgroup(G) /\ PermsOf(nodes) \subseteq G
    /\ MarkedOf(nodes) \subseteq Perms /\ Closure({Identity}, MarkedOf(nodes)) = G

Holding(known) == known

\* An element of the group, filtered as one, changes nothing of that.
LEMMA FilterKnows ==
  ASSUME NEW nodes, NEW chain, IsGroup(nodes, chain), NEW G, Knows(nodes, G), NEW p \in G,
         NEW known \in BOOLEAN, Holding(known),
         NEW r, r = filterschreier(nodes, chain, p, known)
  PROVE  Knows(r.ring, G)
<1>1. Setting(G, G) /\ PermsOf(nodes) \subseteq G
  BY DEF Knows, Setting
<1>2. Learned(r.ring, G, G, MarkedOf(nodes), p, known)
  BY <1>1, FilterLearns
<1> QED
  BY <1>2 DEF Learned, Knows, Holding

\* A permutation that is added is one of the group from then on.
LEMMA FilterGives ==
  ASSUME NEW nodes, NEW chain, IsGroup(nodes, chain), NEW G, Knows(nodes, G), NEW p \in Perms,
         NEW known \in BOOLEAN, ~ Holding(known),
         NEW r, r = filterschreier(nodes, chain, p, known)
  PROVE  Knows(r.ring, Closure({Identity}, G \cup {p}))
<1>1. PICK S, H : S = G \cup {p} /\ H = Closure({Identity}, S)
  OBVIOUS
<1>2. Subgroup(G) /\ PermsOf(nodes) \subseteq G /\ MarkedOf(nodes) \subseteq G
      /\ G = Closure({Identity}, MarkedOf(nodes))
  <2>1. MarkedOf(nodes) \subseteq PermsOf(nodes)
    BY DEF MarkedOf, PermsOf
  <2> QED
    BY <2>1 DEF Knows
<1>3. S \in SUBSET Perms
  BY <1>1, <1>2 DEF Subgroup
<1>4. Subgroup(H) /\ S \subseteq H
  BY <1>1, <1>3, ClosureIsGroup
<1>5. Setting(G, H) /\ p \in H
  BY <1>1, <1>2, <1>4 DEF Setting
<1>6. PICK more : more = r.ring
  OBVIOUS
<1>7. Learned(more, G, H, MarkedOf(nodes), p, known)
  BY <1>2, <1>5, <1>6, FilterLearns
<1>8. PermsOf(more) \subseteq H /\ MarkedOf(nodes) \subseteq MarkedOf(more)
  BY <1>7 DEF Learned
<1>9. MarkedOf(more) \subseteq H /\ H \subseteq Perms
  BY <1>4, <1>8 DEF MarkedOf, PermsOf, Subgroup
<1>10. PICK T, L : T = MarkedOf(more) /\ L = Closure({Identity}, T)
  OBVIOUS
<1>11. T \in SUBSET Perms
  BY <1>9, <1>10
<1>12. Subgroup(L) /\ T \subseteq L
  BY <1>10, <1>11, ClosureIsGroup
<1>13. L \subseteq H
  BY <1>4, <1>9, <1>10, ClosureIsLeast
<1>14. G \subseteq L
  <2>1. MarkedOf(nodes) \subseteq L
    BY <1>8, <1>10, <1>12
  <2> QED
    BY <1>2, <1>12, <2>1, ClosureIsLeast
<1>15. p \in L
  BY <1>7, <1>10, <1>12, <1>14 DEF Learned, Holding
<1>16. H \subseteq L
  BY <1>1, <1>12, <1>14, <1>15, ClosureIsLeast
<1>17. L = H
  BY <1>13, <1>16
<1> QED
  BY <1>1, <1>4, <1>6, <1>8, <1>10, <1>11, <1>17 DEF Knows

\* Marked nodes are never freed.
LEMMA KeepsKnows ==
  ASSUME NEW nodes, NEW left, Keeps(nodes, left), NEW G, Knows(nodes, G)
  PROVE  Knows(left, G)
<1>1. MarkedOf(left) = MarkedOf(nodes) /\ PermsOf(left) \subseteq PermsOf(nodes)
  BY DEF Keeps, MarkedOf, PermsOf
<1> QED
  BY <1>1 DEF Knows


\* Nothing generates nothing.
LEMMA NoneKnown ==
  ASSUME NEW nodes, nodes = <<>>
  PROVE  Knows(nodes, {Identity})
<1>1. PermsOf(nodes) = {} /\ MarkedOf(nodes) = {}
  BY DEF PermsOf, MarkedOf
<1>2. Identity \in Perms /\ Identity \in Maps
  BY IdentityAt, PermsAreMaps
<1>3. Subgroup({Identity})
  BY <1>2, ThenLaws DEF Subgroup, RightClosed
<1>4. Closure({Identity}, {}) = {Identity}
  BY <1>2 DEF Closure, RightClosed
<1> QED
  BY <1>1, <1>3, <1>4 DEF Knows

\* A walk through the ring stays in the group.
LEMMA WalksIn ==
  ASSUME NEW G, Subgroup(G), PermsOf(ring) \subseteq G, NEW v \in G, NEW w \in Walks(v)
  PROVE  w \in G
<1> DEFINE Once(S) == {Then(s, p) : s \in S, p \in InRing}
<1>1. \A p \in InRing : p \in G
  BY DEF InRing, PermsOf
<1>2. ASSUME NEW S, S \subseteq G PROVE Once(S) \subseteq G
  BY <1>1, <1>2 DEF Subgroup, RightClosed
<1>3. Walks(v) = Once({v}) \cup Once(Once({v})) \cup Once(Once(Once({v})))
  BY DEF Walks
<1> HIDE DEF Once
<1>4. {v} \subseteq G
  OBVIOUS
<1>5. Once({v}) \subseteq G
  BY <1>2, <1>4
<1>6. Once(Once({v})) \subseteq G
  BY <1>2, <1>5
<1>7. Once(Once(Once({v}))) \subseteq G
  BY <1>2, <1>6
<1> QED
  BY <1>3, <1>5, <1>6, <1>7

WalkIn(c, G) == c # Idle => c.w \in G

\* A walk starts in the ring.
LEMMA ExpandIn ==
  ASSUME NEW G, PermsOf(ring') \subseteq G, NEW op, NEW fix, NEW cell, Expand(op, fix, cell)
  PROVE  WalkIn(call', G)
<1>1. CASE ring' = <<>>
  BY <1>1 DEF Expand, WalkIn
<1>2. CASE ring' # <<>>
  <2>1. PICK x \in DOMAIN ring' :
           call' = [op |-> op, fix |-> fix, cell |-> cell, w |-> ring'[x].p, nfails |-> 0]
    BY <1>2 DEF Expand
  <2> QED
    BY <2>1 DEF PermsOf, WalkIn
<1> QED
  BY <1>1, <1>2

GroupInvariant == Knows(ring, group) /\ WalkIn(call, group)

\* The inductive invariant: the ring holds elements of the group, and those of them that are
\* marked generate it.
THEOREM GroupStays == Spec => []GroupInvariant
<1>1. Init => GroupInvariant
  BY NoneKnown DEF Init, GroupInvariant, WalkIn
<1>2. RingInvariant /\ GroupInvariant /\ [Next]_vars => GroupInvariant'
  <2> SUFFICES ASSUME RingInvariant, GroupInvariant, [Next]_vars PROVE GroupInvariant'
    OBVIOUS
  <2>1. IsGroup(ring, levels) /\ pool \in Pools /\ IsWalk(call)
    BY DEF RingInvariant
  <2>2. /\ Knows(ring, group) /\ WalkIn(call, group)
        /\ Subgroup(group) /\ PermsOf(ring) \subseteq group
    BY DEF GroupInvariant, Knows
  <2>3. CASE addgenerator
    <3>1. PICK p \in pool :
             /\ \E t \in {filterschreier(ring, levels, p, FALSE)} :
                    ring' = t.ring /\ levels' = t.levels
             /\ group' = Knowledge!Generated(group \cup {p})
      BY <2>3, Zenon DEF addgenerator
    <3>2. PICK known \in BOOLEAN : known = FALSE
      OBVIOUS
    <3>3. PICK t : t = filterschreier(ring, levels, p, known) /\ ring' = t.ring
      BY <3>1, <3>2
    <3>4. p \in Perms
      BY <2>1, <3>1, PoolPerms
    <3>5. PICK S : S = group \cup {p}
      OBVIOUS
    <3>6. S \in SUBSET Maps
      BY <2>2, <3>4, <3>5, PermsAreMaps DEF Subgroup
    <3>7. group' = Closure({Identity}, group \cup {p})
      BY <3>1, <3>5, <3>6, GeneratedIs
    <3>8. ~ Holding(known)
      BY <3>2 DEF Holding
    <3>9. Knows(t.ring, Closure({Identity}, group \cup {p}))
      BY <2>1, <2>2, <3>3, <3>4, <3>8, FilterGives
    <3>10. call' = call /\ call = Idle
      BY <2>3 DEF addgenerator, Begins
    <3> QED
      BY <3>3, <3>7, <3>9, <3>10 DEF GroupInvariant, WalkIn
  <2>4. CASE GetKnownOrbits
    BY <2>2, <2>4 DEF GetKnownOrbits, GroupInvariant
  <2>5. CASE GetOrbits
    <3>1. PICK fix \in Bases :
             /\ Agreement(fix) < Len(fix)
             /\ \E s \in {Rebase([ring |-> ring, levels |-> levels], Agreement(fix), fix)} :
                    ring' = s.ring /\ levels' = s.levels
             /\ Expand("getorbits", fix, {})
      BY <2>5, Zenon DEF GetOrbits
    <3>2. PICK k : k = Agreement(fix)
      OBVIOUS
    <3>3. PICK s : s = Rebase([ring |-> ring, levels |-> levels], k, fix) /\ ring' = s.ring
      BY <3>1, <3>2
    <3>4. /\ fix \in Seq(Points) /\ k \in 0 .. Len(fix) - 1
          /\ \A n : IsChain(levels, n) => k < n
      BY <3>1, <3>2, AgreementBelow
    <3>5. Keeps(ring, s.ring)
      BY <2>1, <3>3, <3>4, RebaseGroup
    <3>6. Knows(ring', group) /\ PermsOf(ring') \subseteq group
      <4>1. Knows(s.ring, group)
        BY <2>2, <3>5, KeepsKnows
      <4> QED
        BY <3>3, <4>1 DEF Knows
    <3>7. WalkIn(call', group)
      BY <3>1, <3>6, ExpandIn
    <3>8. group' = group
      BY <2>5 DEF GetOrbits
    <3> QED
      BY <3>6, <3>7, <3>8 DEF GroupInvariant
  <2>6. CASE GetOrbitsMin
    <3>1. PICK fix \in Bases \ {<<>>}, cell \in Cells :
             /\ \E s \in {Rebase([ring |-> ring, levels |-> levels], 0, fix)} :
                    ring' = s.ring /\ levels' = s.levels
             /\ call' = Idle \/ Expand("getorbitsmin", fix, cell)
      BY <2>6, Zenon DEF GetOrbitsMin
    <3>2. fix \in Seq(Points) /\ fix # <<>>
      BY <3>1, ConstantsAssumption
    <3>3. 0 \in 0 .. Len(fix) - 1
      BY <3>2
    <3>4. \A n : IsChain(levels, n) => 0 < n
      BY DEF IsChain
    <3>5. PICK s : s = Rebase([ring |-> ring, levels |-> levels], 0, fix) /\ ring' = s.ring
      BY <3>1
    <3>6. Keeps(ring, s.ring)
      BY <2>1, <3>2, <3>3, <3>4, <3>5, RebaseGroup
    <3>7. Knows(ring', group) /\ PermsOf(ring') \subseteq group
      <4>1. Knows(s.ring, group)
        BY <2>2, <3>6, KeepsKnows
      <4> QED
        BY <3>5, <4>1 DEF Knows
    <3>8. WalkIn(call', group)
      <4>1. CASE call' = Idle
        BY <4>1 DEF WalkIn
      <4>2. CASE Expand("getorbitsmin", fix, cell)
        BY <3>7, <4>2, ExpandIn
      <4> QED
        BY <3>1, <4>1, <4>2
    <3>9. group' = group
      BY <2>6 DEF GetOrbitsMin
    <3> QED
      BY <3>7, <3>8, <3>9 DEF GroupInvariant
  <2>7. CASE Filter
    <3>1. PICK w \in Walks(call.w) :
             \E t \in {filterschreier(ring, levels, w, TRUE)} :
                 /\ ring' = t.ring /\ levels' = t.levels
                 /\ call' = Idle \/ \E k : call' = [call EXCEPT !.w = w, !.nfails = k]
      BY <2>7, Zenon DEF Filter
    <3>2. PICK known \in BOOLEAN : known = TRUE
      OBVIOUS
    <3>3. PICK t : t = filterschreier(ring, levels, w, known) /\ ring' = t.ring
      BY <3>1, <3>2
    <3>4. call # Idle
      BY <2>7 DEF Filter
    <3>5. w \in group
      <4>1. call.w \in group
        BY <2>2, <3>4 DEF WalkIn
      <4> QED
        BY <2>2, <3>1, <4>1, WalksIn
    <3>6. Holding(known)
      BY <3>2 DEF Holding
    <3>7. Knows(t.ring, group)
      BY <2>1, <2>2, <3>3, <3>5, <3>6, FilterKnows
    <3>8. WalkIn(call', group)
      <4>1. CASE call' = Idle
        BY <4>1 DEF WalkIn
      <4>2. ASSUME NEW k, call' = [call EXCEPT !.w = w, !.nfails = k] PROVE WalkIn(call', group)
        <5>1. call' = [op |-> call.op, fix |-> call.fix, cell |-> call.cell, w |-> w, nfails |-> k]
          BY <2>1, <3>4, <4>2 DEF IsWalk
        <5> QED
          BY <3>5, <5>1 DEF WalkIn
      <4> QED
        BY <3>1, <4>1, <4>2
    <3>9. group' = group
      BY <2>7 DEF Filter
    <3> QED
      BY <3>3, <3>7, <3>8, <3>9 DEF GroupInvariant
  <2>8. CASE FindCurrOrbits
    BY <2>2, <2>8 DEF FindCurrOrbits, GroupInvariant
  <2>9. CASE FreeSchreier
    <3>1. ring' = <<>> /\ group' = {Identity} /\ call' = call /\ call = Idle
      BY <2>9 DEF FreeSchreier
    <3>2. Knows(ring', group')
      BY <3>1, NoneKnown
    <3> QED
      BY <3>1, <3>2 DEF GroupInvariant, WalkIn
  <2>10. CASE UNCHANGED vars
    BY <2>2, <2>10 DEF vars, GroupInvariant
  <2> QED
    BY <2>3, <2>4, <2>5, <2>6, <2>7, <2>8, <2>9, <2>10 DEF Next
<1> QED
  BY <1>1, <1>2, RingStays, PTL DEF Spec

\* No automorphism that was added is lost (schreier.c, addgenerator): those that are marked,
\* and so never freed, generate the same group as all that were added.
THEOREM NothingForgottenTheorem == Spec => []NothingForgotten
<1>1. GroupInvariant => NothingForgotten
  <2> SUFFICES ASSUME GroupInvariant PROVE NothingForgotten
    OBVIOUS
  <2>1. PICK S : S = MarkedOf(ring)
    OBVIOUS
  <2>2. S \in SUBSET Maps /\ Closure({Identity}, S) = group
    BY <2>1, PermsAreMaps DEF GroupInvariant, Knows
  <2>3. Knowledge!Generated(S) = group
    BY <2>2, GeneratedIs
  <2> QED
    BY <2>1, <2>3 DEF NothingForgotten, MarkedOf
<1> QED
  BY <1>1, GroupStays, PTL
-----------------------------------------------------------------------------
(* The orbits of a level *)

\* The elements of G that move no point of B.
Fixers(G, B) == {s \in G : FixesAll(s, B)}

SameOrbit(G, u, v) == \E s \in G : s[u] = v

\* Every point has a smaller one, or itself, of its orbit as its name.
Named(o, G) ==
    /\ o \in [Points -> Points]
    /\ \A v \in Points : SameOrbit(G, v, o[v]) /\ o[v] <= v /\ o[o[v]] = o[v]

\* Points with the same name in o have the same name in more.
Coarser(o, more) == \A u, v \in Points : o[u] = o[v] => more[u] = more[v]

\* The elements of S take a point to one with the same name.
Fuses(o, S) == \A s \in S : \A v \in Points : o[s[v]] = o[v]

\* One iteration of the loop of JoinOrbits.
JoinAt(o, perm, i) ==
    LET a == o[i]  b == o[perm[i]]
    IN  [j \in Points |-> IF o[j] \in {a, b} THEN Min({a, b}) ELSE o[j]]

\* The elements of a group that move no point of B are a group.
LEMMA FixersGroup ==
  ASSUME NEW G, Subgroup(G), NEW B, B \subseteq Points
  PROVE  Subgroup(Fixers(G, B))
<1>1. G \subseteq Perms /\ Identity \in G
  BY DEF Subgroup
<1>2. Identity \in Fixers(G, B)
  BY <1>1, IdentityAt DEF Fixers, FixesAll
<1>3. ASSUME NEW x \in Fixers(G, B), NEW y \in Fixers(G, B) PROVE Then(x, y) \in Fixers(G, B)
  <2>1. x \in Perms /\ y \in Perms /\ Then(x, y) \in G
    BY <1>1 DEF Fixers, Subgroup, RightClosed
  <2>2. \A b \in B : Then(x, y)[b] = b
    <3> TAKE b \in B
    <3>1. x[b] = b /\ y[b] = b /\ b \in Points
      BY DEF Fixers, FixesAll
    <3>2. Then(x, y)[b] = y[x[b]]
      BY <2>1, <3>1, ThenAt
    <3> QED
      BY <3>1, <3>2
  <2> QED
    BY <2>1, <2>2 DEF Fixers, FixesAll
<1> QED
  BY <1>1, <1>2, <1>3 DEF Subgroup, RightClosed, Fixers

\* To be in one orbit is an equivalence.
LEMMA OrbitLaws ==
  ASSUME NEW G, Subgroup(G), NEW u \in Points, NEW v \in Points, NEW w \in Points
  PROVE  /\ SameOrbit(G, u, u)
         /\ SameOrbit(G, u, v) => SameOrbit(G, v, u)
         /\ SameOrbit(G, u, v) /\ SameOrbit(G, v, w) => SameOrbit(G, u, w)
<1>1. G \subseteq Perms /\ Identity \in G
  BY DEF Subgroup
<1>2. SameOrbit(G, u, u)
  BY <1>1, IdentityAt DEF SameOrbit
<1>3. ASSUME NEW s \in G, s[u] = v PROVE SameOrbit(G, v, u)
  <2>1. PICK r \in G : Then(s, r) = Identity
    BY Undone
  <2>2. Then(s, r)[u] = r[s[u]]
    BY <1>1, ThenAt
  <2>3. r[v] = u
    BY <1>3, <2>1, <2>2, IdentityAt
  <2> QED
    BY <2>3 DEF SameOrbit
<1>4. ASSUME NEW s \in G, s[u] = v, NEW t \in G, t[v] = w PROVE SameOrbit(G, u, w)
  <2>1. Then(s, t) \in G
    BY DEF Subgroup, RightClosed
  <2>2. Then(s, t)[u] = w
    BY <1>1, <1>4, ThenAt
  <2> QED
    BY <2>1, <2>2 DEF SameOrbit
<1> QED
  BY <1>2, <1>3, <1>4 DEF SameOrbit

\* The lesser of two points.
LEMMA MinOfTwo ==
  ASSUME NEW a \in Points, NEW b \in Points, NEW c, c = Min({a, b})
  PROVE  c \in {a, b} /\ c <= a /\ c <= b
<1>1. a \in Nat /\ b \in Nat
  BY NPositive
<1> DEFINE P(x) == x \in {a, b} /\ \A y \in {a, b} : x <= y
<1>2. \E x : P(x)
  <2>1. CASE a <= b
    <3>1. P(a)
      BY <1>1, <2>1
    <3> QED
      BY <3>1
  <2>2. CASE ~ a <= b
    <3>1. P(b)
      BY <1>1, <2>2
    <3> QED
      BY <3>1
  <2> QED
    BY <2>1, <2>2
<1>3. c = CHOOSE x \in {a, b} : \A y \in {a, b} : x <= y
  BY DEF Min
<1>4. P(c)
  BY <1>2, <1>3
<1> QED
  BY <1>4

\* One iteration joins two orbits that are one, or were one.
LEMMA JoinStep ==
  ASSUME NEW G, Subgroup(G), NEW o, Named(o, G), NEW p \in G, NEW i \in Points,
         NEW more, more = JoinAt(o, p, i)
  PROVE  Named(more, G) /\ Coarser(o, more) /\ more[p[i]] = more[i]
<1>1. PICK a, b, c : a = o[i] /\ b = o[p[i]] /\ c = Min({a, b})
  OBVIOUS
<1>2. /\ p \in Perms /\ p[i] \in Points /\ o \in [Points -> Points]
      /\ \A v \in Points : SameOrbit(G, v, o[v]) /\ o[v] <= v /\ o[o[v]] = o[v]
  BY DEF Subgroup, Perms, Named
<1>3. a \in Points /\ b \in Points /\ o[a] = a /\ o[b] = b
  BY <1>1, <1>2
<1>4. c \in {a, b} /\ c <= a /\ c <= b /\ c \in Points /\ o[c] = c
  BY <1>1, <1>3, MinOfTwo
<1>5. \A j \in Points : more[j] = IF o[j] \in {a, b} THEN c ELSE o[j]
  BY <1>1 DEF JoinAt
<1>6. more \in [Points -> Points]
  <2>1. more = [j \in Points |-> IF o[j] \in {a, b} THEN c ELSE o[j]]
    BY <1>1 DEF JoinAt
  <2> QED
    BY <1>2, <1>4, <2>1
<1>7. SameOrbit(G, a, c) /\ SameOrbit(G, b, c)
  <2>1. SameOrbit(G, i, p[i])
    BY DEF SameOrbit
  <2>2. SameOrbit(G, i, a) /\ SameOrbit(G, p[i], b)
    BY <1>1, <1>2
  <2>3. SameOrbit(G, a, i)
    BY <1>3, <2>2, OrbitLaws
  <2>4. SameOrbit(G, a, p[i])
    BY <1>2, <1>3, <2>1, <2>3, OrbitLaws
  <2>5. SameOrbit(G, a, b)
    BY <1>2, <1>3, <2>2, <2>4, OrbitLaws
  <2>6. SameOrbit(G, b, a) /\ SameOrbit(G, a, a) /\ SameOrbit(G, b, b)
    BY <1>3, <2>5, OrbitLaws
  <2> QED
    BY <1>4, <2>5, <2>6
<1>8. ASSUME NEW v \in Points
      PROVE  SameOrbit(G, v, more[v]) /\ more[v] <= v /\ more[more[v]] = more[v]
  <2>1. o[v] \in Points /\ SameOrbit(G, v, o[v]) /\ o[v] <= v /\ o[o[v]] = o[v]
        /\ v \in Nat /\ o[v] \in Nat /\ c \in Nat
    BY <1>2, <1>4, NPositive
  <2>2. CASE o[v] \in {a, b}
    <3>1. more[v] = c
      BY <1>5, <2>2
    <3>2. more[c] = c
      BY <1>4, <1>5
    <3>3. SameOrbit(G, o[v], c)
      BY <1>7, <2>2
    <3>4. SameOrbit(G, v, c)
      BY <1>4, <2>1, <3>3, OrbitLaws
    <3>5. c <= v
      BY <1>4, <2>1, <2>2
    <3> QED
      BY <3>1, <3>2, <3>4, <3>5
  <2>3. CASE o[v] \notin {a, b}
    BY <1>5, <2>1, <2>3
  <2> QED
    BY <2>2, <2>3
<1>9. Coarser(o, more)
  BY <1>5 DEF Coarser
<1>10. more[p[i]] = more[i]
  BY <1>1, <1>2, <1>5
<1> QED
  BY <1>6, <1>8, <1>9, <1>10 DEF Named

\* The function that InOrder recurses by, for the points before n.
JoinsTo(f, o, p, n) ==
    f = [T \in SUBSET (0 .. n - 1) |->
            IF T = {} THEN o ELSE JoinAt(f[T \ {Max(T)}], p, Max(T))]

\* The largest of some numbers.
LEMMA MaxIn ==
  ASSUME NEW n \in Nat, NEW T \in SUBSET (0 .. n - 1), T # {}, NEW m, m = Max(T)
  PROVE  m \in T /\ \A y \in T : y <= m
<1>1. T \in SUBSET Int /\ \A x \in T : x <= n
  OBVIOUS
<1>2. n \in Int
  OBVIOUS
<1>3. PICK x \in T : \A y \in T : y <= x
  BY <1>1, <1>2, Greatest
<1> DEFINE P(z) == z \in T /\ \A y \in T : z >= y
<1>4. P(x)
  BY <1>1, <1>3
<1>5. m = CHOOSE z \in T : \A y \in T : z >= y
  BY Zenon DEF Max
<1>6. P(m)
  BY <1>4, <1>5
<1> QED
  BY <1>1, <1>6

\* It exists for every number of points.
LEMMA JoinsExist ==
  ASSUME NEW o, NEW p, NEW n \in Nat
  PROVE  \E f : JoinsTo(f, o, p, n)
<1> DEFINE S == {m \in Nat : ~ \E f : JoinsTo(f, o, p, m)}
<1> SUFFICES ASSUME S # {} PROVE FALSE
  OBVIOUS
<1>1. PICK m \in S : \A y \in S : m <= y
  BY Least
<1>2. CASE m = 0
  <2> DEFINE f == [T \in SUBSET (0 .. m - 1) |-> o]
  <2>1. \A T \in SUBSET (0 .. m - 1) : T = {}
    BY <1>2
  <2>2. f = [T \in SUBSET (0 .. m - 1) |->
                IF T = {} THEN o ELSE JoinAt(f[T \ {Max(T)}], p, Max(T))]
    BY <2>1
  <2> QED
    BY <2>2, <1>1 DEF JoinsTo
<1>3. CASE m # 0
  <2>1. PICK k \in Nat : k = m - 1 /\ k \notin S
    <3>1. m - 1 \in Nat /\ m - 1 \notin S
      BY <1>1, <1>3
    <3> QED
      BY <3>1
  <2>2. PICK f : JoinsTo(f, o, p, k)
    BY <2>1
  <2>3. \A T \in SUBSET (0 .. k - 1) :
            f[T] = IF T = {} THEN o ELSE JoinAt(f[T \ {Max(T)}], p, Max(T))
    BY <2>2 DEF JoinsTo
  <2> DEFINE g == [T \in SUBSET (0 .. k) |->
                      IF k \in T THEN JoinAt(f[T \ {k}], p, k) ELSE f[T]]
  <2>4. \A x : x \in 0 .. k /\ x # k => x \in 0 .. k - 1
    OBVIOUS
  <2>5. ASSUME NEW T \in SUBSET (0 .. k)
        PROVE  g[T] = IF T = {} THEN o ELSE JoinAt(g[T \ {Max(T)}], p, Max(T))
    <3>1. CASE T = {}
      <4>1. T \in SUBSET (0 .. k - 1)
        BY <3>1
      <4>2. f[T] = o
        BY <2>3, <3>1, <4>1
      <4> QED
        BY <3>1, <4>2
    <3>2. CASE T # {}
      <4>1. PICK x : x = Max(T)
        OBVIOUS
      <4>2. PICK j \in Nat : T \in SUBSET (0 .. j - 1)
        <5>1. k + 1 \in Nat /\ k + 1 - 1 = k
          OBVIOUS
        <5> QED
          BY <5>1
      <4>3. x \in T /\ \A y \in T : y <= x
        BY <3>2, <4>1, <4>2, MaxIn
      <4>4. CASE k \in T
        <5>1. x = k
          BY <4>3, <4>4
        <5>2. T \ {k} \in SUBSET (0 .. k) /\ k \notin T \ {k}
          OBVIOUS
        <5>3. g[T \ {k}] = f[T \ {k}]
          BY <5>2
        <5>4. g[T] = JoinAt(f[T \ {k}], p, k)
          BY <4>4
        <5> HIDE DEF g
        <5> QED
          BY <3>2, <4>1, <5>1, <5>3, <5>4
      <4>5. CASE k \notin T
        <5>1. T \in SUBSET (0 .. k - 1) /\ T \ {x} \in SUBSET (0 .. k) /\ k \notin T \ {x}
          BY <2>4, <4>5
        <5>2. g[T] = f[T] /\ g[T \ {x}] = f[T \ {x}]
          BY <4>5, <5>1
        <5>3. f[T] = JoinAt(f[T \ {x}], p, x)
          BY <2>3, <3>2, <4>1, <5>1
        <5> HIDE DEF g
        <5> QED
          BY <3>2, <4>1, <5>2, <5>3
      <4> QED
        BY <4>4, <4>5
    <3> QED
      BY <3>1, <3>2
  <2>6. g = [T \in SUBSET (0 .. k) |->
                IF T = {} THEN o ELSE JoinAt(g[T \ {Max(T)}], p, Max(T))]
    BY <2>5
  <2> HIDE DEF g
  <2>7. JoinsTo(g, o, p, m)
    <3>1. m - 1 = k
      BY <2>1
    <3> QED
      BY <2>6, <3>1 DEF JoinsTo
  <2> QED
    BY <1>1, <2>7
<1> QED
  BY <1>2, <1>3

\* JoinOrbits is its value for all points.
LEMMA JoinIsLast ==
  ASSUME NEW o, NEW p
  PROVE  \E f : JoinsTo(f, o, p, N) /\ JoinOrbits(o, p) = f[Points]
<1> DEFINE G(f) == [T \in SUBSET Points |->
                       IF T = {} THEN o
                       ELSE With(Max(T), LAMBDA m : With(f[T \ {m}], LAMBDA done : JoinAt(done, p, m)))]
           H(f) == [T \in SUBSET Points |->
                       IF T = {} THEN o ELSE JoinAt(f[T \ {Max(T)}], p, Max(T))]
           f == CHOOSE f : f = H(f)
<1>1. ASSUME NEW h PROVE G(h) = H(h)
  BY Zenon DEF With
<1>2. \A h : JoinsTo(h, o, p, N) <=> h = H(h)
  BY Zenon DEF JoinsTo, Points
<1>3. JoinOrbits(o, p) = (CHOOSE h : h = G(h))[Points]
  BY Zenon DEF JoinOrbits, InOrder, JoinAt
<1> HIDE DEF G, H
<1>4. (CHOOSE h : h = G(h)) = f
  BY <1>1, Zenon
<1>5. \E h : h = H(h)
  BY <1>2, NPositive, JoinsExist
<1>6. f = H(f)
  BY <1>5, Zenon
<1> HIDE DEF f
<1> QED
  BY <1>2, <1>3, <1>4, <1>6, Zenon

\* JoinOrbits: the names stay names, and no orbits come apart.  The permutation takes each
\* point to one with the same name.
LEMMA JoinOrbitsNames ==
  ASSUME NEW G, Subgroup(G), NEW o, Named(o, G), NEW p \in G,
         NEW more, more = JoinOrbits(o, p)
  PROVE  Named(more, G) /\ Coarser(o, more) /\ Fuses(more, {p})
<1>1. PICK f : JoinsTo(f, o, p, N) /\ more = f[Points]
  BY JoinIsLast
<1>2. N \in Nat /\ Points = 0 .. N - 1
  BY NPositive
<1>3. \A T \in SUBSET Points :
          f[T] = IF T = {} THEN o ELSE JoinAt(f[T \ {Max(T)}], p, Max(T))
  BY <1>1, <1>2 DEF JoinsTo
<1> DEFINE Good(k) == /\ Named(f[0 .. k - 1], G) /\ Coarser(o, f[0 .. k - 1])
                      /\ \A i \in 0 .. k - 1 : f[0 .. k - 1][p[i]] = f[0 .. k - 1][i]
           S == {k \in 0 .. N : ~ Good(k)}
<1> HIDE DEF Good
<1>4. S = {}
  <2> SUFFICES ASSUME S # {} PROVE FALSE
    OBVIOUS
  <2>1. PICK k \in S : \A y \in S : k <= y
    <3>1. S \in SUBSET Nat
      BY <1>2
    <3> HIDE DEF S
    <3> QED
      BY <3>1, Least
  <2>2. CASE k = 0
    <3>1. 0 .. k - 1 = {}
      BY <2>2
    <3>2. f[0 .. k - 1] = o
      BY <1>3, <3>1
    <3>3. Good(k)
      BY <3>1, <3>2 DEF Coarser, Good
    <3> QED
      BY <2>1, <3>3
  <2>3. CASE k # 0
    <3>1. PICK i \in Points : i = k - 1 /\ i \in 0 .. N /\ i \notin S
      <4>1. k \in 0 .. N /\ k - 1 \notin S
        BY <2>1
      <4>2. k - 1 \in Points /\ k - 1 \in 0 .. N
        BY <1>2, <2>3, <4>1
      <4> QED
        BY <4>1, <4>2
    <3>2. PICK T : T = 0 .. k - 1
      OBVIOUS
    <3>3. /\ T \in SUBSET Points /\ T # {} /\ T \ {i} = 0 .. i - 1 /\ i \in T
          /\ \A j \in T : j = i \/ j \in 0 .. i - 1
      <4>1. k \in Nat /\ k <= N /\ i = k - 1 /\ T = 0 .. k - 1
        BY <1>2, <2>1, <3>1, <3>2
      <4> HIDE DEF S
      <4>2. i \in Int /\ 0 <= i /\ i < k /\ N \in Int
        BY <1>2, <2>3, <4>1
      <4>3. T \in SUBSET Points
        BY <1>2, <4>1, <4>2
      <4>4. i \in T
        BY <4>1, <4>2
      <4>5. \A j \in T : j = i \/ j \in 0 .. i - 1
        BY <4>1, <4>2
      <4>6. \A j \in 0 .. i - 1 : j \in T /\ j # i
        BY <4>1, <4>2
      <4>7. T \ {i} = 0 .. i - 1
        BY <4>5, <4>6
      <4> QED
        BY <4>3, <4>4, <4>5, <4>7
    <3>4. Max(T) = i
      <4>1. PICK m : m = Max(T)
        OBVIOUS
      <4>2. T \in SUBSET (0 .. N - 1)
        BY <1>2, <3>3
      <4>3. m \in T /\ \A y \in T : y <= m
        BY <1>2, <3>3, <4>1, <4>2, MaxIn
      <4>4. m \in Int /\ i \in Int /\ m <= i /\ i <= m
        BY <1>2, <2>1, <3>1, <3>2, <3>3, <4>3
      <4> QED
        BY <4>1, <4>4
    <3>5. PICK a, b : a = f[0 .. i - 1] /\ b = f[T]
      OBVIOUS
    <3>6. b = JoinAt(a, p, i)
      BY <1>3, <3>3, <3>4, <3>5
    <3>7. /\ Named(a, G) /\ Coarser(o, a)
          /\ \A j \in 0 .. i - 1 : a[p[j]] = a[j]
      <4>1. Good(i)
        BY <3>1
      <4> QED
        BY <3>5, <4>1 DEF Good
    <3> HIDE DEF S
    <3>8. Named(b, G) /\ Coarser(a, b) /\ b[p[i]] = b[i]
      BY <3>6, <3>7, JoinStep
    <3>9. Coarser(o, b)
      BY <3>7, <3>8 DEF Coarser
    <3>10. \A j \in T : b[p[j]] = b[j]
      <4> TAKE j \in T
      <4>1. CASE j = i
        BY <3>8, <4>1
      <4>2. CASE j # i
        <5>1. a[p[j]] = a[j] /\ j \in Points /\ p[j] \in Points
          BY <3>3, <3>7, <4>2 DEF Subgroup, Perms
        <5> QED
          BY <3>8, <5>1 DEF Coarser
      <4> QED
        BY <4>1, <4>2
    <3>11. Good(k)
      BY <3>2, <3>5, <3>8, <3>9, <3>10 DEF Good
    <3> QED
      BY <2>1, <3>11 DEF S
  <2> QED
    BY <2>2, <2>3
<1>5. Good(N)
  BY <1>2, <1>4
<1>6. /\ Named(more, G) /\ Coarser(o, more)
      /\ \A i \in Points : more[p[i]] = more[i]
  <2>1. f[0 .. N - 1] = more
    BY <1>1, <1>2
  <2> QED
    BY <1>2, <1>5, <2>1 DEF Good
<1> QED
  BY <1>6 DEF Fuses

\* The names at each level are names of the orbits when the base points before it are fixed.
LevelsNamed(chain, n, G) ==
    \A l \in 1 .. n :
        InUse(chain, l - 1) => Named(chain[l].orbits, Fixers(G, Before(chain, l)))

SameBases(chain, other, n) == \A k \in 1 .. n : other[k].fixed = chain[k].fixed

SameOrbits(chain, other, n) == \A k \in 1 .. n : other[k].orbits = chain[k].orbits

\* The base points before a level are points.
LEMMA BeforeIn ==
  ASSUME NEW chain, NEW n, IsChain(chain, n), NEW l \in 1 .. n, InUse(chain, l - 1)
  PROVE  Before(chain, l) \subseteq Points
<1>1. n \in Nat /\ \A i \in 1 .. n : chain[i].fixed \in -1 .. N - 1
  BY DEF IsChain, IsLevel
<1>2. \A i \in 1 .. l - 1 : i \in 1 .. n /\ chain[i].fixed >= 0
  BY <1>1 DEF InUse
<1>3. \A i \in 1 .. l - 1 : chain[i].fixed \in Points
  BY <1>1, <1>2, NPositive
<1> QED
  BY <1>3 DEF Before

\* Larger groups have larger orbits.
LEMMA NamedIn ==
  ASSUME NEW chain, NEW n, NEW K, NEW H, K \subseteq H, LevelsNamed(chain, n, K)
  PROVE  LevelsNamed(chain, n, H)
<1>1. \A B : Fixers(K, B) \subseteq Fixers(H, B)
  BY DEF Fixers
<1>2. ASSUME NEW o, NEW B, Named(o, Fixers(K, B)) PROVE Named(o, Fixers(H, B))
  BY <1>1, <1>2 DEF Named, SameOrbit
<1> QED
  BY <1>2 DEF LevelsNamed

\* The names of levels with the same base points and orbits.
LEMMA NamedSame ==
  ASSUME NEW chain, NEW n \in Nat, NEW other, SameBases(chain, other, n),
         SameOrbits(chain, other, n), NEW H, LevelsNamed(chain, n, H)
  PROVE  LevelsNamed(other, n, H)
<1> SUFFICES ASSUME NEW l \in 1 .. n, InUse(other, l - 1)
             PROVE  Named(other[l].orbits, Fixers(H, Before(other, l)))
  BY DEF LevelsNamed
<1>1. \A i \in 1 .. l - 1 : other[i].fixed = chain[i].fixed
  BY DEF SameBases
<1>2. InUse(chain, l - 1) /\ Before(other, l) = Before(chain, l)
  BY <1>1 DEF InUse, Before
<1>3. other[l].orbits = chain[l].orbits
  BY DEF SameOrbits
<1> QED
  BY <1>2, <1>3 DEF LevelsNamed

\* What goes through a vector leaves the orbits as they are.
LEMMA ThroughOrbits ==
  ASSUME NEW t, NEW n, Traced(t, n), NEW l \in 1 .. n, Passed(t, l - 1),
         NEW u, u = ThroughVector(t, l)
  PROVE  SameBases(t.levels, u.levels, n) /\ SameOrbits(t.levels, u.levels, n)
<1>1. IsFilter(t, n)
  BY DEF Traced
<1>2. CASE t.levels[l].fixed < 0
  <2>1. u = [t EXCEPT !.stop = TRUE]
    BY <1>2, Zenon DEF ThroughVector
  <2>2. u.levels = t.levels
    BY <1>1, <2>1 DEF IsFilter
  <2> QED
    BY <2>2 DEF SameBases, SameOrbits
<1>3. CASE ~ t.levels[l].fixed < 0
  <2>1. u = Sift(ExtendVector(t, l), l)
    BY <1>3, Zenon DEF ThroughVector, With
  <2>2. PICK v : v = ExtendVector(t, l)
    OBVIOUS
  <2>3. AtLevel(t, n, l)
    BY <1>3, LevelReached
  <2>4. AtLevel(v, n, l)
    BY <2>2, <2>3, ExtendTraced
  <2>5. SameBases(t.levels, v.levels, n) /\ SameOrbits(t.levels, v.levels, n)
    <3>1. PICK new : new = Newcomers(t, l)
      OBVIOUS
    <3>2. CASE new = {}
      <4>1. v = t
        BY <2>2, <3>1, <3>2, Zenon DEF ExtendVector, Newcomers
      <4> QED
        BY <4>1 DEF SameBases, SameOrbits
    <3>3. CASE new # {}
      <4>1. HoldsCurrent(t)
        BY DEF Traced
      <4>2. PICK x : Grows(t, v, l, n, x)
        BY <1>1, <2>2, <3>1, <3>3, <4>1, ExtendGrows
      <4>3. \A k \in 1 .. n : k # l => v.levels[k] = t.levels[k]
        BY <4>2 DEF Grows
      <4>4. v.levels[l].fixed = t.levels[l].fixed /\ v.levels[l].orbits = t.levels[l].orbits
        BY <4>2 DEF Grows, Grown
      <4> QED
        BY <4>3, <4>4 DEF SameBases, SameOrbits
    <3> QED
      BY <3>2, <3>3
  <2>6. u.levels = v.levels
    <3>1. u = Sift(v, l)
      BY <2>1, <2>2
    <3>2. u = v \/ \E b : u = [v EXCEPT !.w = b, !.curr = NULL]
      BY <3>1, Zenon DEF Sift
    <3>3. IsFilter(v, n)
      BY <2>4 DEF AtLevel, Traced
    <3> QED
      BY <3>2, <3>3 DEF IsFilter
  <2> QED
    BY <2>5, <2>6
<1> QED
  BY <1>2, <1>3

\* The chain that t started with, and p, that came in.
Fused(t, chain, n, K, H, p, l) ==
    /\ SameBases(chain, t.levels, n) /\ LevelsNamed(t.levels, n, H)
    /\ Fuses(t.levels[1].orbits, K)
    /\ IF l = 0 THEN t.w = p /\ ~ Stopped(t) ELSE Fuses(t.levels[1].orbits, {p})

\* Coarser names are fused by the same permutations.
LEMMA FusesCoarser ==
  ASSUME NEW o, NEW more, Coarser(o, more), NEW S, S \subseteq Perms, Fuses(o, S)
  PROVE  Fuses(more, S)
<1>1. \A s \in S : \A v \in Points : s[v] \in Points
  BY DEF Perms
<1> QED
  BY <1>1 DEF Fuses, Coarser

\* After the orbits of level l were joined.
LEMMA JoinedFuses ==
  ASSUME NEW K, NEW H, Setting(K, H), NEW chain, NEW p \in H,
         NEW t, NEW n, Traced(t, n), NEW l \in 1 .. n, Passed(t, l - 1), t.w \in H,
         Fused(t, chain, n, K, H, p, l - 1),
         NEW o, o = JoinOrbits(t.levels[l].orbits, t.w),
         NEW u, u = Joined(t, l, o)
  PROVE  /\ SameBases(chain, u.levels, n) /\ LevelsNamed(u.levels, n, H)
         /\ Fuses(u.levels[1].orbits, K) /\ Fuses(u.levels[1].orbits, {p})
<1>1. PICK old, made, w, B, was :
         /\ old = t.levels /\ made = u.levels /\ w = t.w /\ B = Before(t.levels, l)
         /\ was = t.levels[l].orbits
  OBVIOUS
<1>2. /\ IsFilter(t, n) /\ IsChain(old, n) /\ n \in Nat \ {0} /\ w \in Perms /\ w \in H
      /\ Subgroup(H) /\ K \subseteq Perms /\ p \in Perms
  BY <1>1 DEF Traced, IsFilter, IsChain, Setting, Subgroup
<1>3. /\ SameTrees(old, made, n)
      /\ \A k \in 1 .. n : made[k].orbits = IF k = l THEN o ELSE old[k].orbits
  BY <1>1, <1>2, JoinedShape
<1>4. SameBases(old, made, n)
  BY <1>3 DEF SameTrees, SameBases
<1>5. InUse(old, l - 1) /\ FixesAll(w, B)
  <2>1. l - 1 + 1 = l
    BY <1>2
  <2> QED
    BY <1>1, <2>1 DEF Passed
<1>6. B \subseteq Points
  BY <1>1, <1>2, <1>5, BeforeIn
<1>7. Subgroup(Fixers(H, B)) /\ w \in Fixers(H, B)
  BY <1>2, <1>5, <1>6, FixersGroup DEF Fixers
<1>8. Named(was, Fixers(H, B))
  BY <1>1, <1>5 DEF Fused, LevelsNamed
<1>9. Named(o, Fixers(H, B)) /\ Coarser(was, o) /\ Fuses(o, {w})
  <2>1. o = JoinOrbits(was, w)
    BY <1>1
  <2>2. PICK F : F = Fixers(H, B)
    OBVIOUS
  <2> QED
    BY <1>7, <1>8, <2>1, <2>2, JoinOrbitsNames
<1>10. LevelsNamed(made, n, H)
  <2> SUFFICES ASSUME NEW k \in 1 .. n, InUse(made, k - 1)
               PROVE  Named(made[k].orbits, Fixers(H, Before(made, k)))
    BY DEF LevelsNamed
  <2>1. \A i \in 1 .. k - 1 : made[i].fixed = old[i].fixed
    BY <1>2, <1>4 DEF SameBases
  <2>2. InUse(old, k - 1) /\ Before(made, k) = Before(old, k)
    BY <2>1 DEF InUse, Before
  <2>3. CASE k = l
    BY <1>1, <1>3, <1>9, <2>2, <2>3
  <2>4. CASE k # l
    BY <1>1, <1>3, <2>2, <2>4 DEF Fused, LevelsNamed
  <2> QED
    BY <2>3, <2>4
<1>11. SameBases(chain, made, n)
  BY <1>1, <1>4 DEF Fused, SameBases
<1>12. Fuses(made[1].orbits, K) /\ Fuses(made[1].orbits, {p})
  <2>1. Fuses(old[1].orbits, K) /\ 1 \in 1 .. n
    BY <1>1, <1>2 DEF Fused
  <2>2. CASE l = 1
    <3>1. w = p
      BY <1>1, <2>2 DEF Fused
    <3>2. made[1].orbits = o /\ old[1].orbits = was
      BY <1>1, <1>3, <2>1, <2>2
    <3> QED
      BY <1>2, <1>9, <2>1, <3>1, <3>2, FusesCoarser
  <2>3. CASE l # 1
    <3>1. l - 1 # 0
      BY <1>2, <2>3
    <3>2. Fuses(old[1].orbits, {p})
      BY <1>1, <3>1 DEF Fused
    <3> QED
      BY <1>3, <2>1, <2>3, <3>2
  <2> QED
    BY <2>2, <2>3
<1> QED
  BY <1>1, <1>10, <1>11, <1>12

\* One level.
LEMMA LevelFuses ==
  ASSUME NEW K, NEW H, Setting(K, H), NEW chain, NEW p \in H,
         NEW t, NEW n, Traced(t, n), NEW l \in 1 .. n, Stopped(t) \/ Passed(t, l - 1),
         t.w \in H, Fused(t, chain, n, K, H, p, l - 1),
         NEW u, u = FilterLevel(t, l)
  PROVE  Fused(u, chain, n, K, H, p, l)
<1>1. n \in Nat /\ l # 0 /\ 1 \in 1 .. n
  BY DEF Traced, IsFilter, IsChain
<1>2. \/ u = [t EXCEPT !.stop = TRUE] /\ (Stopped(t) \/ t.w = Identity)
      \/ /\ ~ Stopped(t)
         /\ u = ThroughVector(Joined(t, l, JoinOrbits(t.levels[l].orbits, t.w)), l)
  BY Zenon DEF FilterLevel, With, Stopped
<1>3. CASE u = [t EXCEPT !.stop = TRUE] /\ (Stopped(t) \/ t.w = Identity)
  <2>1. u.levels = t.levels
    BY <1>3 DEF Traced, IsFilter
  <2>2. Fuses(t.levels[1].orbits, {p})
    <3>1. CASE l - 1 = 0
      <4>1. p = Identity
        BY <1>3, <3>1 DEF Fused
      <4> QED
        BY <4>1, IdentityAt DEF Fuses
    <3>2. CASE l - 1 # 0
      BY <3>2 DEF Fused
    <3> QED
      BY <3>1, <3>2
  <2> QED
    BY <1>1, <2>1, <2>2 DEF Fused
<1>4. CASE /\ ~ Stopped(t)
           /\ u = ThroughVector(Joined(t, l, JoinOrbits(t.levels[l].orbits, t.w)), l)
  <2>1. PICK o : o = JoinOrbits(t.levels[l].orbits, t.w)
    OBVIOUS
  <2>2. PICK v : v = Joined(t, l, o)
    OBVIOUS
  <2>3. Traced(v, n) /\ Passed(v, l - 1)
    BY <1>4, <2>2, JoinedTraced
  <2>4. /\ SameBases(chain, v.levels, n) /\ LevelsNamed(v.levels, n, H)
        /\ Fuses(v.levels[1].orbits, K) /\ Fuses(v.levels[1].orbits, {p})
    BY <1>4, <2>1, <2>2, JoinedFuses
  <2>5. u = ThroughVector(v, l)
    BY <1>4, <2>1, <2>2
  <2>6. SameBases(v.levels, u.levels, n) /\ SameOrbits(v.levels, u.levels, n)
    BY <2>3, <2>5, ThroughOrbits
  <2>7. LevelsNamed(u.levels, n, H)
    BY <1>1, <2>4, <2>6, NamedSame
  <2>8. SameBases(chain, u.levels, n)
    BY <2>4, <2>6 DEF SameBases
  <2>9. u.levels[1].orbits = v.levels[1].orbits
    BY <1>1, <2>6 DEF SameOrbits
  <2> QED
    BY <1>1, <2>4, <2>7, <2>8, <2>9 DEF Fused
<1> QED
  BY <1>2, <1>3, <1>4

\* All levels.
LEMMA FilteredFuses ==
  ASSUME NEW nodes, IsRing(nodes), NEW chain, NEW n, IsChain(chain, n),
         Counted(nodes, Refs(chain, n)), PermsIn(nodes), ChainLeads(nodes, chain, n),
         NEW K, NEW H, Setting(K, H), PermsOf(nodes) \subseteq K,
         LevelsNamed(chain, n, H), Fuses(chain[1].orbits, K),
         NEW p \in H, NEW known \in BOOLEAN,
         NEW t, t = Filtered(nodes, chain, p, known)
  PROVE  /\ SameBases(chain, t.levels, n) /\ LevelsNamed(t.levels, n, H)
         /\ Fuses(t.levels[1].orbits, K) /\ Fuses(t.levels[1].orbits, {p})
<1>1. n \in Nat \ {0} /\ p \in Perms
  BY DEF IsChain, Setting, Subgroup
<1>2. PICK s : s = Started(nodes, chain, p, known)
  OBVIOUS
<1>3. PICK M : M = MarkedOf(nodes)
  OBVIOUS
<1>4. PICK f : FiltersTo(f, s, n) /\ t = f[n] /\ Comes(f, n)
  BY <1>1, <1>2, FilteredSteps
<1>5. \A l \in 0 .. n : f[l] = IF l = 0 THEN s ELSE FilterLevel(f[l - 1], l)
  BY <1>4 DEF FiltersTo
<1>6. Learns(s, K, H, M, p, known) /\ Fused(s, chain, n, K, H, p, 0)
  <2>1. /\ s.ring = nodes /\ s.levels = chain /\ s.w = p /\ s.curr = NULL
        /\ (InGroup(s) <=> known) /\ ~ Stopped(s)
    BY <1>2 DEF Started, InGroup, Stopped
  <2>2. Learns(s, K, H, M, p, known)
    BY <1>3, <2>1 DEF Learns, Covers, Setting
  <2>3. SameBases(chain, s.levels, n)
    BY <2>1 DEF SameBases
  <2> QED
    BY <2>1, <2>2, <2>3 DEF Fused
<1> DEFINE T == {l \in 0 .. n : ~ (Learns(f[l], K, H, M, p, known) /\ Fused(f[l], chain, n, K, H, p, l))}
<1>7. T = {}
  <2> SUFFICES ASSUME T # {} PROVE FALSE
    OBVIOUS
  <2>1. PICK l \in T : \A y \in T : l <= y
    <3>1. T \in SUBSET Nat
      BY <1>1
    <3> HIDE DEF T
    <3> QED
      BY <3>1, Least
  <2>2. CASE l = 0
    BY <1>5, <1>6, <2>1, <2>2
  <2>3. CASE l # 0
    <3>1. l \in 1 .. n /\ l - 1 \in 0 .. n /\ l - 1 \notin T
      BY <1>1, <2>1, <2>3
    <3>2. PICK a, b : a = f[l - 1] /\ b = f[l]
      OBVIOUS
    <3>3. /\ Learns(a, K, H, M, p, known) /\ Fused(a, chain, n, K, H, p, l - 1)
          /\ b = FilterLevel(a, l)
      BY <1>5, <2>1, <2>3, <3>1, <3>2
    <3>4. Traced(a, n) /\ (Stopped(a) \/ Passed(a, l - 1))
      BY <1>4, <3>1, <3>2 DEF Comes
    <3>5. Learns(b, K, H, M, p, known)
      <4> HIDE DEF T
      <4> QED
        BY <3>1, <3>3, <3>4, LevelLearns
    <3>6. a.w \in H
      BY <3>3 DEF Learns
    <3>7. Fused(b, chain, n, K, H, p, l)
      <4> HIDE DEF T
      <4> QED
        BY <3>1, <3>3, <3>4, <3>6, LevelFuses
    <3> QED
      BY <2>1, <3>2, <3>5, <3>7
  <2> QED
    BY <2>2, <2>3
<1>8. n \in 0 .. n /\ n # 0
  BY <1>1
<1>9. Fused(t, chain, n, K, H, p, n)
  BY <1>4, <1>7, <1>8
<1> QED
  BY <1>8, <1>9 DEF Fused

\* The chain knows the orbits of G: it names none that is not one, and without points held
\* fixed it misses none.
KnowsOrbits(chain, n, G) ==
    IsChain(chain, n) /\ LevelsNamed(chain, n, G) /\ Fuses(chain[1].orbits, G)

\* filterschreier keeps the levels that filtering left.
LEMMA OutcomeLevels ==
  ASSUME NEW nodes, NEW chain, NEW p, NEW known,
         NEW r, r = filterschreier(nodes, chain, p, known)
  PROVE  r.levels = Filtered(nodes, chain, p, known).levels
<1>1. PICK t : t = Filtered(nodes, chain, p, known)
  OBVIOUS
<1>2. r = Outcome(t, p)
  <2>1. r = Outcome(Filtered(nodes, chain, p, known), p)
    BY Zenon DEF filterschreier, With
  <2> QED
    BY <1>1, <2>1, Zenon
<1>3. \E more, changed : r = [ring |-> more, levels |-> t.levels, changed |-> changed]
  BY <1>2, Zenon DEF Outcome
<1> QED
  BY <1>1, <1>3

\* A map that permutations keep is kept by all that they generate.
LEMMA FusesClosure ==
  ASSUME NEW S \in SUBSET Perms, NEW o, Fuses(o, S)
  PROVE  Fuses(o, Closure({Identity}, S))
<1> DEFINE R == {s \in Perms : \A v \in Points : o[s[v]] = o[v]}
<1>1. Identity \in R
  BY IdentityAt
<1>2. ASSUME NEW x \in R, NEW y \in R PROVE Then(x, y) \in R
  <2>1. x \in Perms /\ y \in Perms
    OBVIOUS
  <2>2. Then(x, y) \in Perms /\ \A v \in Points : Then(x, y)[v] = y[x[v]] /\ x[v] \in Points
    BY <2>1, ThenAt DEF Perms
  <2> QED
    BY <2>2
<1>3. Subgroup(R)
  BY <1>1, <1>2 DEF Subgroup, RightClosed
<1>4. S \subseteq R
  BY DEF Fuses
<1>5. Closure({Identity}, S) \subseteq R
  <2> HIDE DEF R
  <2> QED
    BY <1>3, <1>4, ClosureIsLeast
<1> QED
  BY <1>5 DEF Fuses

\* A chain has one length.
LEMMA OneLength ==
  ASSUME NEW chain, NEW n, IsChain(chain, n), NEW m, IsChain(chain, m)
  PROVE  m = n
<1>1. n \in Nat \ {0} /\ m \in Nat \ {0} /\ Len(chain) = n /\ Len(chain) = m
  BY ChainRefs DEF IsChain
<1> QED
  BY <1>1

\* filterschreier: the orbits are those of what was known and what came in.
LEMMA FilterFuses ==
  ASSUME NEW nodes, NEW chain, IsGroup(nodes, chain), NEW n, NEW K, NEW H, Setting(K, H),
         PermsOf(nodes) \subseteq K, KnowsOrbits(chain, n, K), NEW p \in H,
         NEW known \in BOOLEAN, NEW r, r = filterschreier(nodes, chain, p, known)
  PROVE  /\ IsChain(r.levels, n) /\ SameBases(chain, r.levels, n)
         /\ LevelsNamed(r.levels, n, H) /\ Fuses(r.levels[1].orbits, K \cup {p})
<1>1. PICK m : /\ IsChain(chain, m) /\ Counted(nodes, Refs(chain, m))
               /\ ChainLeads(nodes, chain, m)
  BY DEF IsGroup
<1>2. IsChain(chain, n)
  BY DEF KnowsOrbits
<1>3. m = n
  BY <1>1, <1>2, OneLength
<1>4. IsRing(nodes) /\ PermsIn(nodes) /\ p \in Perms /\ K \subseteq H
  BY DEF IsGroup, Setting, Subgroup
<1>5. Counted(nodes, Refs(chain, n)) /\ ChainLeads(nodes, chain, n)
  BY <1>1, <1>3
<1>6. IsChain(r.levels, n)
  BY <1>2, <1>4, <1>5, FilterLeads
<1>7. LevelsNamed(chain, n, H) /\ Fuses(chain[1].orbits, K)
  BY <1>4, NamedIn DEF KnowsOrbits
<1>8. PICK t : t = Filtered(nodes, chain, p, known)
  OBVIOUS
<1>9. /\ SameBases(chain, t.levels, n) /\ LevelsNamed(t.levels, n, H)
      /\ Fuses(t.levels[1].orbits, K) /\ Fuses(t.levels[1].orbits, {p})
  BY <1>2, <1>4, <1>5, <1>7, <1>8, FilteredFuses
<1>10. r.levels = t.levels
  BY <1>8, OutcomeLevels
<1>11. Fuses(t.levels[1].orbits, K \cup {p})
  BY <1>9 DEF Fuses
<1> QED
  BY <1>6, <1>9, <1>10, <1>11

\* An element of the group tells the chain nothing that is not so.
LEMMA FilterOrbits ==
  ASSUME NEW nodes, NEW chain, IsGroup(nodes, chain), NEW n, NEW G, Knows(nodes, G),
         KnowsOrbits(chain, n, G), NEW p \in G, NEW known \in BOOLEAN,
         NEW r, r = filterschreier(nodes, chain, p, known)
  PROVE  KnowsOrbits(r.levels, n, G) /\ SameBases(chain, r.levels, n)
<1>1. Setting(G, G) /\ PermsOf(nodes) \subseteq G
  BY DEF Knows, Setting
<1>2. /\ IsChain(r.levels, n) /\ SameBases(chain, r.levels, n)
      /\ LevelsNamed(r.levels, n, G) /\ Fuses(r.levels[1].orbits, G \cup {p})
  BY <1>1, FilterFuses
<1> QED
  BY <1>2 DEF KnowsOrbits, Fuses

\* A permutation that is added joins the orbits that it joins.
LEMMA GiveOrbits ==
  ASSUME NEW nodes, NEW chain, IsGroup(nodes, chain), NEW n, NEW G, Knows(nodes, G),
         KnowsOrbits(chain, n, G), NEW p \in Perms, NEW known \in BOOLEAN,
         NEW r, r = filterschreier(nodes, chain, p, known)
  PROVE  KnowsOrbits(r.levels, n, Closure({Identity}, G \cup {p})) /\ SameBases(chain, r.levels, n)
<1>1. PICK S, H : S = G \cup {p} /\ H = Closure({Identity}, S)
  OBVIOUS
<1>2. Subgroup(G) /\ PermsOf(nodes) \subseteq G /\ S \in SUBSET Perms
  BY <1>1 DEF Knows, Subgroup
<1>3. Subgroup(H) /\ S \subseteq H
  BY <1>1, <1>2, ClosureIsGroup
<1>4. Setting(G, H) /\ p \in H
  BY <1>1, <1>2, <1>3 DEF Setting
<1>5. /\ IsChain(r.levels, n) /\ SameBases(chain, r.levels, n)
      /\ LevelsNamed(r.levels, n, H) /\ Fuses(r.levels[1].orbits, S)
  BY <1>1, <1>2, <1>4, FilterFuses
<1>6. Fuses(r.levels[1].orbits, H)
  BY <1>1, <1>2, <1>5, FusesClosure
<1> QED
  BY <1>1, <1>5, <1>6 DEF KnowsOrbits

-----------------------------------------------------------------------------
(* The orbits for another base *)

\* The points of fix are those of the first levels, and one level comes after them.
OnBase(chain, n, fix) ==
    /\ fix \in Seq(Points) /\ Len(fix) < n
    /\ \A i \in 1 .. Len(fix) : chain[i].fixed = fix[i]

\* What Rebase does to the base points and orbits.
Rebased(chain, made, m, k, fix) ==
    /\ \A l \in 1 .. k : made[l].fixed = chain[l].fixed
    /\ \A l \in k + 1 .. Len(fix) : made[l].fixed = fix[l]
    /\ made[Len(fix) + 1].fixed = -1
    /\ \A l \in 1 .. k + 1 : made[l].orbits = chain[l].orbits
    /\ \A l \in k + 2 .. Len(fix) + 1 : made[l].orbits = Identity

\* The levels up to the first new base point keep their orbits; those after it know none.
LEMMA RebaseOrbits ==
  ASSUME NEW nodes, NEW chain, NEW n, IsChain(chain, n), NEW fix \in Seq(Points),
         NEW k \in 0 .. Len(fix) - 1, k < n,
         NEW r, r = Rebase([ring |-> nodes, levels |-> chain], k, fix),
         NEW m, IsChain(r.levels, m)
  PROVE  Rebased(chain, r.levels, m, k, fix) /\ Len(fix) < m
<1>1. n \in Nat /\ Len(fix) \in Nat /\ Len(chain) = n /\ k \in Nat
  BY ChainRefs DEF IsChain
<1>2. PICK b : b = Max({n, Len(fix) + 1})
  OBVIOUS
<1>3. b \in Nat \ {0} /\ n <= b /\ Len(fix) + 1 <= b
  BY <1>1, <1>2, MaxOfTwo
<1> DEFINE made == [l \in 1 .. b |-> IF l <= k THEN chain[l] ELSE Made(chain, k, fix, l)]
<1>4. r.levels = made
  BY <1>1, <1>2 DEF Rebase, Made
<1>5. DOMAIN made = 1 .. b /\ made = [l \in 1 .. b |-> made[l]]
  BY <1>1, <1>3
<1>6. \A l \in 1 .. b : made[l] = IF l <= k THEN chain[l] ELSE Made(chain, k, fix, l)
  OBVIOUS
<1> HIDE DEF made
<1>7. m = b
  <2>1. m \in Nat \ {0} /\ DOMAIN made = 1 .. m
    BY <1>4, ChainRefs DEF IsChain
  <2> QED
    BY <1>3, <1>5, <2>1
<1>8. \A l \in 1 .. k + 1 : l \in 1 .. b
  BY <1>1, <1>3
<1>9. \A l \in 1 .. k : made[l] = chain[l]
  BY <1>1, <1>6, <1>8
<1>10. ASSUME NEW x \in -1 .. N - 1, NEW o
       PROVE  /\ initschreier(x).fixed = x /\ initschreier(x).orbits = Identity
              /\ [initschreier(x) EXCEPT !.orbits = o].fixed = x
              /\ [initschreier(x) EXCEPT !.orbits = o].orbits = o
  BY DEF initschreier
<1>11. \A i \in 1 .. Len(fix) : fix[i] \in -1 .. N - 1
  BY NPositive
<1>12. made[k + 1].fixed = fix[k + 1] /\ made[k + 1].orbits = chain[k + 1].orbits
  <2>1. PICK l, x, o : l = k + 1 /\ x = fix[l] /\ o = chain[l].orbits
    OBVIOUS
  <2>2. l \in 1 .. b /\ ~ l <= k /\ l \in 1 .. Len(fix)
    BY <1>1, <1>3, <2>1
  <2>3. made[l] = [initschreier(x) EXCEPT !.orbits = o]
    BY <1>6, <2>1, <2>2 DEF Made
  <2> QED
    BY <1>10, <1>11, <2>1, <2>2, <2>3
<1>13. ASSUME NEW l \in k + 2 .. Len(fix) + 1
       PROVE  /\ made[l].orbits = Identity
              /\ made[l].fixed = IF l <= Len(fix) THEN fix[l] ELSE -1
  <2>1. PICK x : x = IF l <= Len(fix) THEN fix[l] ELSE -1
    OBVIOUS
  <2>2. l \in 1 .. b /\ ~ l <= k /\ l # k + 1 /\ l <= Len(fix) + 1
    BY <1>1, <1>3
  <2>3. made[l] = initschreier(x)
    BY <1>6, <2>1, <2>2 DEF Made
  <2>4. x \in -1 .. N - 1
    <3>1. CASE l <= Len(fix)
      <4>1. l \in 1 .. Len(fix)
        BY <1>1, <2>2, <3>1
      <4> QED
        BY <1>11, <2>1, <3>1, <4>1
    <3>2. CASE ~ l <= Len(fix)
      BY <2>1, <3>2, NPositive
    <3> QED
      BY <3>1, <3>2
  <2> QED
    BY <1>10, <2>1, <2>3, <2>4
<1>14. \A l \in k + 1 .. Len(fix) : made[l].fixed = fix[l]
  <2> TAKE l \in k + 1 .. Len(fix)
  <2>1. l = k + 1 \/ (l \in k + 2 .. Len(fix) + 1 /\ l <= Len(fix))
    BY <1>1
  <2> QED
    BY <1>12, <1>13, <2>1
<1>15. made[Len(fix) + 1].fixed = -1
  <2>1. Len(fix) + 1 \in k + 2 .. Len(fix) + 1 /\ ~ Len(fix) + 1 <= Len(fix)
    BY <1>1
  <2> QED
    BY <1>13, <2>1
<1>16. \A l \in 1 .. k + 1 : made[l].orbits = chain[l].orbits
  <2> TAKE l \in 1 .. k + 1
  <2>1. l = k + 1 \/ l \in 1 .. k
    BY <1>1
  <2> QED
    BY <1>9, <1>12, <2>1
<1>17. Len(fix) < m
  BY <1>1, <1>3, <1>7
<1> QED
  BY <1>4, <1>9, <1>13, <1>14, <1>15, <1>16, <1>17 DEF Rebased

\* No orbits are known: every point is the name of its own.
LEMMA IdentityNamed ==
  ASSUME NEW G, Subgroup(G)
  PROVE  Named(Identity, G)
<1>1. Identity \in [Points -> Points] /\ \A v \in Points : Identity[v] = v /\ v <= v
  BY IdentityAt, NPositive DEF Perms
<1>2. \A v \in Points : SameOrbit(G, v, v)
  BY OrbitLaws
<1> QED
  BY <1>1, <1>2 DEF Named

\* Another base.
LEMMA RebaseKnows ==
  ASSUME NEW chain, NEW n, NEW G, Subgroup(G), KnowsOrbits(chain, n, G),
         NEW fix \in Seq(Points), NEW k \in 0 .. Len(fix) - 1, k < n,
         \A i \in 1 .. k : chain[i].fixed = fix[i],
         NEW made, NEW m, IsChain(made, m), Rebased(chain, made, m, k, fix), Len(fix) < m
  PROVE  KnowsOrbits(made, m, G) /\ OnBase(made, m, fix)
<1>1. n \in Nat \ {0} /\ m \in Nat \ {0} /\ Len(fix) \in Nat /\ k \in Nat
  BY DEF KnowsOrbits, IsChain
<1>2. OnBase(made, m, fix)
  <2>1. ASSUME NEW i \in 1 .. Len(fix) PROVE made[i].fixed = fix[i]
    <3>1. i \in 1 .. k \/ i \in k + 1 .. Len(fix)
      BY <1>1
    <3> QED
      BY <3>1 DEF Rebased
  <2> QED
    BY <2>1 DEF OnBase
<1>3. ASSUME NEW l \in 1 .. m, InUse(made, l - 1)
      PROVE  Named(made[l].orbits, Fixers(G, Before(made, l)))
  <2>1. l <= Len(fix) + 1
    <3> SUFFICES ASSUME ~ l <= Len(fix) + 1 PROVE FALSE
      OBVIOUS
    <3>1. Len(fix) + 1 \in 1 .. l - 1
      BY <1>1
    <3> QED
      BY <1>3, <3>1 DEF InUse, Rebased
  <2>2. CASE l <= k + 1
    <3>1. l \in 1 .. k + 1 /\ l \in 1 .. n /\ \A i \in 1 .. l - 1 : i \in 1 .. k
      BY <1>1, <2>2
    <3>2. \A i \in 1 .. l - 1 : made[i].fixed = chain[i].fixed
      BY <3>1 DEF Rebased
    <3>3. InUse(chain, l - 1) /\ Before(made, l) = Before(chain, l)
      BY <1>3, <3>2 DEF InUse, Before
    <3>4. Named(chain[l].orbits, Fixers(G, Before(chain, l)))
      BY <3>1, <3>3 DEF KnowsOrbits, LevelsNamed
    <3>5. made[l].orbits = chain[l].orbits
      BY <3>1 DEF Rebased
    <3> QED
      BY <3>3, <3>4, <3>5
  <2>3. CASE ~ l <= k + 1
    <3>1. l \in k + 2 .. Len(fix) + 1
      BY <1>1, <2>1, <2>3
    <3>2. made[l].orbits = Identity
      BY <3>1 DEF Rebased
    <3>3. PICK B : B = Before(made, l)
      OBVIOUS
    <3>4. B \subseteq Points
      BY <1>3, <3>3, BeforeIn
    <3>5. Subgroup(Fixers(G, B))
      BY <3>4, FixersGroup
    <3> QED
      BY <3>2, <3>3, <3>5, IdentityNamed
  <2> QED
    BY <2>2, <2>3
<1>4. made[1].orbits = chain[1].orbits
  <2>1. 1 \in 1 .. k + 1
    BY <1>1
  <2> QED
    BY <2>1 DEF Rebased
<1> QED
  BY <1>2, <1>3, <1>4 DEF KnowsOrbits, LevelsNamed

-----------------------------------------------------------------------------
(* The answers *)

Stabilizes(s, fix) == \A i \in DOMAIN fix : s[fix[i]] = fix[i]

\* The points held fixed by the levels before one are the first of the base.
LEMMA StabilizerIs ==
  ASSUME NEW G, NEW chain, NEW n, NEW fix, OnBase(chain, n, fix), NEW level \in 0 .. Len(fix)
  PROVE  Knowledge!Stabilizer(G, SubSeq(fix, 1, level)) = Fixers(G, Before(chain, level + 1))
<1>1. fix \in Seq(Points) /\ level \in Nat /\ Len(fix) \in Nat
  BY DEF OnBase
<1>2. PICK part : part = SubSeq(fix, 1, level)
  OBVIOUS
<1>3. Len(part) = level /\ DOMAIN part = 1 .. level /\ \A i \in 1 .. level : part[i] = fix[i]
  BY <1>1, <1>2
<1>4. \A i \in 1 .. level : i \in 1 .. Len(fix) /\ chain[i].fixed = part[i]
  BY <1>1, <1>3 DEF OnBase
<1>5. Before(chain, level + 1) = {part[i] : i \in 1 .. level}
  <2>1. level + 1 - 1 = level
    BY <1>1
  <2> QED
    BY <1>4, <2>1 DEF Before
<1>6. \A s : FixesAll(s, Before(chain, level + 1)) <=> Stabilizes(s, part)
  BY <1>3, <1>5 DEF FixesAll, Stabilizes
<1>7. Knowledge!Stabilizer(G, part) = {s \in G : Stabilizes(s, part)}
  BY Zenon DEF Knowledge!Stabilizer, Stabilizes
<1> QED
  BY <1>2, <1>6, <1>7 DEF Fixers

\* Names of orbits are an answer.
LEMMA NamedWithin ==
  ASSUME NEW G, NEW o, Named(o, G)
  PROVE  Knowledge!Within(o, G)
<1>1. \A v \in Points : o[v] \in Knowledge!OrbitUnder(G, v) /\ o[v] <= v /\ o[o[v]] = o[v]
  BY DEF Named, SameOrbit, Knowledge!OrbitUnder
<1> QED
  BY <1>1, KnowledgeTerms DEF Knowledge!Within

\* Names that the group keeps are the least points of its orbits.
LEMMA FusedExactly ==
  ASSUME NEW G, Subgroup(G), NEW o, Named(o, G), Fuses(o, G)
  PROVE  Knowledge!Exactly(o, G)
<1> SUFFICES ASSUME NEW v \in Points PROVE o[v] = Knowledge!Min(Knowledge!OrbitUnder(G, v))
  BY KnowledgeTerms DEF Knowledge!Exactly
<1>1. PICK S : S = Knowledge!OrbitUnder(G, v)
  OBVIOUS
<1>2. S = {s[v] : s \in G}
  BY <1>1 DEF Knowledge!OrbitUnder
<1>3. o[v] \in S
  BY <1>2 DEF Named, SameOrbit
<1>4. S \subseteq Nat
  <2>1. \A s \in G : s[v] \in Points
    BY DEF Subgroup, Perms
  <2> QED
    BY <1>2, <2>1, NPositive
<1>5. ASSUME NEW x \in S PROVE o[v] <= x
  <2>1. PICK s \in G : x = s[v]
    BY <1>2
  <2>2. x \in Points /\ o[x] = o[v]
    BY <2>1 DEF Fuses, Subgroup, Perms
  <2> QED
    BY <2>2 DEF Named
<1> DEFINE P(x) == x \in S /\ \A y \in S : x <= y
<1>6. P(o[v])
  BY <1>3, <1>5
<1>7. Knowledge!Min(S) = CHOOSE x \in S : \A y \in S : x <= y
  BY Zenon DEF Knowledge!Min
<1>8. P(Knowledge!Min(S))
  BY <1>6, <1>7
<1>9. o[v] <= Knowledge!Min(S) /\ Knowledge!Min(S) <= o[v] /\ o[v] \in Nat /\ Knowledge!Min(S) \in Nat
  BY <1>3, <1>4, <1>6, <1>8
<1> QED
  BY <1>1, <1>9

\* What the chain tells of a base is an answer.
LEMMA AnswerSound ==
  ASSUME Subgroup(group), NEW chain, NEW n, KnowsOrbits(chain, n, group),
         NEW fix, OnBase(chain, n, fix), NEW level \in 0 .. Len(fix),
         level < Len(fix) => chain[level + 1].orbits[fix[level + 1]] # fix[level + 1],
         Answers(fix, level, chain), group' = group
  PROVE  Knowledge!Answer
<1>1. fix \in Seq(Points) /\ level \in Nat /\ Len(fix) \in Nat /\ n \in Nat \ {0}
  BY DEF OnBase, KnowsOrbits, IsChain
<1>2. PICK o : o = chain[level + 1].orbits
  OBVIOUS
<1>3. PICK a : a = [fix |-> fix, level |-> level, orbits |-> o]
  OBVIOUS
<1>4. answer' = <<a>>
  BY <1>2, <1>3 DEF Answers
<1>5. a.fix = fix /\ a.level = level /\ a.orbits = o
  BY <1>3
<1>6. PICK G : G = Knowledge!Stabilizer(group, SubSeq(fix, 1, level))
  OBVIOUS
<1>7. G = Fixers(group, Before(chain, level + 1))
  BY <1>6, StabilizerIs
<1>8. level + 1 \in 1 .. n /\ InUse(chain, level + 1 - 1)
  <2>1. level + 1 \in 1 .. n /\ level + 1 - 1 = level
    BY <1>1 DEF OnBase
  <2>2. \A i \in 1 .. level : i \in 1 .. Len(fix)
    BY <1>1
  <2>3. \A i \in 1 .. level : chain[i].fixed = fix[i] /\ fix[i] \in Points
    BY <1>1, <2>2 DEF OnBase
  <2> QED
    BY <2>1, <2>3, NPositive DEF InUse
<1>9. Named(o, G)
  BY <1>2, <1>7, <1>8 DEF KnowsOrbits, LevelsNamed
<1>10. Knowledge!Within(o, G)
  BY <1>9, NamedWithin
<1>11. ASSUME level = 0 PROVE Knowledge!Exactly(o, G)
  <2>1. Before(chain, level + 1) = {}
    BY <1>11 DEF Before
  <2>2. G = group
    BY <1>7, <2>1 DEF Fixers, FixesAll
  <2>3. Fuses(o, G)
    BY <1>2, <1>11, <2>2 DEF KnowsOrbits
  <2> QED
    BY <1>9, <2>2, <2>3, FusedExactly
<1>12. Knowledge!Sound(a)
  BY <1>2, <1>5, <1>6, <1>10, <1>11 DEF Knowledge!Sound
<1> QED
  BY <1>4, <1>12 DEF Knowledge!Answer

\* A base point that is not the least of its orbit, or all of the base: what getorbitsmin
\* answers early.
LEMMA EarlyIs ==
  ASSUME NEW fix \in Seq(Points), NEW cell, NEW chain,
         NEW early, early = EarlyAnswer(fix, cell, chain), early >= 0
  PROVE  /\ early \in 0 .. Len(fix)
         /\ early < Len(fix) => chain[early + 1].orbits[fix[early + 1]] # fix[early + 1]
<1>1. Len(fix) \in Nat
  OBVIOUS
<1>2. PICK S : S = NotMinimal(fix, chain)
  OBVIOUS
<1>3. S = {k \in 0 .. Len(fix) - 1 : chain[k + 1].orbits[fix[k + 1]] # fix[k + 1]}
  BY <1>2 DEF NotMinimal
<1>4. CASE S # {}
  <2>1. early = Min(S)
    BY <1>2, <1>4 DEF EarlyAnswer
  <2>2. S \in SUBSET Nat
    BY <1>1, <1>3
  <2>3. early \in S
    BY <1>4, <2>1, <2>2, MinIn
  <2> QED
    BY <1>1, <1>3, <2>3
<1>5. CASE S = {}
  <2>1. early = Len(fix) \/ early = -1
    BY <1>2, <1>5 DEF EarlyAnswer
  <2>2. early = Len(fix)
    BY <2>1
  <2> QED
    BY <1>1, <2>2
<1> QED
  BY <1>4, <1>5

\* A walk is for a base that the chain has.
Waits(c, chain, n) == c # Idle => OnBase(chain, n, c.fix)

OrbitsInvariant == \E n : KnowsOrbits(levels, n, group) /\ Waits(call, levels, n)

\* The start of a walk, or its answer when there is nothing to walk on.
LEMMA ExpandAnswers ==
  ASSUME Subgroup(group), NEW n, KnowsOrbits(levels', n, group), group' = group,
         NEW fix, OnBase(levels', n, fix), NEW op, NEW cell, Expand(op, fix, cell)
  PROVE  /\ Waits(call', levels', n)
         /\ Knowledge!Ask \/ Knowledge!Answer
<1>1. CASE ring' = <<>>
  <2>1. call' = Idle /\ Answers(fix, Len(fix), levels')
    BY <1>1 DEF Expand
  <2>2. Len(fix) \in 0 .. Len(fix) /\ ~ Len(fix) < Len(fix)
    BY DEF OnBase
  <2>3. PICK chain, level : chain = levels' /\ level = Len(fix)
    OBVIOUS
  <2>4. Knowledge!Answer
    BY <2>1, <2>2, <2>3, AnswerSound
  <2> QED
    BY <2>1, <2>4 DEF Waits
<1>2. CASE ring' # <<>>
  <2>1. \E w : call' = [op |-> op, fix |-> fix, cell |-> cell, w |-> w, nfails |-> 0]
    BY <1>2 DEF Expand
  <2>2. call'.fix = fix
    BY <2>1
  <2>3. answer' = <<>>
    BY <1>2 DEF Expand
  <2> QED
    BY <2>2, <2>3 DEF Waits, Knowledge!Ask
<1> QED
  BY <1>1, <1>2

\* A new chain knows the orbits of the group of the identity alone.
LEMMA NewOrbits ==
  ASSUME NEW chain, chain = newgroup
  PROVE  KnowsOrbits(chain, 1, {Identity})
<1>1. PICK v : v = initschreier(-1)
  OBVIOUS
<1>2. v.fixed = -1 /\ v.orbits = Identity
  BY <1>1 DEF initschreier
<1>3. chain = <<v>> /\ chain = [l \in 1 .. 1 |-> chain[l]] /\ chain[1] = v
  BY <1>1 DEF newgroup
<1>4. IsLevel(v)
  BY <1>1, NPositive DEF initschreier, IsLevel, NULL, ID_PERMNODE
<1>5. IsChain(chain, 1)
  BY <1>2, <1>3, <1>4 DEF IsChain
<1>6. Identity \in Perms /\ Identity \in Maps
  BY IdentityAt, PermsAreMaps
<1>7. Subgroup({Identity})
  BY <1>6, ThenLaws DEF Subgroup, RightClosed
<1>8. Before(chain, 1) = {}
  BY DEF Before
<1>9. Fixers({Identity}, Before(chain, 1)) = {Identity}
  BY <1>8 DEF Fixers, FixesAll
<1>10. Named(Identity, {Identity})
  BY <1>7, IdentityNamed
<1>11. LevelsNamed(chain, 1, {Identity})
  BY <1>2, <1>3, <1>9, <1>10 DEF LevelsNamed
<1>12. Fuses(chain[1].orbits, {Identity})
  BY <1>2, <1>3, IdentityAt DEF Fuses
<1> QED
  BY <1>5, <1>11, <1>12 DEF KnowsOrbits

\* The points of a base stay with the chain.
LEMMA OnBaseSame ==
  ASSUME NEW chain, NEW other, NEW n, SameBases(chain, other, n), NEW fix, OnBase(chain, n, fix),
         n \in Nat
  PROVE  OnBase(other, n, fix)
<1>1. \A i \in 1 .. Len(fix) : i \in 1 .. n
  BY DEF OnBase
<1> QED
  BY <1>1 DEF OnBase, SameBases

-----------------------------------------------------------------------------
(* The steps of GroupKnowledge *)

KnowledgeStep ==
    Knowledge!Ask \/ Knowledge!Answer \/ Knowledge!Give \/ Knowledge!Forget
    \/ UNCHANGED <<group, answer>>

\* A step keeps the invariant, and is one that the abstract specification allows.
Follows == OrbitsInvariant' /\ KnowledgeStep

\* addgenerator gives a permutation.
LEMMA GiveFollows ==
  ASSUME RingInvariant, GroupInvariant, OrbitsInvariant, addgenerator
  PROVE  Follows
<1>1. PICK n : KnowsOrbits(levels, n, group) /\ Waits(call, levels, n)
  BY DEF OrbitsInvariant
<1>2. IsGroup(ring, levels) /\ Knows(ring, group) /\ Subgroup(group) /\ pool \in Pools
  BY DEF RingInvariant, GroupInvariant, Knows
<1>3. PICK p \in pool :
         /\ \E t \in {filterschreier(ring, levels, p, FALSE)} :
                ring' = t.ring /\ levels' = t.levels
         /\ group' = Knowledge!Generated(group \cup {p})
  BY Zenon DEF addgenerator
<1>4. PICK known \in BOOLEAN : known = FALSE
  OBVIOUS
<1>5. PICK t : t = filterschreier(ring, levels, p, known) /\ levels' = t.levels
  BY <1>3, <1>4
<1>6. p \in Perms
  BY <1>2, <1>3, PoolPerms
<1>7. PICK S : S = group \cup {p}
  OBVIOUS
<1>8. S \in SUBSET Maps /\ S \in SUBSET Perms
  BY <1>2, <1>6, <1>7, PermsAreMaps DEF Subgroup
<1>9. group' = Closure({Identity}, S)
  BY <1>3, <1>7, <1>8, GeneratedIs
<1>10. KnowsOrbits(t.levels, n, Closure({Identity}, group \cup {p}))
  BY <1>1, <1>2, <1>5, <1>6, GiveOrbits
<1>11. p \in group'
  BY <1>7, <1>8, <1>9, ClosureIsGroup
<1>12. answer' = <<>> /\ call' = Idle
  BY DEF addgenerator, Begins
<1>13. Knowledge!Give
  BY <1>3, <1>11, <1>12 DEF Knowledge!Give
<1>14. KnowsOrbits(levels', n, group') /\ Waits(call', levels', n)
  BY <1>5, <1>7, <1>9, <1>10, <1>12 DEF Waits
<1> QED
  BY <1>13, <1>14 DEF Follows, OrbitsInvariant, KnowledgeStep

\* getorbits for a base that is known, and findcurrorbits, answer from the chain.
LEMMA ReadFollows ==
  ASSUME GroupInvariant, OrbitsInvariant, GetKnownOrbits \/ FindCurrOrbits
  PROVE  Follows
<1>1. PICK n : KnowsOrbits(levels, n, group) /\ Waits(call, levels, n)
  BY DEF OrbitsInvariant
<1>2. Subgroup(group) /\ IsChain(levels, n) /\ n \in Nat \ {0}
  BY <1>1 DEF GroupInvariant, Knows, KnowsOrbits, IsChain
<1>3. levels' = levels /\ call' = call /\ group' = group
  BY DEF GetKnownOrbits, FindCurrOrbits
<1>4. PICK fix, level : /\ OnBase(levels, n, fix) /\ level = Len(fix)
                        /\ Answers(fix, level, levels)
  <2>1. CASE GetKnownOrbits
    <3>1. PICK fix \in Bases : Agreement(fix) = Len(fix) /\ Answers(fix, Len(fix), levels)
      BY <2>1 DEF GetKnownOrbits
    <3>2. OnBase(levels, n, fix)
      BY <1>2, <3>1, AgreementIs DEF OnBase
    <3> QED
      BY <3>1, <3>2
  <2>2. CASE FindCurrOrbits
    <3>1. PICK l \in DOMAIN levels :
             /\ \A i \in 1 .. l - 1 : levels[i].fixed >= 0
             /\ Answers([i \in 1 .. l - 1 |-> levels[i].fixed], l - 1, levels)
      BY <2>2 DEF FindCurrOrbits
    <3>2. l \in 1 .. n
      BY <1>2, <3>1, ChainRefs
    <3>3. PICK fix, b : fix = [i \in 1 .. l - 1 |-> levels[i].fixed] /\ b = l - 1
      OBVIOUS
    <3>4. \A i \in 1 .. b : levels[i].fixed \in Points
      <4>1. \A i \in 1 .. b : i \in 1 .. n
        BY <1>2, <3>2, <3>3
      <4>2. \A i \in 1 .. n : levels[i].fixed \in -1 .. N - 1
        BY <1>2 DEF IsChain, IsLevel
      <4> QED
        BY <3>1, <3>3, <4>1, <4>2, NPositive
    <3>5. b \in Nat /\ b < n
      BY <1>2, <3>2, <3>3
    <3>6. fix = [i \in 1 .. b |-> levels[i].fixed]
      BY <3>3
    <3>7. fix \in Seq(Points) /\ Len(fix) = b /\ \A i \in 1 .. b : levels[i].fixed = fix[i]
      BY <3>4, <3>5, <3>6
    <3> QED
      BY <3>1, <3>3, <3>5, <3>7 DEF OnBase
  <2> QED
    BY <2>1, <2>2
<1>5. level \in 0 .. Len(fix) /\ ~ level < Len(fix)
  BY <1>4 DEF OnBase
<1>6. PICK chain : chain = levels
  OBVIOUS
<1>7. Knowledge!Answer
  BY <1>1, <1>2, <1>3, <1>4, <1>5, <1>6, AnswerSound
<1> QED
  BY <1>1, <1>3, <1>7 DEF Follows, OrbitsInvariant, KnowledgeStep

\* getorbits and getorbitsmin for another base: the levels made anew.
LEMMA RebaseFollows ==
  ASSUME RingInvariant, GroupInvariant, NEW n, KnowsOrbits(levels, n, group),
         NEW fix \in Seq(Points), NEW k \in 0 .. Len(fix) - 1, k < n,
         \A i \in 1 .. k : levels[i].fixed = fix[i],
         NEW s, s = Rebase([ring |-> ring, levels |-> levels], k, fix)
  PROVE  \E m : KnowsOrbits(s.levels, m, group) /\ OnBase(s.levels, m, fix)
<1>1. IsGroup(ring, levels) /\ Subgroup(group) /\ IsChain(levels, n)
  BY DEF RingInvariant, GroupInvariant, Knows, KnowsOrbits
<1>2. \A x : IsChain(levels, x) => k < x
  BY <1>1, OneLength
<1>3. IsGroup(s.ring, s.levels)
  BY <1>1, <1>2, RebaseGroup
<1>4. PICK m : IsChain(s.levels, m)
  BY <1>3 DEF IsGroup
<1>5. Rebased(levels, s.levels, m, k, fix) /\ Len(fix) < m
  BY <1>1, <1>4, RebaseOrbits
<1>6. PICK made : made = s.levels
  OBVIOUS
<1>7. KnowsOrbits(made, m, group) /\ OnBase(made, m, fix)
  BY <1>1, <1>4, <1>5, <1>6, RebaseKnows
<1> QED
  BY <1>6, <1>7

\* getorbits.
LEMMA AskFollows ==
  ASSUME RingInvariant, GroupInvariant, OrbitsInvariant, GetOrbits
  PROVE  Follows
<1>1. PICK n : KnowsOrbits(levels, n, group)
  BY DEF OrbitsInvariant
<1>2. Subgroup(group) /\ IsChain(levels, n)
  BY <1>1 DEF GroupInvariant, Knows, KnowsOrbits
<1>3. PICK fix \in Bases :
         /\ Agreement(fix) < Len(fix)
         /\ \E s \in {Rebase([ring |-> ring, levels |-> levels], Agreement(fix), fix)} :
                ring' = s.ring /\ levels' = s.levels
         /\ Expand("getorbits", fix, {})
  BY Zenon DEF GetOrbits
<1>4. PICK k : k = Agreement(fix)
  OBVIOUS
<1>5. PICK s : s = Rebase([ring |-> ring, levels |-> levels], k, fix) /\ levels' = s.levels
  BY <1>3, <1>4
<1>6. /\ fix \in Seq(Points) /\ k \in 0 .. Len(fix) - 1 /\ k < n
      /\ \A i \in 1 .. k : levels[i].fixed = fix[i]
  BY <1>2, <1>3, <1>4, AgreementIs
<1>7. PICK m : KnowsOrbits(s.levels, m, group) /\ OnBase(s.levels, m, fix)
  BY <1>1, <1>5, <1>6, RebaseFollows
<1>8. group' = group
  BY DEF GetOrbits
<1>9. Waits(call', levels', m) /\ (Knowledge!Ask \/ Knowledge!Answer)
  BY <1>2, <1>3, <1>5, <1>7, <1>8, ExpandAnswers
<1> QED
  BY <1>5, <1>7, <1>8, <1>9 DEF Follows, OrbitsInvariant, KnowledgeStep

\* getorbitsmin.
LEMMA AskMinFollows ==
  ASSUME RingInvariant, GroupInvariant, OrbitsInvariant, GetOrbitsMin
  PROVE  Follows
<1>1. PICK n : KnowsOrbits(levels, n, group)
  BY DEF OrbitsInvariant
<1>2. Subgroup(group) /\ IsChain(levels, n) /\ 0 < n
  BY <1>1 DEF GroupInvariant, Knows, KnowsOrbits, IsChain
<1>3. PICK fix \in Bases \ {<<>>}, cell \in Cells :
         /\ \E s \in {Rebase([ring |-> ring, levels |-> levels], 0, fix)} :
                ring' = s.ring /\ levels' = s.levels
         /\ \/ call' = Idle /\ Answers(fix, Len(fix), levels')
            \/ Expand("getorbitsmin", fix, cell)
  BY Zenon DEF GetOrbitsMin
<1>4. fix \in Seq(Points) /\ fix # <<>>
  BY <1>3, ConstantsAssumption
<1>5. 0 \in 0 .. Len(fix) - 1 /\ Len(fix) \in 0 .. Len(fix) /\ ~ Len(fix) < Len(fix)
  BY <1>4
<1>6. PICK k : k = 0
  OBVIOUS
<1>7. PICK s : s = Rebase([ring |-> ring, levels |-> levels], k, fix) /\ levels' = s.levels
  BY <1>3, <1>6
<1>8. k \in 0 .. Len(fix) - 1 /\ k < n /\ \A i \in 1 .. k : levels[i].fixed = fix[i]
  BY <1>2, <1>5, <1>6
<1>9. PICK m : KnowsOrbits(s.levels, m, group) /\ OnBase(s.levels, m, fix)
  BY <1>1, <1>4, <1>7, <1>8, RebaseFollows
<1>10. group' = group
  BY DEF GetOrbitsMin
<1>11. Waits(call', levels', m) /\ (Knowledge!Ask \/ Knowledge!Answer)
  <2>1. CASE call' = Idle /\ Answers(fix, Len(fix), levels')
    <3>1. PICK chain, level : chain = levels' /\ level = Len(fix)
      OBVIOUS
    <3>2. Knowledge!Answer
      BY <1>2, <1>5, <1>7, <1>9, <1>10, <2>1, <3>1, AnswerSound
    <3> QED
      BY <2>1, <3>2 DEF Waits
  <2>2. CASE Expand("getorbitsmin", fix, cell)
    BY <1>2, <1>7, <1>9, <1>10, <2>2, ExpandAnswers
  <2> QED
    BY <1>3, <2>1, <2>2
<1> QED
  BY <1>7, <1>9, <1>10, <1>11 DEF Follows, OrbitsInvariant, KnowledgeStep

\* A step of a walk: it ends with an answer, or goes on.
LEMMA WalkFollows ==
  ASSUME RingInvariant, GroupInvariant, OrbitsInvariant, Filter
  PROVE  Follows
<1>1. PICK n : KnowsOrbits(levels, n, group) /\ Waits(call, levels, n)
  BY DEF OrbitsInvariant
<1>2. /\ IsGroup(ring, levels) /\ IsWalk(call) /\ Knows(ring, group) /\ WalkIn(call, group)
      /\ Subgroup(group) /\ PermsOf(ring) \subseteq group /\ n \in Nat
  BY <1>1 DEF RingInvariant, GroupInvariant, Knows, KnowsOrbits, IsChain
<1>3. PICK fix : fix = call.fix
  OBVIOUS
<1>4. PICK w \in Walks(call.w) :
         \E t \in {filterschreier(ring, levels, w, TRUE)} :
             /\ ring' = t.ring /\ levels' = t.levels
             /\ \/ \E early : /\ \/ early = EarlyAnswer(fix, call.cell, t.levels)
                                 \/ early = -1
                              /\ early >= 0 /\ call' = Idle /\ Answers(fix, early, t.levels)
                \/ call' = Idle /\ Answers(fix, Len(fix), t.levels)
                \/ \E nfails : call' = [call EXCEPT !.w = w, !.nfails = nfails] /\ answer' = answer
  BY <1>3, Zenon DEF Filter
<1>5. PICK known \in BOOLEAN : known = TRUE
  OBVIOUS
<1>6. PICK t, chain :
         /\ t = filterschreier(ring, levels, w, known) /\ chain = t.levels /\ levels' = chain
         /\ \/ \E early : /\ \/ early = EarlyAnswer(fix, call.cell, chain)
                             \/ early = -1
                          /\ early >= 0 /\ call' = Idle /\ Answers(fix, early, chain)
            \/ call' = Idle /\ Answers(fix, Len(fix), chain)
            \/ \E nfails : call' = [call EXCEPT !.w = w, !.nfails = nfails] /\ answer' = answer
  BY <1>4, <1>5
<1>7. call # Idle /\ group' = group
  BY DEF Filter
<1>8. w \in group
  <2>1. call.w \in group
    BY <1>2, <1>7 DEF WalkIn
  <2> QED
    BY <1>2, <1>4, <2>1, WalksIn
<1>9. KnowsOrbits(chain, n, group) /\ SameBases(levels, chain, n)
  BY <1>1, <1>2, <1>6, <1>8, FilterOrbits
<1>10. OnBase(chain, n, fix)
  <2>1. OnBase(levels, n, fix)
    BY <1>1, <1>3, <1>7 DEF Waits
  <2> QED
    BY <1>2, <1>9, <2>1, OnBaseSame
<1>11. fix \in Seq(Points) /\ Len(fix) \in 0 .. Len(fix) /\ ~ Len(fix) < Len(fix)
  BY <1>10 DEF OnBase
<1>12. ASSUME NEW early, early = EarlyAnswer(fix, call.cell, chain) \/ early = -1,
              early >= 0, call' = Idle, Answers(fix, early, chain)
       PROVE  Knowledge!Answer /\ Waits(call', chain, n)
  <2>1. early = EarlyAnswer(fix, call.cell, chain)
    BY <1>12
  <2>2. /\ early \in 0 .. Len(fix)
        /\ early < Len(fix) => chain[early + 1].orbits[fix[early + 1]] # fix[early + 1]
    BY <1>11, <1>12, <2>1, EarlyIs
  <2>3. Knowledge!Answer
    BY <1>2, <1>7, <1>9, <1>10, <1>12, <2>2, AnswerSound
  <2> QED
    BY <1>12, <2>3 DEF Waits
<1>13. ASSUME call' = Idle, Answers(fix, Len(fix), chain)
       PROVE  Knowledge!Answer /\ Waits(call', chain, n)
  <2>1. PICK level : level = Len(fix)
    OBVIOUS
  <2>2. Knowledge!Answer
    BY <1>2, <1>7, <1>9, <1>10, <1>11, <1>13, <2>1, AnswerSound
  <2> QED
    BY <1>13, <2>2 DEF Waits
<1>14. ASSUME NEW nfails, call' = [call EXCEPT !.w = w, !.nfails = nfails], answer' = answer
       PROVE  UNCHANGED <<group, answer>> /\ Waits(call', chain, n)
  <2>1. call' = [op |-> call.op, fix |-> call.fix, cell |-> call.cell, w |-> w, nfails |-> nfails]
    BY <1>2, <1>7, <1>14 DEF IsWalk
  <2>2. call'.fix = fix
    BY <1>3, <2>1
  <2> QED
    BY <1>7, <1>10, <1>14, <2>2 DEF Waits
<1>15. KnowledgeStep /\ Waits(call', chain, n)
  BY <1>6, <1>12, <1>13, <1>14 DEF KnowledgeStep
<1> QED
  BY <1>6, <1>7, <1>9, <1>15 DEF Follows, OrbitsInvariant

\* freeschreier forgets.
LEMMA FreeFollows ==
  ASSUME FreeSchreier
  PROVE  Follows
<1>1. levels' = newgroup /\ group' = {Identity} /\ answer' = <<>> /\ call' = Idle
  BY DEF FreeSchreier
<1>2. KnowsOrbits(levels', 1, group')
  BY <1>1, NewOrbits
<1>3. Waits(call', levels', 1) /\ Knowledge!Forget
  BY <1>1, KnowledgeTerms DEF Waits, Knowledge!Forget
<1> QED
  BY <1>2, <1>3 DEF Follows, OrbitsInvariant, KnowledgeStep

\* Every step.
LEMMA StepFollows ==
  ASSUME RingInvariant, GroupInvariant, OrbitsInvariant, [Next]_vars
  PROVE  Follows
<1>1. CASE UNCHANGED vars
  BY <1>1 DEF vars, Follows, OrbitsInvariant, KnowledgeStep
<1> QED
  BY <1>1, GiveFollows, ReadFollows, AskFollows, AskMinFollows, WalkFollows, FreeFollows DEF Next

\* The inductive invariant: the orbits at each level are those of elements of the group that
\* keep the base points before it, at the first level all of them; and what is being asked
\* is about the base that the levels have.
THEOREM OrbitsStay == Spec => []OrbitsInvariant
<1>1. Init => OrbitsInvariant
  <2> SUFFICES ASSUME Init PROVE OrbitsInvariant
    OBVIOUS
  <2>1. levels = newgroup /\ group = {Identity} /\ call = Idle
    BY DEF Init
  <2>2. KnowsOrbits(levels, 1, group) /\ Waits(call, levels, 1)
    BY <2>1, NewOrbits DEF Waits
  <2> QED
    BY <2>2 DEF OrbitsInvariant
<1>2. RingInvariant /\ GroupInvariant /\ OrbitsInvariant /\ [Next]_vars => OrbitsInvariant'
  BY StepFollows DEF Follows
<1> QED
  BY <1>1, <1>2, RingStays, GroupStays, PTL DEF Spec

\* Traces is told no orbit that is not one (schreier.c, getorbits, getorbitsmin,
\* findcurrorbits): the ring and the levels implement a store of automorphisms that answers
\* with orbits of the group of those added, with the base held fixed.
THEOREM KeepsKnowledgeTheorem == Spec => KeepsKnowledge
<1>1. Init => Knowledge!KnowledgeInit
  BY KnowledgeTerms DEF Init, Knowledge!KnowledgeInit
<1>2. RingInvariant /\ GroupInvariant /\ OrbitsInvariant /\ [Next]_vars
      => [Knowledge!Ask \/ Knowledge!Answer \/ Knowledge!Give \/ Knowledge!Forget]_(Knowledge!knowledgeVars)
  BY StepFollows DEF Follows, KnowledgeStep, Knowledge!knowledgeVars
<1> QED
  BY <1>1, <1>2, RingStays, GroupStays, OrbitsStay, PTL DEF Spec, KeepsKnowledge, Knowledge!KnowledgeSpec
=============================================================================
