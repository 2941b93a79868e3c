------------------------- MODULE NishePartitionProofs -------------------------
(***************************************************************************)
(* NishePartition keeps its arrays consistent for every number of elements *)
(* and every number of levels: between two calls the cells, their sizes,   *)
(* the labels of the elements and the log of cuts tell the same story, and *)
(* the threaded list holds the cells of more than one element in order.    *)
(* Therefore the nest implements PartitionStack.                           *)
(***************************************************************************)
EXTENDS NishePartition, NumberLemmas

Lists == [Positions -> [prev : Positions, next : Positions]]

NextOf(list, x) == list[x].next
PrevOf(list, x) == list[x].prev

\* The list without its array: the link of k is to the next, to the previous element
\* of the set C, or to the sentinel.
NextIn(C, k, m) ==
    \/ m \in C /\ k < m /\ \A j \in C : k < j => m <= j
    \/ m = N - 1 /\ \A j \in C : j <= k

PrevIn(C, k, m) ==
    \/ m \in C /\ m < k /\ \A j \in C : j < k => j <= m
    \/ m = N - 1 /\ \A j \in C : k <= j

Linked(C, list, k) == NextIn(C, k, NextOf(list, k)) /\ PrevIn(C, k, PrevOf(list, k))

Ring(C, list) ==
    /\ \A k \in C : Linked(C, list, k)
    /\ NextIn(C, -1, NextOf(list, N - 1))
    /\ PrevIn(C, N - 1, PrevOf(list, N - 1))

SameLinks(L, list, x) ==
    NextOf(L, x) = NextOf(list, x) /\ PrevOf(L, x) = PrevOf(list, x)

SameLinksBeyond(W, L, list) == \A x \in Positions \ W : SameLinks(L, list, x)

\* The sentinel is at N - 1, where no cell of two elements begins.
Inner == 0 .. N - 2
-----------------------------------------------------------------------------
(* The threaded list *)

\* The positions, of which there is at least one.
LEMMA NPositive == N \in Nat /\ N >= 1 /\ N - 1 \in Positions /\ Inner \subseteq Positions
BY ConstantsAssumption DEF Positions, Inner

\* The links of an entry.
LEMMA LinksArePositions ==
  ASSUME NEW list \in Lists, NEW x \in Positions
  PROVE  NextOf(list, x) \in Positions /\ PrevOf(list, x) \in Positions
BY DEF Lists, NextOf, PrevOf

\* Join writes two fields.
LEMMA JoinFields ==
  ASSUME NEW list \in Lists, NEW a \in Positions, NEW b \in Positions,
         NEW L, L = Join(list, a, b)
  PROVE  /\ L \in Lists
         /\ \A x \in Positions :
               /\ NextOf(L, x) = IF x = a THEN b ELSE NextOf(list, x)
               /\ PrevOf(L, x) = IF x = b THEN a ELSE PrevOf(list, x)
BY DEF Join, Lists, NextOf, PrevOf

\* Two joins put k between a and b.
LEMMA JoinBetween ==
  ASSUME NEW list \in Lists, NEW a \in Positions, NEW b \in Positions, NEW k \in Positions,
         k # a, k # b, NEW L, L = Join(Join(list, a, k), k, b)
  PROVE  /\ L \in Lists
         /\ \A x \in Positions :
               /\ NextOf(L, x) = IF x = a THEN k ELSE IF x = k THEN b ELSE NextOf(list, x)
               /\ PrevOf(L, x) = IF x = b THEN k ELSE IF x = k THEN a ELSE PrevOf(list, x)
BY JoinFields

\* An element has one link in each direction.
LEMMA LinkIsUnique ==
  ASSUME NEW C \in SUBSET Inner, NEW k \in Int, NEW m \in Positions, NEW n \in Positions
  PROVE  /\ NextIn(C, k, m) /\ NextIn(C, k, n) => m = n
         /\ PrevIn(C, k, m) /\ PrevIn(C, k, n) => m = n
BY NPositive DEF NextIn, PrevIn, Inner, Positions

\* What C has beyond G stands where e belongs.
SameGap(G, C, e) ==
    G \subseteq C /\ \A s \in C : s \in G \/ \A j \in G : j < s <=> j < e

\* The successors when e joins G, in the place of what else was in C.
LEMMA PutInOrder ==
  ASSUME NEW G \in SUBSET Inner, NEW C \in SUBSET Inner, NEW e \in Inner, e \notin G,
         SameGap(G, C, e),
         NEW p \in Positions, PrevIn(G, e, p), NEW n \in Positions, NextIn(G, e, n)
  PROVE  /\ NextIn(G \cup {e}, e, n) /\ PrevIn(G \cup {e}, e, p)
         /\ p \in G => NextIn(G \cup {e}, p, e)
         /\ p = N - 1 => NextIn(G \cup {e}, -1, e)
         /\ n \in G \cup {N - 1} => PrevIn(G \cup {e}, n, e)
         /\ \A x \in G, y \in Positions :
               x # p /\ NextIn(C, x, y) => NextIn(G \cup {e}, x, y)
         /\ \A y \in Positions :
               p # N - 1 /\ NextIn(C, -1, y) => NextIn(G \cup {e}, -1, y)
         /\ \A x \in G \cup {N - 1}, y \in Positions :
               x # n /\ PrevIn(C, x, y) => PrevIn(G \cup {e}, x, y)
<1> DEFINE D == G \cup {e}
<1> USE NPositive DEF SameGap, NextIn, PrevIn, Inner, Positions
<1>1. NextIn(D, e, n) /\ PrevIn(D, e, p)
  OBVIOUS
<1>2. p \in G => NextIn(D, p, e)
  OBVIOUS
<1>3. p = N - 1 => NextIn(D, -1, e)
  OBVIOUS
<1>4. n \in G \cup {N - 1} => PrevIn(D, n, e)
  OBVIOUS
<1>5. ASSUME NEW x \in G, NEW y \in Positions, x # p, NextIn(C, x, y)
      PROVE  NextIn(D, x, y)
  BY <1>5
<1>6. ASSUME NEW y \in Positions, p # N - 1, NextIn(C, -1, y)
      PROVE  NextIn(D, -1, y)
  BY <1>6
<1>7. ASSUME NEW x \in G \cup {N - 1}, NEW y \in Positions, x # n, PrevIn(C, x, y)
      PROVE  PrevIn(D, x, y)
  BY <1>7
<1> QED
  BY ONLY <1>1, <1>2, <1>3, <1>4, <1>5, <1>6, <1>7

\* The successors when e is taken away.
LEMMA TakeInOrder ==
  ASSUME NEW C \in SUBSET Inner, NEW e \in C,
         NEW p \in Positions, PrevIn(C, e, p), NEW n \in Positions, NextIn(C, e, n)
  PROVE  /\ p \in C => NextIn(C \ {e}, p, n)
         /\ p = N - 1 => NextIn(C \ {e}, -1, n)
         /\ n \in C \cup {N - 1} => PrevIn(C \ {e}, n, p)
         /\ \A x \in C \ {e}, y \in Positions :
               x # p /\ NextIn(C, x, y) => NextIn(C \ {e}, x, y)
         /\ \A y \in Positions :
               p # N - 1 /\ NextIn(C, -1, y) => NextIn(C \ {e}, -1, y)
         /\ \A x \in (C \ {e}) \cup {N - 1}, y \in Positions :
               x # n /\ PrevIn(C, x, y) => PrevIn(C \ {e}, x, y)
<1> DEFINE D == C \ {e}
<1> USE NPositive DEF NextIn, PrevIn, Inner, Positions
<1>1. p \in C => NextIn(D, p, n)
  OBVIOUS
<1>2. p = N - 1 => NextIn(D, -1, n)
  OBVIOUS
<1>3. n \in C \cup {N - 1} => PrevIn(D, n, p)
  OBVIOUS
<1>4. ASSUME NEW x \in D, NEW y \in Positions, x # p, NextIn(C, x, y)
      PROVE  NextIn(D, x, y)
  BY <1>4
<1>5. ASSUME NEW y \in Positions, p # N - 1, NextIn(C, -1, y)
      PROVE  NextIn(D, -1, y)
  BY <1>5
<1>6. ASSUME NEW x \in D \cup {N - 1}, NEW y \in Positions, x # n, PrevIn(C, x, y)
      PROVE  PrevIn(D, x, y)
  BY <1>6
<1> QED
  BY ONLY <1>1, <1>2, <1>3, <1>4, <1>5, <1>6

\* Joining p, e and n puts e into the ring, in the place of what else was there: what
\* cases 1 and 2 of insert_index do, and erase_index when a start returns.
LEMMA RingPut ==
  ASSUME NEW G \in SUBSET Inner, NEW C \in SUBSET Inner, NEW e \in Inner, e \notin G,
         SameGap(G, C, e),
         NEW p \in Positions, PrevIn(G, e, p), NEW n \in Positions, NextIn(G, e, n),
         NEW list \in Lists, Ring(C, list),
         NEW L, L = Join(Join(list, p, e), e, n)
  PROVE  /\ L \in Lists /\ Ring(G \cup {e}, L)
         /\ SameLinksBeyond({p, e, n}, L, list)
<1> DEFINE D == G \cup {e}
<1>1. /\ e \in Positions /\ N - 1 \in Positions /\ e # N - 1 /\ e # p /\ e # n
      /\ \A x \in G : x \in Positions /\ x # e /\ x # N - 1
      /\ p \in G \cup {N - 1} /\ n \in G \cup {N - 1}
  BY NPositive DEF Inner, Positions, PrevIn, NextIn
<1>2. /\ L \in Lists
      /\ \A x \in Positions :
            /\ NextOf(L, x) = IF x = p THEN e ELSE IF x = e THEN n ELSE NextOf(list, x)
            /\ PrevOf(L, x) = IF x = n THEN e ELSE IF x = e THEN p ELSE PrevOf(list, x)
  BY <1>1, JoinBetween
<1>3. \A x \in Positions : NextOf(list, x) \in Positions /\ PrevOf(list, x) \in Positions
  BY LinksArePositions
<1>4. /\ NextIn(D, e, n) /\ PrevIn(D, e, p)
      /\ p \in G => NextIn(D, p, e)
      /\ p = N - 1 => NextIn(D, -1, e)
      /\ n \in G \cup {N - 1} => PrevIn(D, n, e)
      /\ \A x \in G, y \in Positions : x # p /\ NextIn(C, x, y) => NextIn(D, x, y)
      /\ \A y \in Positions : p # N - 1 /\ NextIn(C, -1, y) => NextIn(D, -1, y)
      /\ \A x \in G \cup {N - 1}, y \in Positions : x # n /\ PrevIn(C, x, y) => PrevIn(D, x, y)
  BY PutInOrder
<1>5. /\ \A x \in G : NextIn(C, x, NextOf(list, x)) /\ PrevIn(C, x, PrevOf(list, x))
      /\ NextIn(C, -1, NextOf(list, N - 1))
      /\ PrevIn(C, N - 1, PrevOf(list, N - 1))
  BY DEF Ring, Linked, SameGap
<1> HIDE DEF D
<1>6. Linked(D, L, e)
  BY <1>1, <1>2, <1>4 DEF Linked
<1>7. ASSUME NEW x \in G PROVE Linked(D, L, x)
  <2>1. NextIn(D, x, NextOf(L, x))
    BY <1>1, <1>2, <1>3, <1>4, <1>5
  <2>2. PrevIn(D, x, PrevOf(L, x))
    BY <1>1, <1>2, <1>3, <1>4, <1>5
  <2> QED
    BY <2>1, <2>2 DEF Linked
<1>8. NextIn(D, -1, NextOf(L, N - 1))
  BY <1>1, <1>2, <1>3, <1>4, <1>5
<1>9. PrevIn(D, N - 1, PrevOf(L, N - 1))
  BY <1>1, <1>2, <1>3, <1>4, <1>5
<1> QED
  BY <1>2, <1>6, <1>7, <1>8, <1>9 DEF Ring, D, SameLinks, SameLinksBeyond

\* Joining the neighbours of e takes it out of the ring: case 3 of insert_index, and
\* erase_index when the start and the cell that joins it both have more elements.
LEMMA RingTake ==
  ASSUME NEW C \in SUBSET Inner, NEW e \in C, NEW list \in Lists, Ring(C, list),
         NEW p, p = PrevOf(list, e), NEW n, n = NextOf(list, e), NEW L, L = Join(list, p, n)
  PROVE  /\ L \in Lists /\ Ring(C \ {e}, L)
         /\ SameLinksBeyond({p, n}, L, list)
<1> DEFINE D == C \ {e}
<1>1. \A x \in Positions : NextOf(list, x) \in Positions /\ PrevOf(list, x) \in Positions
  BY LinksArePositions
<1>2. /\ \A x \in C : NextIn(C, x, NextOf(list, x)) /\ PrevIn(C, x, PrevOf(list, x))
      /\ NextIn(C, -1, NextOf(list, N - 1))
      /\ PrevIn(C, N - 1, PrevOf(list, N - 1))
  BY DEF Ring, Linked
<1>3. /\ p \in Positions /\ n \in Positions /\ e \in Positions /\ N - 1 \in Positions
      /\ PrevIn(C, e, p) /\ NextIn(C, e, n)
      /\ \A x \in C : x \in Positions /\ x # N - 1
      /\ p \in C \cup {N - 1} /\ n \in C \cup {N - 1}
  <2>1. e \in Positions /\ N - 1 \in Positions /\ \A x \in C : x \in Positions /\ x # N - 1
    BY NPositive DEF Inner
  <2>2. p \in Positions /\ n \in Positions /\ PrevIn(C, e, p) /\ NextIn(C, e, n)
    BY <1>1, <1>2, <2>1
  <2>3. p \in C \cup {N - 1} /\ n \in C \cup {N - 1}
    BY <2>2 DEF PrevIn, NextIn
  <2> QED
    BY <2>1, <2>2, <2>3
<1>4. /\ L \in Lists
      /\ \A x \in Positions :
            /\ NextOf(L, x) = IF x = p THEN n ELSE NextOf(list, x)
            /\ PrevOf(L, x) = IF x = n THEN p ELSE PrevOf(list, x)
  <2>1. list \in Lists /\ p \in Positions /\ n \in Positions /\ L = Join(list, p, n)
    BY <1>3
  <2> QED
    BY ONLY <2>1, JoinFields
<1>5. /\ p \in C => NextIn(D, p, n)
      /\ p = N - 1 => NextIn(D, -1, n)
      /\ n \in C \cup {N - 1} => PrevIn(D, n, p)
      /\ \A x \in D, y \in Positions : x # p /\ NextIn(C, x, y) => NextIn(D, x, y)
      /\ \A y \in Positions : p # N - 1 /\ NextIn(C, -1, y) => NextIn(D, -1, y)
      /\ \A x \in D \cup {N - 1}, y \in Positions : x # n /\ PrevIn(C, x, y) => PrevIn(D, x, y)
  BY <1>3, TakeInOrder
<1>6. \A x \in D : x \in C
  OBVIOUS
<1> HIDE DEF D
<1>7. ASSUME NEW x \in D PROVE Linked(D, L, x)
  <2>1. NextIn(D, x, NextOf(L, x))
    BY <1>1, <1>2, <1>3, <1>4, <1>5, <1>6
  <2>2. PrevIn(D, x, PrevOf(L, x))
    BY <1>1, <1>2, <1>3, <1>4, <1>5, <1>6
  <2> QED
    BY <2>1, <2>2 DEF Linked
<1>8. NextIn(D, -1, NextOf(L, N - 1))
  BY <1>1, <1>2, <1>3, <1>4, <1>5
<1>9. PrevIn(D, N - 1, PrevOf(L, N - 1))
  BY <1>1, <1>2, <1>3, <1>4, <1>5
<1> QED
  BY <1>4, <1>7, <1>8, <1>9 DEF Ring, D, SameLinks, SameLinksBeyond
-----------------------------------------------------------------------------
(* Cells as sets of starts *)

\* Position i is in the cell that begins at s.
StartOf(S, s, i) == s \in S /\ s <= i /\ \A t \in S : t <= i => t <= s

\* The starts of cells of more than one element.
Big(S) == {s \in S : s + 1 < N /\ s + 1 \notin S}

\* A cell reaches to the next start or to the end.
SizesFit(S, sizes) ==
    \A s \in S : /\ sizes[s] \in 1 .. N
                 /\ s + sizes[s] = N \/ s + sizes[s] \in S
                 /\ \A t \in S : s < t => s + sizes[s] <= t

\* A cell of two elements begins before N - 1, the place of the sentinel.
LEMMA BigIsInner ==
  ASSUME NEW S \in SUBSET Positions
  PROVE  Big(S) \in SUBSET Inner
<1> SUFFICES ASSUME NEW s \in S, s + 1 < N PROVE s \in Inner
  BY DEF Big
<1> QED
  BY NPositive DEF Inner, Positions

\* The cells of more than one element, by their sizes.
LEMMA BigIsSize ==
  ASSUME NEW S \in SUBSET Positions, NEW sizes, SizesFit(S, sizes), NEW s \in S
  PROVE  s \in Big(S) <=> sizes[s] > 1
BY NPositive DEF Big, SizesFit, Positions

\* What a cut at k does to the cells of more than one element: its start may leave
\* them, and k may join them.
LEMMA BigCut ==
  ASSUME NEW S \in SUBSET Positions, NEW k \in Positions, k \notin S
  PROVE  /\ k \in Big(S \cup {k}) <=> k + 1 < N /\ k + 1 \notin S
         /\ \A s \in S : s \in Big(S \cup {k}) <=> s \in Big(S) /\ s + 1 # k
         /\ Big(S \cup {k}) \subseteq S \cup {k}
BY NPositive DEF Big, Positions

\* A cut falls inside the cell of its start.
LEMMA CutInCell ==
  ASSUME NEW S \in SUBSET Positions, NEW k \in Positions, k \notin S, NEW start,
         StartOf(S, start, k), NEW sizes, SizesFit(S, sizes)
  PROVE  /\ start \in S /\ start \in Positions /\ start < k /\ k < start + sizes[start]
         /\ start + sizes[start] <= N /\ sizes[start] \in 1 .. N
<1>1. /\ start \in S /\ start \in Positions /\ start <= k /\ start # k
      /\ \A t \in S : t <= k => t <= start
  BY DEF StartOf
<1>2. /\ sizes[start] \in 1 .. N
      /\ start + sizes[start] = N \/ start + sizes[start] \in S
  BY <1>1 DEF SizesFit
<1> QED
  BY <1>1, <1>2, NPositive DEF Positions

\* What commit_index and UndoCut make of the sizes.
CutSizes(sizes, start, k) ==
    [sizes EXCEPT ![start] = k - start, ![k] = sizes[start] - (k - start)]

JoinedSizes(sizes, start, k) == [sizes EXCEPT ![k] = 0, ![start] = @ + sizes[k]]

\* The sizes after a cut.
LEMMA SizesCut ==
  ASSUME NEW S \in SUBSET Positions, NEW k \in Positions, k \notin S, NEW start,
         StartOf(S, start, k), NEW sizes \in [Positions -> 0 .. N], SizesFit(S, sizes),
         NEW cut, cut = CutSizes(sizes, start, k)
  PROVE  /\ start < k /\ k < start + sizes[start] /\ start + sizes[start] <= N
         /\ cut \in [Positions -> 0 .. N] /\ SizesFit(S \cup {k}, cut)
         /\ cut[k] = start + sizes[start] - k
<1>1. /\ start \in S /\ start \in Positions /\ start < k /\ k < start + sizes[start]
      /\ start + sizes[start] <= N /\ sizes[start] \in 1 .. N
  BY CutInCell
<1>2. /\ cut \in [Positions -> 0 .. N]
      /\ \A x \in Positions : cut[x] = IF x = k THEN sizes[start] - (k - start)
                                       ELSE IF x = start THEN k - start ELSE sizes[x]
  <2>1. sizes[start] - (k - start) \in 0 .. N /\ k - start \in 0 .. N
    BY <1>1, NPositive DEF Positions
  <2> QED
    BY <1>1, <2>1 DEF CutSizes
<1>3. ASSUME NEW s \in S \cup {k}
      PROVE  /\ cut[s] \in 1 .. N
             /\ s + cut[s] = N \/ s + cut[s] \in S \cup {k}
             /\ \A t \in S \cup {k} : s < t => s + cut[s] <= t
  <2>1. CASE s = k
    <3>1. cut[s] = sizes[start] - (k - start)
      BY <1>2, <2>1
    <3>2. \A t \in S : k < t => start + sizes[start] <= t
      BY <1>1 DEF SizesFit, Positions
    <3> QED
      BY <1>1, <2>1, <3>1, <3>2, NPositive DEF SizesFit, Positions
  <2>2. CASE s = start
    <3>1. cut[s] = k - start
      BY <1>1, <1>2, <2>2
    <3>2. \A t \in S : start < t => k <= t
      BY DEF StartOf, Positions
    <3> QED
      BY <1>1, <2>2, <3>1, <3>2, NPositive DEF Positions
  <2>3. CASE s # k /\ s # start
    <3>1. s \in S /\ cut[s] = sizes[s] /\ s \in Positions
      BY <1>2, <2>3
    <3>2. s < start \/ k < s
      BY <1>1, <2>3, <3>1 DEF StartOf, Positions
    <3>3. s < k => s + sizes[s] <= k
      BY <1>1, <3>1, <3>2 DEF SizesFit, Positions
    <3> QED
      BY <3>1, <3>3 DEF SizesFit
  <2> QED
    BY <2>1, <2>2, <2>3
<1>4. cut[k] = start + sizes[start] - k
  BY <1>1, <1>2, NPositive DEF Positions
<1> QED
  BY <1>1, <1>2, <1>3, <1>4 DEF SizesFit

\* A cell ends where the one that was cut from it begins.
LEMMA CellsMeet ==
  ASSUME NEW S \in SUBSET Positions, NEW k \in Positions, k \notin S, NEW start,
         StartOf(S, start, k), NEW sizes, SizesFit(S \cup {k}, sizes)
  PROVE  /\ start \in S /\ start \in Positions /\ start < k /\ start + sizes[start] = k
         /\ sizes[start] \in 1 .. N /\ sizes[k] \in 1 .. N /\ k + sizes[k] <= N
<1>1. /\ start \in S /\ start \in Positions /\ start < k
      /\ sizes[start] \in 1 .. N /\ sizes[k] \in 1 .. N /\ k + sizes[k] <= N
  <2>1. start \in S /\ start \in Positions /\ start <= k /\ start # k
    BY DEF StartOf
  <2>2. /\ sizes[start] \in 1 .. N /\ sizes[k] \in 1 .. N
        /\ k + sizes[k] = N \/ k + sizes[k] \in S \cup {k}
    BY <2>1 DEF SizesFit
  <2> QED
    BY <2>1, <2>2, NPositive DEF Positions
<1>2. start + sizes[start] <= k
  BY <1>1 DEF SizesFit
<1>3. start + sizes[start] \in S \cup {k}
  BY <1>1, <1>2, NPositive DEF SizesFit, Positions
<1> QED
  BY <1>1, <1>2, <1>3 DEF StartOf, Positions

\* The sizes after a cut is undone.
LEMMA SizesJoin ==
  ASSUME NEW S \in SUBSET Positions, NEW k \in Positions, k \notin S, NEW start,
         StartOf(S, start, k), NEW sizes \in [Positions -> 0 .. N], SizesFit(S \cup {k}, sizes),
         NEW joined, joined = JoinedSizes(sizes, start, k)
  PROVE  /\ start < k /\ start + sizes[start] = k
         /\ joined \in [Positions -> 0 .. N] /\ SizesFit(S, joined)
         /\ joined[start] = sizes[start] + sizes[k]
<1>1. /\ start \in S /\ start \in Positions /\ start < k
      /\ sizes[start] \in 1 .. N /\ sizes[k] \in 1 .. N /\ k + sizes[k] <= N
  BY CellsMeet
<1>2. start + sizes[start] = k
  BY CellsMeet
<1>3. /\ joined \in [Positions -> 0 .. N]
      /\ \A x \in Positions : joined[x] = IF x = start THEN sizes[start] + sizes[k]
                                          ELSE IF x = k THEN 0 ELSE sizes[x]
  <2>1. sizes[start] + sizes[k] \in 0 .. N /\ 0 \in 0 .. N /\ start # k
    BY <1>1, <1>2, NPositive DEF Positions
  <2> QED
    BY <1>1, <2>1 DEF JoinedSizes
<1>4. ASSUME NEW s \in S
      PROVE  /\ joined[s] \in 1 .. N
             /\ s + joined[s] = N \/ s + joined[s] \in S
             /\ \A t \in S : s < t => s + joined[s] <= t
  <2>1. CASE s = start
    <3>1. joined[s] = sizes[start] + sizes[k]
      BY <1>1, <1>3, <2>1
    <3>2. s + joined[s] = k + sizes[k]
      BY <1>1, <1>2, <2>1, <3>1, NPositive DEF Positions
    <3>3. k + sizes[k] = N \/ k + sizes[k] \in S
      BY <1>1, NPositive DEF SizesFit, Positions
    <3>4. \A t \in S : start < t => k + sizes[k] <= t
      <4>1. \A t \in S : start < t => k < t
        BY <1>1, <1>2 DEF SizesFit, Positions
      <4> QED
        BY <4>1 DEF SizesFit
    <3> QED
      BY <1>1, <1>2, <2>1, <3>1, <3>2, <3>3, <3>4, NPositive DEF Positions
  <2>2. CASE s # start
    <3>1. joined[s] = sizes[s] /\ s \in Positions /\ s # k
      BY <1>3, <2>2
    <3>2. s + sizes[s] # k
      <4>1. s + sizes[s] = k => s < k /\ s < start
        BY <1>1, <2>2, <3>1, NPositive DEF StartOf, SizesFit, Positions
      <4>2. s < start => s + sizes[s] <= start
        BY <1>1 DEF SizesFit
      <4> QED
        BY <1>1, <3>1, <4>1, <4>2, NPositive DEF Positions
    <3> QED
      BY <3>1, <3>2 DEF SizesFit
  <2> QED
    BY <2>1, <2>2
<1> QED
  BY <1>1, <1>2, <1>3, <1>4 DEF SizesFit

\* The cases of insert_index.
LEMMA InsertCases ==
  ASSUME NEW list, NEW start \in Int, NEW k \in Int, NEW size \in Int,
         NEW p, p = PrevOf(list, start), NEW n, n = NextOf(list, start)
  PROVE  /\ k > start + 1 /\ k < start + size - 1 =>
               insert_index(list, start, k, size) = Join(Join(list, start, k), k, n)
         /\ k = start + 1 /\ k < start + size - 1 =>
               insert_index(list, start, k, size) = Join(Join(list, p, k), k, n)
         /\ k = start + 1 /\ k = start + size - 1 =>
               insert_index(list, start, k, size) = Join(list, p, n)
         /\ k > start + 1 /\ ~ (k < start + size - 1) => insert_index(list, start, k, size) = list
BY DEF insert_index, PrevOf, NextOf

\* insert_index keeps the list when a cell is cut; the links of other starts, and of
\* this one if it leaves the list, stay as they are.
LEMMA InsertKeepsRing ==
  ASSUME NEW S \in SUBSET Positions, NEW k \in Positions, k \notin S, NEW start,
         StartOf(S, start, k), NEW sizes \in [Positions -> 0 .. N], SizesFit(S, sizes),
         NEW list \in Lists, Ring(Big(S), list),
         NEW L, L = insert_index(list, start, k, sizes[start])
  PROVE  /\ L \in Lists /\ Ring(Big(S \cup {k}), L)
         /\ SameLinksBeyond(Big(S) \cup {k, N - 1}, L, list)
         /\ k = start + 1 => SameLinks(L, list, start)
<1> DEFINE B == Big(S)
           C == Big(S \cup {k})
           size == sizes[start]
           p == PrevOf(list, start)
           n == NextOf(list, start)
<1>1. /\ start \in S /\ start \in Positions /\ start \in Int /\ k \in Int /\ size \in Int
      /\ start < k /\ k < start + size /\ start + size <= N /\ N \in Int /\ 0 <= start
      /\ N - 1 \in Positions
  <2>1. /\ start \in S /\ start \in Positions /\ start < k /\ k < start + size
        /\ start + size <= N /\ size \in 1 .. N
    BY CutInCell
  <2> QED
    BY <2>1, NPositive DEF Positions
<1>2. start \in B
  BY <1>1, BigIsSize
<1>3. B \in SUBSET Inner /\ C \in SUBSET Inner
  BY BigIsInner
<1>4. k < start + size - 1 <=> k \in C
  <2>1. start + size = N \/ start + size \in S
    BY <1>1 DEF SizesFit
  <2>2. k + 1 \in S => start + size <= k + 1
    BY <1>1 DEF SizesFit
  <2>3. k \in C <=> k + 1 < N /\ k + 1 \notin S
    BY BigCut
  <2> QED
    BY <1>1, <2>1, <2>2, <2>3
<1>5. /\ \A s \in S : s \in C <=> s \in B /\ s + 1 # k
      /\ C \subseteq S \cup {k} /\ B \subseteq S
  BY BigCut DEF Big
<1>6. k # start + 1 => \A s \in S : s + 1 # k
  BY <1>1 DEF StartOf, Positions
<1>7. /\ p \in Positions /\ n \in Positions /\ NextIn(B, start, n) /\ PrevIn(B, start, p)
      /\ p \in B \cup {N - 1} /\ n \in B \cup {N - 1} /\ p # start /\ n # start
      /\ p \in Int /\ n \in Int
  <2>1. p \in Positions /\ n \in Positions /\ p \in Int /\ n \in Int
    BY <1>1, LinksArePositions DEF Positions
  <2>2. NextIn(B, start, n) /\ PrevIn(B, start, p)
    BY <1>2 DEF Ring, Linked
  <2>3. start # N - 1
    BY <1>1
  <2> QED
    BY <1>1, <2>1, <2>2, <2>3 DEF NextIn, PrevIn
<1>8. \A j \in B : /\ j \in Int
                   /\ start < j => k < j
                   /\ j < k => j <= start
  <2>1. \A j \in S : j \in Int /\ (j <= k => j <= start) /\ j # k
    BY DEF StartOf, Positions
  <2>2. B \subseteq S
    BY <1>5
  <2> HIDE DEF B
  <2> QED
    BY <1>1, <2>1, <2>2
<1> DEFINE Others == /\ SameLinksBeyond(B \cup {k, N - 1}, L, list)
                     /\ k = start + 1 => SameLinks(L, list, start)
<1> SUFFICES L \in Lists /\ Ring(C, L) /\ Others
  OBVIOUS
<1>c. /\ k > start + 1 /\ k < start + size - 1 => L = Join(Join(list, start, k), k, n)
      /\ k = start + 1 /\ k < start + size - 1 => L = Join(Join(list, p, k), k, n)
      /\ k = start + 1 /\ k = start + size - 1 => L = Join(list, p, n)
      /\ k > start + 1 /\ ~ (k < start + size - 1) => L = list
  BY <1>1, InsertCases
<1>r. Ring(B, list)
  OBVIOUS
<1> HIDE DEF B, C, size, p, n
<1>9. CASE k > start + 1 /\ k < start + size - 1
  <2>1. L = Join(Join(list, start, k), k, n)
    BY <1>c, <1>9
  <2>2. C = B \cup {k}
    <3>1. k \in C /\ \A s \in S : s \in C <=> s \in B
      BY <1>1, <1>4, <1>5, <1>6, <1>9
    <3> QED
      BY <1>5, <3>1
  <2>3. k \in Inner /\ k \notin B
    BY <1>3, <1>4, <1>5, <1>9
  <2>4. PrevIn(B, k, start) /\ NextIn(B, k, n)
    BY <1>1, <1>2, <1>7, <1>8 DEF PrevIn, NextIn
  <2>6. /\ L \in Lists /\ Ring(B \cup {k}, L)
        /\ SameLinksBeyond({start, k, n}, L, list)
    <3>1. SameGap(B, B, k) /\ start \in Positions
      BY <1>1 DEF SameGap
    <3>2. /\ B \in SUBSET Inner /\ k \in Inner /\ k \notin B /\ SameGap(B, B, k)
          /\ start \in Positions /\ PrevIn(B, k, start) /\ n \in Positions /\ NextIn(B, k, n)
          /\ list \in Lists /\ Ring(B, list) /\ L = Join(Join(list, start, k), k, n)
      BY <1>3, <1>7, <1>r, <2>1, <2>3, <2>4, <3>1
    <3> QED
      BY ONLY <3>2, RingPut
  <2> QED
    BY <1>1, <1>2, <1>7, <1>9, <2>2, <2>6 DEF SameLinksBeyond
<1>10. CASE k = start + 1 /\ k < start + size - 1
  <2>1. L = Join(Join(list, p, k), k, n)
    BY <1>c, <1>10
  <2> DEFINE G == B \ {start}
  <2>2. C = G \cup {k}
    <3>1. k \in C /\ \A s \in S : s \in C <=> s \in B /\ s # start
      BY <1>1, <1>4, <1>5, <1>10 DEF Positions
    <3> QED
      BY <1>5, <3>1
  <2>3. k \in Inner /\ k \notin G /\ G \in SUBSET Inner
    BY <1>2, <1>3, <1>4, <1>5, <1>10
  <2>4. PrevIn(G, k, p) /\ NextIn(G, k, n)
    <3>1. \A j \in G : j \in B /\ j # start
      OBVIOUS
    <3>2. (p \in B => p \in G) /\ (n \in B => n \in G)
      BY <1>7
    <3> HIDE DEF G
    <3>3. \A j \in G : j \in Int /\ (start < j <=> k < j) /\ (j < start <=> j < k)
      BY <1>1, <1>8, <3>1
    <3>4. NextIn(G, k, n)
      BY <1>1, <1>7, <1>8, <3>1, <3>2, <3>3 DEF NextIn
    <3>5. PrevIn(G, k, p)
      BY <1>1, <1>7, <1>8, <3>1, <3>2, <3>3 DEF PrevIn
    <3> QED
      BY <3>4, <3>5
  <2>5. G \cup {start} = B
    BY <1>2
  <2>6. \A j \in G : j < start <=> j < k
    BY <1>1, <1>8
  <2> HIDE DEF G
  <2>7. /\ L \in Lists /\ Ring(G \cup {k}, L)
        /\ SameLinksBeyond({p, k, n}, L, list)
    <3>1. SameGap(G, B, k)
      BY <2>5, <2>6 DEF SameGap
    <3>2. /\ G \in SUBSET Inner /\ B \in SUBSET Inner /\ k \in Inner /\ k \notin G
          /\ SameGap(G, B, k)
          /\ p \in Positions /\ PrevIn(G, k, p) /\ n \in Positions /\ NextIn(G, k, n)
          /\ list \in Lists /\ Ring(B, list) /\ L = Join(Join(list, p, k), k, n)
      BY <1>3, <1>7, <1>r, <2>1, <2>3, <2>4, <3>1
    <3> QED
      BY ONLY <3>2, RingPut
  <2> QED
    BY <1>1, <1>7, <1>10, <2>2, <2>7 DEF SameLinksBeyond
<1>11. CASE k = start + 1 /\ k = start + size - 1
  <2>1. L = Join(list, p, n)
    BY <1>c, <1>11
  <2>2. C = B \ {start}
    <3>1. k \notin C /\ \A s \in S : s \in C <=> s \in B /\ s # start
      BY <1>1, <1>4, <1>5, <1>11 DEF Positions
    <3> QED
      BY <1>5, <3>1
  <2>3. /\ L \in Lists /\ Ring(B \ {start}, L)
        /\ SameLinksBeyond({p, n}, L, list)
    <3>1. p = PrevOf(list, start) /\ n = NextOf(list, start)
      BY DEF p, n
    <3> QED
      BY <1>2, <1>3, <1>r, <2>1, <3>1, RingTake
  <2> QED
    BY <1>1, <1>7, <1>11, <2>2, <2>3 DEF SameLinksBeyond
<1>12. CASE k # start + 1 /\ ~ (k < start + size - 1)
  <2>1. L = list
    BY <1>1, <1>c, <1>12
  <2>2. C = B
    BY <1>1, <1>4, <1>5, <1>6, <1>12
  <2> QED
    BY <1>r, <2>1, <2>2 DEF SameLinks, SameLinksBeyond
<1> QED
  BY <1>1, <1>9, <1>10, <1>11, <1>12

\* The cases of erase_index.
LEMMA EraseCases ==
  ASSUME NEW list, NEW start \in Int, NEW k \in Int, NEW start_size \in Int, NEW size \in Int,
         NEW p, p = PrevOf(list, start), NEW n, n = NextOf(list, start), NEW m, m = NextOf(list, k)
  PROVE  /\ start_size = 1 =>
               erase_index(list, start, k, start_size, size) = Join(Join(list, p, start), start, n)
         /\ start_size > 1 /\ size > 1 =>
               erase_index(list, start, k, start_size, size) = Join(list, start, m)
         /\ start_size > 1 /\ ~ (size > 1) =>
               erase_index(list, start, k, start_size, size) = list
BY DEF erase_index, PrevOf, NextOf

\* erase_index keeps the list when a cut is undone.  A start that left the list comes
\* back by the links it had then, which must be those of the list without the cut.
LEMMA EraseKeepsRing ==
  ASSUME NEW S \in SUBSET Positions, NEW k \in Positions, k \notin S, NEW start,
         StartOf(S, start, k), NEW sizes \in [Positions -> 0 .. N], SizesFit(S \cup {k}, sizes),
         NEW list \in Lists, Ring(Big(S \cup {k}), list),
         k = start + 1 => Linked(Big(S), list, start),
         NEW L, L = erase_index(list, start, k, sizes[start], sizes[k])
  PROVE  /\ L \in Lists /\ Ring(Big(S), L)
         /\ SameLinksBeyond(Big(S) \cup {N - 1}, L, list)
<1> DEFINE B == Big(S)
           C == Big(S \cup {k})
           size == sizes[start]
           p == PrevOf(list, start)
           n == NextOf(list, start)
           m == NextOf(list, k)
           Others == SameLinksBeyond(B \cup {N - 1}, L, list)
<1>1. /\ start \in S /\ start \in Positions /\ start \in Int /\ k \in Int /\ size \in Int
      /\ sizes[k] \in Int /\ sizes[k] >= 1
      /\ start < k /\ start + size = k /\ N \in Int /\ 0 <= start /\ k <= N - 1
      /\ N - 1 \in Positions
  <2>1. /\ start \in S /\ start \in Positions /\ start < k /\ start + size = k
        /\ size \in 1 .. N /\ sizes[k] \in 1 .. N
    BY CellsMeet
  <2> QED
    BY <2>1, NPositive DEF Positions
<1>2. /\ \A s \in S : s \in C <=> s \in B /\ s + 1 # k
      /\ C \subseteq S \cup {k} /\ B \subseteq S
  BY BigCut DEF Big
<1>3. B \in SUBSET Inner /\ C \in SUBSET Inner
  BY BigIsInner
<1>4. k \in C <=> sizes[k] > 1
  <2>1. S \cup {k} \in SUBSET Positions
    OBVIOUS
  <2> QED
    BY <2>1, BigIsSize
<1>5. start \in B
  <2>1. start + 1 \notin S
    <3>1. start + 1 \in S => k <= start + 1 /\ start + 1 <= start
      BY <1>1 DEF StartOf, SizesFit
    <3> QED
      BY <1>1, <3>1
  <2> QED
    BY <1>1, <2>1 DEF Big
<1>6. \A j \in S : /\ j \in Int
                   /\ start < j <=> k < j
                   /\ j < start => j < k
                   /\ j < k => j <= start
                   /\ j + 1 = k => j = start
  <2>1. \A j \in S : j \in Int /\ (j <= k => j <= start) /\ j # k
    BY DEF StartOf, Positions
  <2> QED
    BY <1>1, <2>1
<1>c. /\ size = 1 => L = Join(Join(list, p, start), start, n)
      /\ size > 1 /\ sizes[k] > 1 => L = Join(list, start, m)
      /\ size > 1 /\ ~ (sizes[k] > 1) => L = list
  BY <1>1, EraseCases
<1>r. Ring(C, list)
  OBVIOUS
<1>l. size = 1 => NextIn(B, start, n) /\ PrevIn(B, start, p)
  BY <1>1 DEF Linked
<1>p. p \in Positions /\ n \in Positions /\ m \in Positions
  BY <1>1, LinksArePositions
<1> SUFFICES L \in Lists /\ Ring(B, L) /\ Others
  OBVIOUS
<1> HIDE DEF B, C, size, p, n, m
<1>7. CASE size = 1
  <2> DEFINE G == B \ {start}
  <2>1. L = Join(Join(list, p, start), start, n)
    BY <1>c, <1>7
  <2>2. SameGap(G, C, start)
    <3>1. \A s \in C : s \in G \/ s = k
      BY <1>1, <1>2, <1>7
    <3>2. G \subseteq C
      BY <1>2, <1>6
    <3>3. \A j \in G : j < k <=> j < start
      BY <1>1, <1>2, <1>6
    <3> QED
      BY <3>1, <3>2, <3>3 DEF SameGap
  <2>3. PrevIn(G, start, p) /\ NextIn(G, start, n)
    BY <1>1, <1>l, <1>7 DEF PrevIn, NextIn
  <2>4. start \in Inner /\ start \notin G /\ G \in SUBSET Inner /\ G \cup {start} = B
    BY <1>3, <1>5
  <2> HIDE DEF G
  <2>5. /\ L \in Lists /\ Ring(G \cup {start}, L)
        /\ SameLinksBeyond({p, start, n}, L, list)
    BY <1>3, <1>p, <1>r, <2>1, <2>2, <2>3, <2>4, RingPut
  <2>6. p \in B \cup {N - 1} /\ n \in B \cup {N - 1}
    BY <1>l, <1>7 DEF PrevIn, NextIn
  <2> QED
    BY <1>5, <2>4, <2>5, <2>6 DEF SameLinksBeyond
<1>8. CASE size > 1 /\ sizes[k] > 1
  <2>1. C \ {k} = B /\ k \in C
    <3>1. \A s \in S : s + 1 # k
      BY <1>1, <1>6, <1>8
    <3>2. \A s \in S : s \in C <=> s \in B
      BY <1>2, <3>1
    <3> QED
      BY <1>2, <1>4, <1>8, <3>2
  <2>2. /\ m \in Positions /\ NextIn(C, k, m)
        /\ PrevOf(list, k) \in Positions /\ PrevIn(C, k, PrevOf(list, k))
    BY <1>p, <1>r, <2>1, LinksArePositions DEF Ring, Linked, m
  <2>3. PrevOf(list, k) = start
    <3>1. PrevIn(C, k, start)
      <4>1. start \in C /\ start < k
        BY <1>1, <1>5, <2>1
      <4>2. \A j \in C : j < k => j <= start
        BY <1>1, <1>2, <1>6, <2>1
      <4> QED
        BY <4>1, <4>2 DEF PrevIn
    <3> QED
      BY <1>1, <1>3, <2>2, <3>1, LinkIsUnique
  <2>4. L = Join(list, start, m)
    BY <1>c, <1>8
  <2>5. /\ L \in Lists /\ Ring(C \ {k}, L)
        /\ SameLinksBeyond({start, m}, L, list)
    <3>1. m = NextOf(list, k)
      BY DEF m
    <3> QED
      BY <1>3, <1>r, <2>1, <2>3, <2>4, <3>1, RingTake
  <2>6. m \in B \cup {N - 1}
    <3>1. m # k
      BY <1>1, <1>3, <2>1, <2>2 DEF NextIn, Inner
    <3> QED
      BY <2>1, <2>2, <3>1 DEF NextIn
  <2> QED
    BY <1>5, <2>1, <2>5, <2>6 DEF SameLinksBeyond
<1>9. CASE size > 1 /\ ~ (sizes[k] > 1)
  <2>1. L = list
    BY <1>c, <1>9
  <2>2. C = B
    <3>1. \A s \in S : s + 1 # k
      BY <1>1, <1>6, <1>9
    <3>2. \A s \in S : s \in C <=> s \in B
      BY <1>2, <3>1
    <3> QED
      BY <1>2, <1>4, <1>9, <3>2
  <2> QED
    BY <1>r, <2>1, <2>2 DEF SameLinks, SameLinksBeyond
<1> QED
  BY <1>1, <1>7, <1>8, <1>9
-----------------------------------------------------------------------------
(* The log of cuts *)

Logs == Seq(Positions \X Positions)

\* The starts of cells after the first i cuts.
StartsIn(log, i) == {0} \cup {log[j][2] : j \in 1 .. i}

\* Each cut made a new index, in the cell of its start.
LogFits(log) ==
    \A i \in 1 .. Len(log) :
        /\ log[i][2] \notin StartsIn(log, i - 1)
        /\ StartOf(StartsIn(log, i - 1), log[i][1], log[i][2])

\* The list holds the cells of today; a start that a cut took out of it still has the
\* links it had before that cut.
LinksFit(log, list) ==
    /\ Ring(Big(StartsIn(log, Len(log))), list)
    /\ \A i \in 1 .. Len(log) :
           log[i][2] = log[i][1] + 1 => Linked(Big(StartsIn(log, i - 1)), list, log[i][1])

\* The starts that a log tells are positions, 0 among them.
LEMMA StartsAreIndices ==
  ASSUME NEW log \in Logs, NEW i \in 0 .. Len(log)
  PROVE  StartsIn(log, i) \in SUBSET Positions /\ 0 \in StartsIn(log, i)
<1>1. \A j \in 1 .. i : log[j] \in Positions \X Positions
  BY DEF Logs
<1>2. 0 \in Positions
  BY NPositive DEF Positions
<1> QED
  BY <1>1, <1>2 DEF StartsIn

\* Cuts only add starts.
LEMMA StartsGrow ==
  ASSUME NEW log \in Logs, NEW i \in 0 .. Len(log), NEW j \in 0 .. i
  PROVE  StartsIn(log, j) \subseteq StartsIn(log, i)
BY DEF StartsIn, Logs

\* log2 is log with one more cut.
OneMore(log, log2, start, k) ==
    /\ log \in Logs /\ log2 \in Logs /\ Len(log) \in Nat /\ Len(log2) = Len(log) + 1
    /\ start \in Positions /\ k \in Positions
    /\ \A i \in 1 .. Len(log) : log2[i] = log[i]
    /\ log2[Len(log) + 1] = <<start, k>>

\* What commit_index does to the log ...
LEMMA LogAppend ==
  ASSUME NEW log \in Logs, NEW start \in Positions, NEW k \in Positions,
         NEW log2, log2 = Append(log, <<start, k>>)
  PROVE  OneMore(log, log2, start, k)
BY DEF Logs, OneMore

\* ... and what an iteration of recover_level does.
LEMMA LogFront ==
  ASSUME NEW log \in Logs, Len(log) > 0, NEW log2, log2 = Front(log),
         NEW start, NEW k, Last(log) = <<start, k>>
  PROVE  OneMore(log2, log, start, k)
<1>1. PICK n \in Nat : Len(log) = n + 1
  <2>1. Len(log) \in Nat
    BY DEF Logs
  <2>2. Len(log) - 1 \in Nat /\ Len(log) = (Len(log) - 1) + 1
    BY <2>1
  <2> QED
    BY <2>2
<1>2. log2 = SubSeq(log, 1, n)
  BY <1>1 DEF Front
<1>3. /\ log2 \in Logs /\ Len(log2) = n
      /\ \A i \in 1 .. n : log2[i] = log[i]
  <2> DEFINE T == Positions \X Positions
  <2>1. log \in Seq(T) /\ 1 \in 1 .. Len(log) + 1 /\ n \in 1 - 1 .. Len(log)
    BY <1>1 DEF Logs
  <2> HIDE DEF T
  <2>2. /\ log2 \in Seq(T) /\ Len(log2) = n
        /\ \A i \in 1 .. n : log2[i] = log[i]
    BY <1>2, <2>1, SubSeqProperties
  <2> QED
    BY <2>2 DEF T, Logs
<1>4. Last(log) = log[n + 1] /\ log[n + 1] \in Positions \X Positions
  BY <1>1 DEF Last, Logs
<1> QED
  BY <1>1, <1>3, <1>4 DEF OneMore

\* The starts of a log with one more cut.
LEMMA OneMoreStarts ==
  ASSUME NEW log, NEW log2, NEW start, NEW k, OneMore(log, log2, start, k),
         NEW n, n = Len(log)
  PROVE  /\ \A i \in 0 .. n : StartsIn(log2, i) = StartsIn(log, i)
         /\ StartsIn(log2, n + 1) = StartsIn(log, n) \cup {k}
<1>1. n \in Nat /\ (\A i \in 1 .. n : log2[i] = log[i]) /\ log2[n + 1] = <<start, k>>
  BY DEF OneMore
<1>2. ASSUME NEW i \in 0 .. n PROVE StartsIn(log2, i) = StartsIn(log, i)
  BY <1>1 DEF StartsIn
<1>3. StartsIn(log2, n + 1) = StartsIn(log2, n) \cup {log2[n + 1][2]}
  <2>1. 1 .. n + 1 = (1 .. n) \cup {n + 1}
    BY <1>1
  <2> QED
    BY <2>1 DEF StartsIn
<1> QED
  BY <1>1, <1>2, <1>3

\* A start of the log whose cell is trivial today is not written by the list.
LEMMA SameLinked ==
  ASSUME NEW C, NEW L, NEW list, NEW x, SameLinks(L, list, x), Linked(C, list, x)
  PROVE  Linked(C, L, x)
BY DEF SameLinks, Linked

\* commit_index: the log, the sizes and the list go on to fit.
LEMMA CutFits ==
  ASSUME NEW log \in Logs, LogFits(log), NEW S, S = StartsIn(log, Len(log)),
         NEW k \in Positions, k \notin S, NEW start, StartOf(S, start, k),
         NEW sizes \in [Positions -> 0 .. N], SizesFit(S, sizes),
         NEW list \in Lists, LinksFit(log, list),
         NEW log2, OneMore(log, log2, start, k),
         NEW L, L = insert_index(list, start, k, sizes[start])
  PROVE  LogFits(log2) /\ L \in Lists /\ LinksFit(log2, L)
<1> DEFINE n == Len(log)
<1>1. S \in SUBSET Positions /\ start \in S /\ start \in Positions /\ n \in Nat
  <2>1. n \in Nat
    BY DEF Logs
  <2>2. S \in SUBSET Positions
    BY <2>1, StartsAreIndices
  <2> QED
    BY <2>1, <2>2 DEF StartOf
<1>2. /\ log2 \in Logs /\ Len(log2) = n + 1
      /\ \A i \in 1 .. n : log2[i] = log[i]
      /\ log2[n + 1] = <<start, k>>
      /\ \A i \in 0 .. n : StartsIn(log2, i) = StartsIn(log, i)
      /\ StartsIn(log2, n + 1) = S \cup {k}
  BY OneMoreStarts DEF OneMore
<1>3. /\ L \in Lists /\ Ring(Big(S \cup {k}), L)
      /\ SameLinksBeyond(Big(S) \cup {k, N - 1}, L, list)
      /\ k = start + 1 => SameLinks(L, list, start)
  BY <1>1, InsertKeepsRing DEF LinksFit
<1>4. S = StartsIn(log2, n)
  BY <1>1, <1>2
<1>s. S = StartsIn(log, n)
  OBVIOUS
<1>r. Ring(Big(S), list)
  BY DEF LinksFit
<1> HIDE DEF n
<1>5. LogFits(log2)
  <2> SUFFICES ASSUME NEW i \in 1 .. n + 1
               PROVE  /\ log2[i][2] \notin StartsIn(log2, i - 1)
                      /\ StartOf(StartsIn(log2, i - 1), log2[i][1], log2[i][2])
    BY <1>2 DEF LogFits
  <2>1. CASE i = n + 1
    <3>1. i - 1 = n
      BY <1>1, <2>1
    <3> QED
      BY <1>2, <1>4, <2>1, <3>1
  <2>2. CASE i # n + 1
    <3>1. i \in 1 .. n /\ i - 1 \in 0 .. n
      BY <1>1, <2>2
    <3> QED
      BY <1>2, <3>1 DEF LogFits, n
  <2> QED
    BY <2>1, <2>2
<1>6. LinksFit(log2, L)
  <2> SUFFICES ASSUME NEW i \in 1 .. n + 1, log2[i][2] = log2[i][1] + 1
               PROVE  Linked(Big(StartsIn(log2, i - 1)), L, log2[i][1])
    BY <1>2, <1>3 DEF LinksFit
  <2>1. CASE i = n + 1
    <3>1. i - 1 = n /\ log2[i] = <<start, k>> /\ k = start + 1
      BY <1>1, <1>2, <2>1
    <3>2. start \in Big(S)
      BY <1>1, <3>1, NPositive DEF Big, Positions
    <3>3. Linked(Big(S), list, start)
      BY <1>r, <3>2 DEF Ring
    <3>4. Linked(Big(S), L, start)
      BY <1>3, <3>1, <3>3, SameLinked
    <3> QED
      BY <1>4, <3>1, <3>4
  <2>2. CASE i # n + 1
    <3>1. i \in 1 .. n /\ i - 1 \in 0 .. n /\ i \in 0 .. n
      BY <1>1, <2>2
    <3> DEFINE x == log[i][1]
               T == StartsIn(log, i - 1)
    <3>2. log2[i] = log[i] /\ StartsIn(log2, i - 1) = T
      BY <1>2, <3>1
    <3>3. x \in T /\ x \in S /\ x \in Positions
      <4>1. x \in T
        BY <3>1 DEF LogFits, StartOf, n
      <4>2. T \subseteq S
        BY <1>1, <1>s, <3>1, StartsGrow DEF n
      <4> QED
        BY <1>1, <4>1, <4>2
    <3>4. x + 1 \in S
      <4>1. log[i][2] \in StartsIn(log, i)
        BY <3>1 DEF StartsIn
      <4>2. StartsIn(log, i) \subseteq S
        BY <1>1, <1>s, <3>1, StartsGrow DEF n
      <4> QED
        BY <3>2, <4>1, <4>2
    <3>5. Linked(Big(T), list, x)
      BY <3>1, <3>2 DEF LinksFit, n
    <3> HIDE DEF x, T
    <3>6. x \notin Big(S) /\ x # k /\ x # N - 1
      BY <1>1, <3>3, <3>4, NPositive DEF Big, Positions
    <3>7. SameLinks(L, list, x)
      BY <1>3, <3>3, <3>6 DEF SameLinksBeyond
    <3>8. Linked(Big(T), L, x)
      BY <3>5, <3>7, SameLinked
    <3> QED
      BY <3>2, <3>8 DEF x, T
  <2> QED
    BY <2>1, <2>2
<1> QED
  BY <1>3, <1>5, <1>6

\* The iterations of recover_level: the log without its last cut.
LEMMA UndoFits ==
  ASSUME NEW log \in Logs, LogFits(log), NEW log2, NEW start, NEW k, OneMore(log2, log, start, k),
         NEW S, S = StartsIn(log2, Len(log2)),
         NEW sizes \in [Positions -> 0 .. N], SizesFit(StartsIn(log, Len(log)), sizes),
         NEW list \in Lists, LinksFit(log, list),
         NEW L, L = erase_index(list, start, k, sizes[start], sizes[k])
  PROVE  /\ log2 \in Logs /\ LogFits(log2) /\ L \in Lists /\ LinksFit(log2, L)
         /\ S \in SUBSET Positions /\ k \in Positions /\ k \notin S /\ StartOf(S, start, k)
         /\ StartsIn(log, Len(log)) = S \cup {k} /\ Len(log2) \in Nat /\ Len(log) = Len(log2) + 1
<1> DEFINE n == Len(log2)
<1>1. /\ log2 \in Logs /\ n \in Nat /\ Len(log) = n + 1
      /\ \A i \in 1 .. n : log2[i] = log[i]
      /\ log[n + 1] = <<start, k>> /\ <<start, k>> \in Positions \X Positions
      /\ \A i \in 0 .. n : StartsIn(log2, i) = StartsIn(log, i)
      /\ StartsIn(log, Len(log)) = S \cup {k}
  <2>1. /\ log2 \in Logs /\ n \in Nat /\ Len(log) = n + 1
        /\ \A i \in 1 .. n : log2[i] = log[i]
        /\ log[n + 1] = <<start, k>> /\ <<start, k>> \in Positions \X Positions
    BY DEF OneMore
  <2>2. /\ \A i \in 0 .. n : StartsIn(log, i) = StartsIn(log2, i)
        /\ StartsIn(log, n + 1) = StartsIn(log2, n) \cup {k}
    BY OneMoreStarts
  <2>3. StartsIn(log, Len(log)) = S \cup {k}
    BY <2>1, <2>2
  <2> QED
    BY <2>1, <2>2, <2>3
<1>s. S = StartsIn(log2, n)
  OBVIOUS
<1> HIDE DEF n
<1>2. S = StartsIn(log, n)
  BY <1>1, <1>s
<1>3. S \in SUBSET Positions /\ k \in Positions /\ start \in Positions
  BY <1>1, <1>2, StartsAreIndices
<1>4. k \notin S /\ StartOf(S, start, k)
  <2>1. ASSUME NEW i \in 1 .. Len(log), i = n + 1
        PROVE  /\ log[i][2] \notin StartsIn(log, i - 1) /\ i - 1 = n
               /\ StartOf(StartsIn(log, i - 1), log[i][1], log[i][2])
    BY <1>1, <2>1 DEF LogFits
  <2> QED
    BY <1>1, <1>2, <2>1
<1>5. /\ Ring(Big(S \cup {k}), list)
      /\ k = start + 1 => Linked(Big(S), list, start)
  <2>1. ASSUME NEW i \in 1 .. Len(log), i = n + 1, log[i][2] = log[i][1] + 1
        PROVE  Linked(Big(StartsIn(log, i - 1)), list, log[i][1]) /\ i - 1 = n
    BY <1>1, <2>1 DEF LinksFit
  <2>2. Ring(Big(S \cup {k}), list)
    BY <1>1 DEF LinksFit
  <2> QED
    BY <1>1, <1>2, <2>1, <2>2
<1>6. SizesFit(S \cup {k}, sizes)
  BY <1>1
<1>7. /\ L \in Lists /\ Ring(Big(S), L)
      /\ SameLinksBeyond(Big(S) \cup {N - 1}, L, list)
  BY <1>3, <1>4, <1>5, <1>6, EraseKeepsRing
<1>8. LogFits(log2)
  <2> SUFFICES ASSUME NEW i \in 1 .. n
               PROVE  /\ log2[i][2] \notin StartsIn(log2, i - 1)
                      /\ StartOf(StartsIn(log2, i - 1), log2[i][1], log2[i][2])
    BY DEF LogFits, n
  <2>1. i \in 1 .. Len(log) /\ i - 1 \in 0 .. n
    BY <1>1
  <2> QED
    BY <1>1, <2>1 DEF LogFits
<1>9. LinksFit(log2, L)
  <2> SUFFICES ASSUME NEW i \in 1 .. n, log2[i][2] = log2[i][1] + 1
               PROVE  Linked(Big(StartsIn(log2, i - 1)), L, log2[i][1])
    BY <1>7, <1>s DEF LinksFit, n
  <2>1. i \in 1 .. Len(log) /\ i - 1 \in 0 .. n /\ i \in 0 .. n /\ i \in 0 .. Len(log)
    BY <1>1
  <2> DEFINE x == log[i][1]
             T == StartsIn(log, i - 1)
  <2>2. log2[i] = log[i] /\ StartsIn(log2, i - 1) = T
    BY <1>1, <2>1
  <2>3. x \in S /\ x \in Positions
    <3>1. x \in T
      BY <2>1 DEF LogFits, StartOf
    <3>2. T \subseteq S
      BY <1>1, <1>2, <2>1, StartsGrow
    <3> QED
      BY <1>3, <3>1, <3>2
  <2>4. x + 1 \in S
    <3>1. log[i][2] \in StartsIn(log, i)
      BY <2>1 DEF StartsIn
    <3>2. StartsIn(log, i) \subseteq S
      BY <1>1, <1>2, <2>1, StartsGrow
    <3> QED
      BY <2>2, <3>1, <3>2
  <2>5. Linked(Big(T), list, x)
    BY <2>1, <2>2 DEF LinksFit
  <2> HIDE DEF x, T
  <2>6. x \notin Big(S) /\ x # N - 1
    BY <1>3, <2>3, <2>4, NPositive DEF Big, Positions
  <2>7. SameLinks(L, list, x)
    BY <1>7, <2>3, <2>6 DEF SameLinksBeyond
  <2>8. Linked(Big(T), L, x)
    BY <2>5, <2>7, SameLinked
  <2> QED
    BY <2>2, <2>8 DEF x, T
<1> QED
  BY <1>1, <1>3, <1>4, <1>7, <1>8, <1>9 DEF n
-----------------------------------------------------------------------------
(* The inductive invariant *)

Cells == StartsIn(new_indices, Len(new_indices))

CellOf(i) == index_containing[elements[i]]

IndexRight(i) == StartOf(Cells, CellOf(i), i)

Permutes(f) ==
    /\ f \in [Positions -> Positions]
    /\ \A i, j \in Positions : f[i] = f[j] => i = j
    /\ \A u \in Positions : \E i \in Positions : f[i] = u

\* Cells, sizes and list fit the log of cuts at every step of every loop.
LogKept == LogFits(new_indices)
SizesKept == SizesFit(Cells, cell_sizes)
LinksKept == LinksFit(new_indices, nontrivial_list)
ElementsKept == Permutes(elements)

\* The levels account for the cuts that are not about to be undone.
LevelsKept ==
    /\ Len(new_indices_at_level) >= 1
    /\ SumOf(new_indices_at_level) + undo.count = Len(new_indices)

\* What is queued is not an index yet, and is in ascending order within each cell.
QueueKept ==
    /\ \A a \in 1 .. Len(new_index_queue) : new_index_queue[a] \notin Cells
    /\ \A a, b \in 1 .. Len(new_index_queue) :
           a < b /\ CellOf(new_index_queue[a]) = CellOf(new_index_queue[b])
           => new_index_queue[a] < new_index_queue[b]
    /\ pc = "commit" => new_index_queue # <<>>
    /\ pc = "recover" => new_index_queue = <<>>

LoopsKept ==
    /\ pc # "commit" => run = NoRun
    /\ pc # "recover" => undo = NoUndo

\* Elements carry the index of their cell, outside of the loops ...
LabelsKept == pc # "recover" /\ run = NoRun => \A i \in Positions : IndexRight(i)

\* ... while a cell is being cut, except for what follows the next cut, which has the
\* index of the cell as it was, ...
RunKept ==
    run # NoRun =>
        LET h == Head(new_index_queue)
            end == run.first + run.size
        IN  /\ run.first \in Cells /\ run.start \in Cells
            /\ run.first < run.start /\ run.start < h /\ h < end
            /\ run.start + cell_sizes[run.start] = end
            /\ \A i \in Positions : IF h <= i /\ i < end THEN CellOf(i) = run.first
                                                         ELSE IndexRight(i)

\* ... and while cuts are undone, except in the cells that were joined so far.
RecoverKept ==
    pc = "recover" =>
        /\ \A s \in Positions :
               IF s \in undo.start_indices
               THEN s \in Cells /\ cell_sizes[s] > 1 /\ undo.cell_end[s] = s + cell_sizes[s] - 1
               ELSE undo.cell_end[s] = 0
        /\ \A i \in Positions : (\E s \in undo.start_indices : StartOf(Cells, s, i)) \/ IndexRight(i)

CountKept == IsFiniteSet(Cells) /\ Cardinality(Cells) = Len(new_indices) + 1

Arrays ==
    /\ TypeOK /\ LogKept /\ SizesKept /\ LinksKept /\ ElementsKept /\ LevelsKept
    /\ QueueKept /\ LoopsKept /\ LabelsKept /\ RunKept /\ RecoverKept /\ CountKept

\* unit: one cell, which is in the list if it has more than one element.
LEMMA UnitFits ==
  ASSUME NEW log, log = <<>>, NEW sizes, sizes[0] = N, NEW list \in Lists,
         N > 1 => list[0] = Link(N - 1, N - 1) /\ list[N - 1] = Link(0, 0)
  PROVE  /\ log \in Logs /\ Len(log) = 0 /\ StartsIn(log, Len(log)) = {0}
         /\ LogFits(log) /\ SizesFit(StartsIn(log, Len(log)), sizes) /\ LinksFit(log, list)
<1>1. log \in Logs /\ Len(log) = 0
  BY DEF Logs
<1>2. StartsIn(log, Len(log)) = {0}
  BY <1>1 DEF StartsIn
<1>3. LogFits(log)
  BY <1>1 DEF LogFits
<1>4. SizesFit({0}, sizes)
  BY NPositive DEF SizesFit
<1>5. Ring(Big({0}), list)
  <2>1. CASE N > 1
    <3>1. Big({0}) = {0}
      BY <2>1, NPositive DEF Big
    <3>2. /\ NextOf(list, 0) = N - 1 /\ PrevOf(list, 0) = N - 1
          /\ NextOf(list, N - 1) = 0 /\ PrevOf(list, N - 1) = 0
      BY <2>1 DEF NextOf, PrevOf, Link
    <3> QED
      BY <2>1, <3>1, <3>2, NPositive DEF Ring, Linked, NextIn, PrevIn
  <2>2. CASE ~ (N > 1)
    <3>1. N = 1
      BY <2>2, NPositive
    <3>2. Big({0}) = {}
      BY <3>1 DEF Big
    <3>3. NextOf(list, 0) = 0 /\ PrevOf(list, 0) = 0
      <4>1. NextOf(list, 0) \in Positions /\ PrevOf(list, 0) \in Positions
        BY <3>1, NPositive, LinksArePositions
      <4> QED
        BY <3>1, <4>1 DEF Positions
    <3> QED
      BY <3>1, <3>2, <3>3 DEF Ring, NextIn, PrevIn
  <2> QED
    BY <2>1, <2>2
<1> QED
  BY <1>1, <1>2, <1>3, <1>4, <1>5 DEF LinksFit

\* All positions are in the cell of the unit partition.
LEMMA UnitRight ==
  ASSUME NEW i \in Positions
  PROVE  StartOf({0}, 0, i)
BY DEF StartOf, Positions

\* The unit partition with its arrays.
LEMMA UnitArrays ==
  ASSUME NEW e, e = [i \in Positions |-> i], NEW ix, ix = [u \in Positions |-> 0]
  PROVE  Permutes(e) /\ ix \in [Positions -> Positions] /\ \A i \in Positions : ix[e[i]] = 0
BY NPositive DEF Permutes, Positions

\* The unit partition has one cell.
LEMMA UnitCount == IsFiniteSet({0}) /\ Cardinality({0}) = 1
BY FS_Singleton

\* A new nest.
LEMMA InitArrays ==
  ASSUME Init
  PROVE  Arrays
<1> USE DEF Init
<1>1. TypeOK
  <2>1. elements \in [Positions -> Positions] /\ index_containing \in [Positions -> Positions]
    BY UnitArrays DEF Permutes
  <2>2. cell_sizes \in [Positions -> 0 .. N]
    BY NPositive
  <2>3. nontrivial_list \in [Positions -> [prev : Positions, next : Positions]]
    BY NPositive DEF Link, Positions
  <2>4. run \in [first : Positions, size : 0 .. N, start : Positions]
    BY NPositive DEF NoRun, Positions
  <2>5. undo \in [count : Nat, cell_end : [Positions -> Positions],
                 start_indices : SUBSET Positions]
    BY NPositive DEF NoUndo, Positions
  <2> QED
    BY <2>1, <2>2, <2>3, <2>4, <2>5 DEF TypeOK
<1>2. /\ new_indices \in Logs /\ Len(new_indices) = 0 /\ Cells = {0}
      /\ LogKept /\ SizesKept /\ LinksKept
  <2>1. nontrivial_list \in Lists
    BY <1>1 DEF TypeOK, Lists
  <2>2. cell_sizes[0] = N /\ 0 \in Positions
    BY NPositive DEF Positions
  <2>3. N > 1 => nontrivial_list[0] = Link(N - 1, N - 1) /\ nontrivial_list[N - 1] = Link(0, 0)
    BY NPositive DEF Positions
  <2> QED
    BY <2>1, <2>2, <2>3, UnitFits DEF Cells, LogKept, SizesKept, LinksKept
<1>3. ElementsKept
  BY UnitArrays DEF ElementsKept
<1>4. LevelsKept
  <2>1. SumOf(new_indices_at_level) = 0
    <3>1. SumOf(Append(<<>>, 0)) = SumOf(<<>>) + 0 /\ SumOf(<<>>) = 0
      <4>1. <<>> \in Seq(Nat) /\ Len(<<>>) = 0
        OBVIOUS
      <4> QED
        BY <4>1, SumAppend, SumOfNone
    <3> QED
      BY <3>1
  <2> QED
    BY <1>2, <2>1 DEF LevelsKept, NoUndo
<1>5. \A i \in Positions : IndexRight(i)
  BY <1>2, UnitRight, UnitArrays DEF IndexRight, CellOf
<1> QED
  BY <1>1, <1>2, <1>3, <1>4, <1>5, UnitCount
     DEF Arrays, QueueKept, LoopsKept, LabelsKept, RunKept, RecoverKept, CountKept

\* What holds between two calls.
LEMMA Idle ==
  ASSUME Arrays, pc = "idle"
  PROVE  run = NoRun /\ undo = NoUndo /\ \A i \in Positions : IndexRight(i)
BY DEF Arrays, LoopsKept, LabelsKept

\* unit, on arrays that an earlier use of the object left behind.
LEMMA UnitKeeps ==
  ASSUME Arrays, unit
  PROVE  Arrays'
<1>1. /\ pc = "idle" /\ UNCHANGED <<pc, run, undo>> /\ run = NoRun /\ undo = NoUndo
      /\ TypeOK /\ UnitFrom(cell_sizes, nontrivial_list)
  BY Idle DEF unit, Arrays
<1> USE DEF UnitFrom
<1>2. TypeOK'
  <2>1. (elements \in [Positions -> Positions] /\ index_containing \in [Positions -> Positions])'
    BY <1>1, UnitArrays DEF Permutes
  <2>2. (cell_sizes \in [Positions -> 0 .. N])'
    <3>1. N \in 0 .. N /\ cell_sizes \in [Positions -> 0 .. N]
      BY <1>1, NPositive DEF TypeOK
    <3> QED
      BY <1>1, <3>1
  <2>3. (nontrivial_list \in [Positions -> [prev : Positions, next : Positions]])'
    <3>1. 0 \in Positions /\ N - 1 \in Positions
      BY NPositive DEF Positions
    <3>2. Link(N - 1, N - 1) \in [prev : Positions, next : Positions]
          /\ Link(0, 0) \in [prev : Positions, next : Positions]
      BY <3>1 DEF Link
    <3> QED
      BY <1>1, <3>2 DEF TypeOK
  <2>4. (run \in [first : Positions, size : 0 .. N, start : Positions])'
    BY <1>1 DEF TypeOK
  <2>5. (undo \in [count : Nat, cell_end : [Positions -> Positions],
                  start_indices : SUBSET Positions])'
    BY <1>1 DEF TypeOK
  <2>6. (/\ new_index_queue \in Seq(Positions) /\ new_indices \in Seq(Positions \X Positions)
         /\ new_indices_at_level \in Seq(Nat) /\ pc \in {"idle", "commit", "recover", "exit"})'
    BY <1>1
  <2> QED
    BY <2>1, <2>2, <2>3, <2>4, <2>5, <2>6 DEF TypeOK
<1>3. (/\ new_indices \in Logs /\ Len(new_indices) = 0 /\ Cells = {0}
       /\ LogKept /\ SizesKept /\ LinksKept)'
  <2>1. (nontrivial_list \in Lists)'
    BY <1>2 DEF TypeOK, Lists
  <2>2. cell_sizes'[0] = N
    <3>1. 0 \in Positions
      BY NPositive DEF Positions
    <3> QED
      BY <1>1, <3>1 DEF TypeOK
  <2>3. N > 1 => nontrivial_list'[0] = Link(N - 1, N - 1) /\ nontrivial_list'[N - 1] = Link(0, 0)
    <3>1. 0 \in Positions /\ N - 1 \in Positions /\ (N > 1 => N - 1 # 0)
      BY NPositive DEF Positions
    <3> QED
      BY <1>1, <3>1 DEF TypeOK
  <2>4. new_indices' = <<>>
    BY <1>1
  <2> QED
    BY <2>1, <2>2, <2>3, <2>4, UnitFits DEF Cells, LogKept, SizesKept, LinksKept
<1>4. ElementsKept'
  BY <1>1, UnitArrays DEF ElementsKept
<1>5. LevelsKept'
  <2>1. SumOf(new_indices_at_level') = 0
    <3>1. SumOf(Append(<<>>, 0)) = SumOf(<<>>) + 0 /\ SumOf(<<>>) = 0
      <4>1. <<>> \in Seq(Nat) /\ Len(<<>>) = 0
        OBVIOUS
      <4> QED
        BY <4>1, SumAppend, SumOfNone
    <3> QED
      BY <1>1, <3>1
  <2> QED
    BY <1>1, <1>3, <2>1 DEF LevelsKept, NoUndo
<1>6. \A i \in Positions : IndexRight(i)'
  BY <1>1, <1>3, UnitRight, UnitArrays DEF IndexRight, CellOf
<1> QED
  BY <1>1, <1>2, <1>3, <1>4, <1>5, <1>6, UnitCount
     DEF Arrays, QueueKept, LoopsKept, LabelsKept, RunKept, RecoverKept, CountKept

SameLabels(ix, e, f) == \A x \in Positions : ix[f[x]] = ix[e[x]]

\* Exchanging two elements of one cell changes no label.
LEMMA SwapKeeps ==
  ASSUME NEW e, Permutes(e), NEW i \in Positions, NEW j \in Positions,
         NEW f, f = [e EXCEPT ![i] = e[j], ![j] = e[i]],
         NEW ix, ix[e[i]] = ix[e[j]]
  PROVE  Permutes(f) /\ SameLabels(ix, e, f)
<1>1. f \in [Positions -> Positions]
  BY DEF Permutes
<1>2. \A x \in Positions : f[x] = IF x = j THEN e[i] ELSE IF x = i THEN e[j] ELSE e[x]
  BY DEF Permutes
<1>3. \A x, y \in Positions : f[x] = f[y] => x = y
  BY <1>2 DEF Permutes
<1>4. ASSUME NEW u \in Positions PROVE \E x \in Positions : f[x] = u
  <2>1. PICK x \in Positions : e[x] = u
    BY DEF Permutes
  <2>2. f[IF x = i THEN j ELSE IF x = j THEN i ELSE x] = u
    BY <1>2, <2>1
  <2> QED
    BY <2>2
<1> QED
  BY <1>1, <1>2, <1>3, <1>4 DEF Permutes, SameLabels

\* A step that moves elements within their cells and may add to the queue.
LEMMA ReorderKeeps ==
  ASSUME Arrays, pc = "idle", Permutes(elements'), \A x \in Positions : CellOf(x)' = CellOf(x),
         UNCHANGED <<index_containing, cell_sizes, new_indices, new_indices_at_level,
                     nontrivial_list, run, undo>>,
         pc' \in {"idle", "commit"}, new_index_queue' \in Seq(Positions), QueueKept'
  PROVE  Arrays'
<1>1. /\ TypeOK /\ run = NoRun /\ undo = NoUndo /\ Cells' = Cells
      /\ \A i \in Positions : IndexRight(i)
  BY Idle DEF Arrays, Cells
<1>2. TypeOK'
  BY <1>1 DEF TypeOK, Permutes
<1>3. \A i \in Positions : IndexRight(i)'
  BY <1>1 DEF IndexRight
<1>4. (LogKept /\ SizesKept /\ LinksKept /\ LevelsKept /\ CountKept)'
  BY <1>1 DEF Arrays, LogKept, SizesKept, LinksKept, LevelsKept, CountKept
<1>5. (LoopsKept /\ LabelsKept /\ RunKept /\ RecoverKept)'
  BY <1>1, <1>3 DEF LoopsKept, LabelsKept, RunKept, RecoverKept
<1> QED
  BY <1>2, <1>4, <1>5 DEF Arrays, ElementsKept

\* Callers reorder elements within their cells.
LEMMA SwapInCellKeeps ==
  ASSUME Arrays, NEW i \in Positions, NEW j \in Positions, SwapInCell(i, j)
  PROVE  Arrays'
<1>1. /\ pc = "idle" /\ Permutes(elements) /\ QueueKept /\ TypeOK
      /\ elements' = [elements EXCEPT ![i] = elements[j], ![j] = elements[i]]
      /\ index_containing[elements[i]] = index_containing[elements[j]]
  BY DEF SwapInCell, Arrays, ElementsKept
<1>2. Permutes(elements') /\ \A x \in Positions : CellOf(x)' = CellOf(x)
  <2>1. Permutes(elements') /\ SameLabels(index_containing, elements, elements')
    BY <1>1, SwapKeeps
  <2> QED
    BY <2>1 DEF CellOf, SwapInCell, SameLabels
<1>3. QueueKept'
  <2>1. \A a \in 1 .. Len(new_index_queue) : new_index_queue[a] \in Positions
    BY <1>1 DEF TypeOK
  <2>2. Cells' = Cells /\ UNCHANGED <<new_index_queue, pc>>
    BY DEF SwapInCell, Cells
  <2> QED
    BY <1>1, <1>2, <2>1, <2>2 DEF QueueKept
<1> QED
  BY <1>1, <1>2, <1>3, ReorderKeeps DEF SwapInCell, TypeOK

\* An index that is asked for is not one yet, and comes after those of its cell.
LEMMA QueueGrows ==
  ASSUME Arrays, pc = "idle", NEW k \in Positions, k \notin Cells, InOrder(k),
         \A x \in Positions : CellOf(x)' = CellOf(x), UNCHANGED new_indices,
         new_index_queue' = Append(new_index_queue, k), pc' \in {"idle", "commit"}
  PROVE  QueueKept' /\ new_index_queue' \in Seq(Positions)
<1>1. QueueKept /\ TypeOK /\ Cells' = Cells
  BY DEF Arrays, Cells
<1>2. PICK n \in Nat : n = Len(new_index_queue)
  BY <1>1 DEF TypeOK
<1>3. /\ new_index_queue' \in Seq(Positions) /\ Len(new_index_queue') = n + 1
      /\ \A a \in 1 .. n : /\ new_index_queue'[a] = new_index_queue[a]
                           /\ new_index_queue[a] \in Positions
      /\ new_index_queue'[n + 1] = k
  BY <1>1, <1>2 DEF TypeOK
<1>4. \A a \in 1 .. n : CellOf(new_index_queue[a]) = CellOf(k) => new_index_queue[a] < k
  BY <1>2 DEF InOrder, CellOf, Range
<1>5. (\A a \in 1 .. Len(new_index_queue) : new_index_queue[a] \notin Cells)'
  BY <1>1, <1>2, <1>3 DEF QueueKept
<1>6. (\A a, b \in 1 .. Len(new_index_queue) :
          a < b /\ CellOf(new_index_queue[a]) = CellOf(new_index_queue[b])
          => new_index_queue[a] < new_index_queue[b])'
  <2> SUFFICES ASSUME NEW a \in 1 .. n + 1, NEW b \in 1 .. n + 1, a < b,
                      NEW x, x = new_index_queue'[a], NEW y, y = new_index_queue'[b],
                      CellOf(x)' = CellOf(y)'
               PROVE  x < y
    BY <1>3 DEF CellOf
  <2>0. x \in Positions /\ y \in Positions /\ CellOf(x) = CellOf(y)
    <3>1. \A c \in 1 .. n + 1 : new_index_queue'[c] \in Positions
      BY <1>3
    <3> QED
      BY <3>1
  <2>1. a \in 1 .. n
    OBVIOUS
  <2>2. CASE b = n + 1
    BY <1>2, <1>3, <1>4, <2>0, <2>1, <2>2
  <2>3. CASE b # n + 1
    <3>1. b \in 1 .. n
      BY <2>3
    <3> QED
      BY <1>1, <1>2, <1>3, <2>0, <2>1, <3>1 DEF QueueKept
  <2> QED
    BY <2>2, <2>3
<1>7. new_index_queue' # <<>>
  BY <1>3
<1> QED
  BY <1>3, <1>5, <1>6, <1>7 DEF QueueKept

\* A cell has the positions from its start up to its size.
LEMMA StartReaches ==
  ASSUME NEW S \in SUBSET Positions, NEW sizes, SizesFit(S, sizes), NEW i \in Positions, NEW s
  PROVE  StartOf(S, s, i) <=>
            /\ s \in S /\ s \in Positions /\ sizes[s] \in 1 .. N
            /\ s <= i /\ i < s + sizes[s] /\ s + sizes[s] <= N
<1>1. ASSUME s \in S
      PROVE  /\ s \in Positions /\ sizes[s] \in 1 .. N
             /\ s + sizes[s] = N \/ s + sizes[s] \in S
             /\ \A t \in S : s < t => s + sizes[s] <= t
  BY <1>1 DEF SizesFit
<1>2. ASSUME StartOf(S, s, i)
      PROVE  s \in S /\ s <= i /\ i < s + sizes[s] /\ s + sizes[s] <= N
  BY <1>1, <1>2, NPositive DEF StartOf, Positions
<1>3. ASSUME s \in S, s <= i, i < s + sizes[s]
      PROVE  StartOf(S, s, i)
  BY <1>1, <1>3, NPositive DEF StartOf, Positions
<1> QED
  BY <1>1, <1>2, <1>3

\* A position is in one cell.
LEMMA StartIsUnique ==
  ASSUME NEW S \in SUBSET Positions, NEW i \in Positions, NEW s, NEW t,
         StartOf(S, s, i), StartOf(S, t, i)
  PROVE  s = t
BY DEF StartOf, Positions

\* A start is in its own cell.
LEMMA StartOfItself ==
  ASSUME NEW S \in SUBSET Positions, NEW s \in S
  PROVE  StartOf(S, s, s)
BY DEF StartOf, Positions

\* The types of what the cells are computed from.
LEMMA CellsAreIndices ==
  ASSUME TypeOK
  PROVE  /\ Cells \in SUBSET Positions /\ 0 \in Cells
         /\ new_indices \in Logs /\ nontrivial_list \in Lists /\ Len(new_indices) \in Nat
<1>1. new_indices \in Logs /\ nontrivial_list \in Lists /\ Len(new_indices) \in Nat
  BY DEF TypeOK, Logs, Lists
<1> QED
  BY <1>1, StartsAreIndices DEF Cells

\* Between two calls is_index tells the cells.
LEMMA IndicesAreCells ==
  ASSUME Arrays, pc = "idle", NEW k \in Positions
  PROVE  is_index(k) <=> k \in Cells
<1>1. IndexRight(k) /\ Cells \in SUBSET Positions
  BY Idle, CellsAreIndices DEF Arrays
<1>2. ASSUME k \in Cells PROVE is_index(k)
  BY <1>1, <1>2, StartOfItself, StartIsUnique DEF IndexRight, is_index, CellOf
<1>3. ASSUME is_index(k) PROVE k \in Cells
  BY <1>1, <1>3 DEF IndexRight, is_index, CellOf, StartOf
<1> QED
  BY <1>2, <1>3

\* enqueue_new_index
LEMMA EnqueueKeeps ==
  ASSUME Arrays, NEW k \in Positions, enqueue_new_index(k)
  PROVE  Arrays'
<1>1. pc = "idle" /\ pc' = "idle" /\ k \notin Cells /\ InOrder(k)
  BY IndicesAreCells DEF enqueue_new_index
<1>2. /\ Permutes(elements') /\ \A x \in Positions : CellOf(x)' = CellOf(x)
      /\ UNCHANGED <<index_containing, cell_sizes, new_indices, new_indices_at_level,
                     nontrivial_list, run, undo>>
  BY DEF enqueue_new_index, partition, CellOf, Arrays, ElementsKept
<1>3. QueueKept' /\ new_index_queue' \in Seq(Positions)
  BY <1>1, <1>2, QueueGrows DEF enqueue_new_index
<1> QED
  BY <1>1, <1>2, <1>3, ReorderKeeps

\* breakout swaps the element with the first of its cell; the place after it is no index.
LEMMA BreakoutSwaps ==
  ASSUME Arrays, NEW u \in Positions, breakout(u), NEW k, k = index_containing[u]
  PROVE  /\ k \in Positions /\ k + 1 \in Positions /\ k + 1 \notin Cells
         /\ \E i \in Positions :
                /\ elements' = [elements EXCEPT ![k] = elements[i], ![i] = elements[k]]
                /\ CellOf(k) = CellOf(i)
<1> DEFINE i == CHOOSE i \in CellAt(k) : elements[i] = u
<1>1. /\ pc = "idle" /\ cell_sizes[k] > 1
      /\ elements' = [elements EXCEPT ![k] = u, ![i] = elements[k]]
  BY DEF breakout
<1>2. /\ TypeOK /\ Permutes(elements) /\ SizesFit(Cells, cell_sizes) /\ Cells \in SUBSET Positions
      /\ \A x \in Positions : IndexRight(x)
  BY <1>1, Idle, CellsAreIndices DEF Arrays, ElementsKept, SizesKept
<1>3. PICK p \in Positions : elements[p] = u
  BY <1>2 DEF Permutes
<1>4. StartOf(Cells, k, p)
  BY <1>2, <1>3 DEF IndexRight, CellOf
<1>5. /\ k \in Cells /\ k \in Positions /\ cell_sizes[k] \in 1 .. N /\ k <= p
      /\ p < k + cell_sizes[k] /\ k + cell_sizes[k] <= N
  BY <1>2, <1>4, StartReaches
<1>6. p \in CellAt(k)
  BY <1>5, NPositive DEF CellAt, Positions
<1>7. i \in CellAt(k) /\ elements[i] = u
  BY <1>3, <1>6
<1> HIDE DEF i
<1>8. i \in Positions
  BY <1>5, <1>7, NPositive DEF CellAt, Positions
<1>9. index_containing[elements[k]] = k
  <2>1. is_index(k)
    BY <1>1, <1>5, IndicesAreCells
  <2> QED
    BY <2>1 DEF is_index
<1>10. /\ elements' = [elements EXCEPT ![k] = elements[i], ![i] = elements[k]]
       /\ CellOf(k) = CellOf(i)
  BY <1>1, <1>7, <1>9 DEF CellOf
<1>11. k + 1 \in Positions /\ k + 1 \notin Cells
  <2>1. k + 1 \in Cells => k + cell_sizes[k] <= k + 1
    BY <1>2, <1>5, NPositive DEF SizesFit, Positions
  <2> QED
    BY <1>1, <1>5, <2>1, NPositive DEF Positions
<1> QED
  BY <1>5, <1>8, <1>10, <1>11

\* breakout asks for a cut after the element.
LEMMA BreakoutKeeps ==
  ASSUME Arrays, NEW u \in Positions, breakout(u)
  PROVE  Arrays'
<1>1. PICK k \in Positions, i \in Positions :
          /\ k = index_containing[u] /\ k + 1 \in Positions /\ k + 1 \notin Cells
          /\ elements' = [elements EXCEPT ![k] = elements[i], ![i] = elements[k]]
          /\ CellOf(k) = CellOf(i)
  BY BreakoutSwaps
<1>2. /\ pc = "idle" /\ pc' = "commit" /\ InOrder(k + 1)
      /\ new_index_queue' = Append(new_index_queue, k + 1)
      /\ UNCHANGED <<index_containing, cell_sizes, new_indices, new_indices_at_level,
                     nontrivial_list, run, undo>>
  BY <1>1 DEF breakout
<1>3. Permutes(elements') /\ \A x \in Positions : CellOf(x)' = CellOf(x)
  <2>1. Permutes(elements) /\ index_containing[elements[k]] = index_containing[elements[i]]
    BY <1>1 DEF Arrays, ElementsKept, CellOf
  <2>2. Permutes(elements') /\ SameLabels(index_containing, elements, elements')
    BY <1>1, <2>1, SwapKeeps
  <2> QED
    BY <1>2, <2>2 DEF CellOf, SameLabels
<1>4. QueueKept' /\ new_index_queue' \in Seq(Positions)
  BY <1>1, <1>2, <1>3, QueueGrows
<1> QED
  BY <1>2, <1>3, <1>4, ReorderKeeps

\* commit_pending_indices begins.
LEMMA BeginCommitKeeps ==
  ASSUME Arrays, commit_pending_indices
  PROVE  Arrays'
<1>1. /\ pc = "idle" /\ pc' = "commit" /\ new_index_queue # <<>>
      /\ UNCHANGED <<partition, new_index_queue, new_indices_at_level, run, undo>>
  BY DEF commit_pending_indices
<1>2. /\ Permutes(elements') /\ \A x \in Positions : CellOf(x)' = CellOf(x)
      /\ UNCHANGED <<index_containing, cell_sizes, new_indices, new_indices_at_level,
                     nontrivial_list, run, undo>>
  BY <1>1 DEF partition, CellOf, Arrays, ElementsKept
<1>3. QueueKept' /\ new_index_queue' \in Seq(Positions)
  BY <1>1, <1>2 DEF QueueKept, Arrays, CellOf, Cells, TypeOK, partition
<1> QED
  BY <1>1, <1>2, <1>3, ReorderKeeps

\* breakout on a cell of one element ends the program.
LEMMA ExitKeeps ==
  ASSUME Arrays, NEW u \in Positions, BreakoutExits(u)
  PROVE  Arrays'
<1>1. /\ pc = "idle" /\ pc' = "exit"
      /\ UNCHANGED <<partition, new_index_queue, new_indices_at_level, run, undo>>
  BY DEF BreakoutExits
<1>2. /\ Cells' = Cells /\ \A i \in Positions : IndexRight(i)' <=> IndexRight(i)
      /\ run = NoRun /\ undo = NoUndo /\ \A i \in Positions : IndexRight(i)
  BY <1>1, Idle DEF partition, Cells, IndexRight, CellOf
<1> QED
  BY <1>1, <1>2 DEF partition, Arrays, TypeOK, LogKept, SizesKept, LinksKept, ElementsKept,
     LevelsKept, QueueKept, LoopsKept, LabelsKept, RunKept, RecoverKept, CountKept, CellOf

\* advance_level opens a level without cuts.
LEMMA AdvanceKeeps ==
  ASSUME Arrays, advance_level
  PROVE  Arrays'
<1>1. /\ pc = "idle" /\ new_indices_at_level' = Append(new_indices_at_level, 0)
      /\ UNCHANGED <<partition, new_index_queue, pc, run, undo>>
  BY DEF advance_level
<1>2. /\ Cells' = Cells /\ \A i \in Positions : IndexRight(i)' <=> IndexRight(i)
      /\ run = NoRun /\ undo = NoUndo /\ \A i \in Positions : IndexRight(i)
  BY <1>1, Idle DEF partition, Cells, IndexRight, CellOf
<1>3. /\ new_indices_at_level \in Seq(Nat) /\ new_indices_at_level' \in Seq(Nat)
      /\ Len(new_indices_at_level') = Len(new_indices_at_level) + 1
      /\ Len(new_indices_at_level) \in Nat
  BY <1>1 DEF Arrays, TypeOK
<1>4. LevelsKept'
  <2>1. /\ SumOf(new_indices_at_level) \in Nat
        /\ SumOf(new_indices_at_level') = SumOf(new_indices_at_level) + 0
    BY <1>1, <1>3, SumAppend
  <2> QED
    BY <1>1, <1>3, <2>1 DEF LevelsKept, Arrays, partition
<1>5. TypeOK'
  BY <1>1, <1>3 DEF Arrays, TypeOK, partition
<1> QED
  BY <1>1, <1>2, <1>4, <1>5 DEF partition, Arrays, LogKept, SizesKept, LinksKept, ElementsKept,
     QueueKept, LoopsKept, LabelsKept, RunKept, RecoverKept, CountKept, CellOf

\* Cutting the levels in two cuts their sum in two.
LEMMA PartsOfLevels ==
  ASSUME NEW s \in Seq(Nat), NEW m \in 0 .. Len(s) - 1, NEW low, low = SubSeq(s, 1, m + 1),
         NEW high, high = SubSeq(s, m + 2, Len(s))
  PROVE  /\ low \in Seq(Nat) /\ Len(low) = m + 1
         /\ SumOf(low) \in Nat /\ SumOf(high) \in Nat /\ SumOf(low) + SumOf(high) = SumOf(s)
<1>1. PICK k \in Nat : k = Len(s)
  OBVIOUS
<1>2. ASSUME NEW n, n = m + 1
      PROVE  /\ low \in Seq(Nat) /\ Len(low) = n
             /\ SumOf(low) \in Nat /\ SumOf(high) \in Nat /\ SumOf(low) + SumOf(high) = SumOf(s)
  <2>1. n \in 0 .. Len(s) /\ n + 1 = m + 2 /\ n \in Nat
    BY <1>1, <1>2
  <2>2. low = SubSeq(s, 1, n) /\ high = SubSeq(s, n + 1, Len(s))
    BY <1>2, <2>1
  <2>3. low \in Seq(Nat) /\ Len(low) = n
    <3>1. 1 \in 1 .. Len(s) + 1 /\ n \in 1 - 1 .. Len(s)
      BY <1>1, <2>1
    <3> QED
      BY <2>1, <2>2, <3>1, SubSeqProperties
  <2> QED
    BY <2>1, <2>2, <2>3, SumOfParts
<1> QED
  BY <1>2

\* recover_level counts the cuts to undo; nothing is joined yet.
LEMMA BeginRecoverKeeps ==
  ASSUME Arrays, NEW m \in 0 .. level, recover_level(m)
  PROVE  Arrays'
<1> DEFINE high == SubSeq(new_indices_at_level, m + 2, level + 1)
<1>1. /\ pc = "idle" /\ pc' = "recover" /\ new_index_queue' = <<>>
      /\ new_indices_at_level' = SubSeq(new_indices_at_level, 1, m + 1)
      /\ undo' = [NoUndo EXCEPT !.count = SumOf(high)]
      /\ UNCHANGED <<partition, run>>
  BY DEF recover_level
<1>2. /\ Cells' = Cells /\ \A i \in Positions : IndexRight(i)' <=> IndexRight(i)
      /\ run = NoRun /\ undo = NoUndo /\ \A i \in Positions : IndexRight(i)
      /\ TypeOK /\ LevelsKept
  BY <1>1, Idle DEF partition, Cells, IndexRight, CellOf, Arrays
<1>3. /\ new_indices_at_level \in Seq(Nat) /\ Len(new_indices_at_level) \in Nat
      /\ level = Len(new_indices_at_level) - 1 /\ Len(new_indices) \in Nat
  BY <1>2 DEF TypeOK, level
<1>4. /\ new_indices_at_level' \in Seq(Nat) /\ Len(new_indices_at_level') = m + 1
      /\ SumOf(new_indices_at_level') \in Nat /\ SumOf(high) \in Nat
      /\ SumOf(new_indices_at_level') + SumOf(high) = SumOf(new_indices_at_level)
  <2>1. level + 1 = Len(new_indices_at_level) /\ m \in 0 .. Len(new_indices_at_level) - 1
    BY <1>3
  <2>2. high = SubSeq(new_indices_at_level, m + 2, Len(new_indices_at_level))
    BY <2>1
  <2> HIDE DEF high
  <2> QED
    BY <1>1, <1>3, <2>1, <2>2, PartsOfLevels
<1> HIDE DEF high
<1>5. /\ undo'.count = SumOf(high) /\ undo'.cell_end = [i \in Positions |-> 0]
      /\ undo'.start_indices = {}
      /\ undo' \in [count : Nat, cell_end : [Positions -> Positions],
                    start_indices : SUBSET Positions]
  <2>1. 0 \in Positions
    BY NPositive DEF Positions
  <2> QED
    BY <1>1, <1>4, <2>1 DEF NoUndo
<1>6. TypeOK'
  <2>1. UNCHANGED <<elements, index_containing, cell_sizes, new_indices, nontrivial_list, run>>
    BY <1>1 DEF partition
  <2>2. new_index_queue' \in Seq(Positions)
    BY <1>1
  <2> QED
    BY <1>1, <1>2, <1>4, <1>5, <2>1, <2>2 DEF TypeOK
<1>7. LevelsKept'
  <2>1. undo.count = 0
    BY <1>2 DEF NoUndo
  <2> QED
    BY <1>1, <1>2, <1>3, <1>4, <1>5, <2>1 DEF LevelsKept, partition
<1>8. RecoverKept'
  BY <1>1, <1>2, <1>5 DEF RecoverKept
<1> QED
  BY <1>1, <1>2, <1>6, <1>7, <1>8 DEF partition, Arrays, LogKept, SizesKept, LinksKept,
     ElementsKept, QueueKept, LoopsKept, LabelsKept, RunKept, CountKept

\* backup_level recovers the level below.
LEMMA BackupKeeps ==
  ASSUME Arrays, backup_level
  PROVE  Arrays'
<1>1. level \in Int
  BY DEF Arrays, TypeOK, level
<1>2. level > 0 /\ recover_level(level - 1) /\ level - 1 \in 0 .. level
  BY <1>1 DEF backup_level
<1> QED
  BY <1>2, BeginRecoverKeeps

\* What an iteration of commit_pending_indices knows of the cell that it cuts.
RunFits(r, h) ==
    /\ r \in [first : Positions, size : 0 .. N, start : Positions] /\ h \in Positions
    /\ r.first \in Cells /\ r.start \in Cells
    /\ r.first <= r.start /\ r.start < h /\ h < r.first + r.size /\ r.first + r.size <= N
    /\ r.start + cell_sizes[r.start] = r.first + r.size
    /\ \A i \in Positions : IF h <= i /\ i < r.first + r.size THEN CellOf(i) = r.first
                                                              ELSE IndexRight(i)

\* The head of the queue is not an index yet.
LEMMA QueueIsNotEmpty ==
  ASSUME Arrays, pc = "commit"
  PROVE  /\ new_index_queue # <<>> /\ Head(new_index_queue) \in Positions
         /\ Head(new_index_queue) \notin Cells
<1>1. new_index_queue # <<>> /\ new_index_queue \in Seq(Positions)
      /\ \A a \in 1 .. Len(new_index_queue) : new_index_queue[a] \notin Cells
  BY DEF Arrays, QueueKept, TypeOK
<1>2. /\ 1 \in 1 .. Len(new_index_queue) /\ Head(new_index_queue) = new_index_queue[1]
      /\ Head(new_index_queue) \in Positions
  BY <1>1
<1> QED
  BY <1>1, <1>2

\* The cell being cut is what the run says, or a new one with its labels in place.
LEMMA RunOfHead ==
  ASSUME Arrays, pc = "commit", NEW h, h = Head(new_index_queue)
  PROVE  RunFits(CurrentRun, h)
<1>1. /\ Cells \in SUBSET Positions /\ SizesFit(Cells, cell_sizes) /\ h \in Positions
      /\ h \notin Cells /\ TypeOK
  BY QueueIsNotEmpty, CellsAreIndices DEF Arrays, SizesKept
<1>2. CASE run = NoRun
  <2> DEFINE f == CellOf(h)
  <2>1. CurrentRun = [first |-> f, size |-> cell_sizes[f], start |-> f]
    BY <1>2 DEF CurrentRun, CellOf
  <2>2. \A i \in Positions : IndexRight(i)
    BY <1>2 DEF Arrays, LabelsKept
  <2>3. \A i \in Positions : StartOf(Cells, CellOf(i), i)
    BY <2>2 DEF IndexRight
  <2>4. /\ f \in Cells /\ f \in Positions /\ cell_sizes[f] \in 1 .. N
        /\ f <= h /\ h < f + cell_sizes[f] /\ f + cell_sizes[f] <= N
    BY <1>1, <2>3, StartReaches
  <2> HIDE DEF f
  <2>5. f < h
    BY <1>1, <2>4 DEF Positions
  <2>6. ASSUME NEW i \in Positions, h <= i, i < f + cell_sizes[f]
        PROVE  CellOf(i) = f
    <3>1. f <= i
      BY <1>1, <2>4, <2>6 DEF Positions
    <3>2. StartOf(Cells, f, i)
      BY <1>1, <2>4, <2>6, <3>1, StartReaches
    <3> QED
      BY <1>1, <2>3, <3>2, StartIsUnique
  <2>7. CurrentRun \in [first : Positions, size : 0 .. N, start : Positions]
    BY <2>1, <2>4
  <2>8. CurrentRun.first = f /\ CurrentRun.size = cell_sizes[f] /\ CurrentRun.start = f
    BY <2>1
  <2>9. f <= f
    BY <2>4 DEF Positions
  <2> QED
    BY <1>1, <2>2, <2>4, <2>5, <2>6, <2>7, <2>8, <2>9 DEF RunFits
<1>3. CASE run # NoRun
  <2>1. CurrentRun = run /\ run \in [first : Positions, size : 0 .. N, start : Positions]
    BY <1>1, <1>3 DEF CurrentRun, TypeOK
  <2>2. /\ run.first \in Cells /\ run.start \in Cells
        /\ run.first < run.start /\ run.start < h /\ h < run.first + run.size
        /\ run.start + cell_sizes[run.start] = run.first + run.size
        /\ \A i \in Positions : IF h <= i /\ i < run.first + run.size
                                 THEN CellOf(i) = run.first ELSE IndexRight(i)
    BY <1>3 DEF Arrays, RunKept
  <2>3. run.first + run.size = N \/ run.first + run.size \in Cells
    BY <1>1, <2>2 DEF SizesFit
  <2>4. run.first + run.size <= N /\ run.first <= run.start
    BY <1>1, <2>1, <2>2, <2>3, NPositive DEF Positions
  <2> QED
    BY <1>1, <2>1, <2>2, <2>4 DEF RunFits
<1> QED
  BY <1>2, <1>3

\* commit_index writes the labels of the positions from k to k_next.
Labelled(e, ix, k, m) ==
    [u \in Positions |-> IF \E i \in k .. m - 1 : e[i] = u THEN k ELSE ix[u]]

\* What that does to the labels of positions.
LEMMA NewLabels ==
  ASSUME NEW e, Permutes(e), NEW ix \in [Positions -> Positions], NEW k \in Positions,
         NEW m \in Int, m <= N,
         NEW ix2, ix2 = Labelled(e, ix, k, m)
  PROVE  /\ ix2 \in [Positions -> Positions]
         /\ \A i \in Positions : ix2[e[i]] = IF k <= i /\ i < m THEN k ELSE ix[e[i]]
<1>1. k .. m - 1 \subseteq Positions /\ \A i \in Positions : e[i] \in Positions
  <2>1. N \in Nat /\ k \in Nat
    BY NPositive DEF Positions
  <2>2. k .. m - 1 \subseteq 0 .. N - 1
    BY <2>1
  <2> QED
    BY <2>2 DEF Positions, Permutes
<1>2. ix2 \in [Positions -> Positions]
  BY DEF Labelled
<1>3. ASSUME NEW i \in Positions
      PROVE  ix2[e[i]] = IF k <= i /\ i < m THEN k ELSE ix[e[i]]
  <2>1. (\E j \in k .. m - 1 : e[j] = e[i]) <=> i \in k .. m - 1
    BY <1>1 DEF Permutes
  <2>2. i \in k .. m - 1 <=> k <= i /\ i < m
    BY DEF Positions
  <2> QED
    BY <1>1, <2>1, <2>2 DEF Labelled
<1> QED
  BY <1>2, <1>3

\* The cut at k, up to m: what commit_index does to the labels.
LEMMA CutLabels ==
  ASSUME NEW S \in SUBSET Positions, NEW k \in Positions, k \notin S, NEW sizes,
         SizesFit(S, sizes), NEW sizes2, SizesFit(S \cup {k}, sizes2),
         NEW end \in Int, end = N \/ end \in S, NEW m \in Int, k < m, m <= end,
         k + sizes2[k] = end, NEW i \in Positions, NEW c
  PROVE  /\ k <= i /\ i < m => StartOf(S \cup {k}, k, i)
         /\ ~ (k <= i /\ i < end) /\ StartOf(S, c, i) => StartOf(S \cup {k}, c, i)
<1>1. S \cup {k} \in SUBSET Positions /\ k \in S \cup {k} /\ N \in Nat /\ i \in Nat /\ k \in Nat
      /\ i < N
  BY NPositive DEF Positions
<1>2. ASSUME k <= i, i < m
      PROVE  StartOf(S \cup {k}, k, i)
  <2>1. sizes2[k] \in 1 .. N
    BY <1>1 DEF SizesFit
  <2>2. k + sizes2[k] <= N /\ i < k + sizes2[k]
    BY <1>1, <1>2, <2>1 DEF Positions
  <2> QED
    BY <1>1, <1>2, <2>1, <2>2, StartReaches
<1>3. ASSUME ~ (k <= i /\ i < end), StartOf(S, c, i)
      PROVE  StartOf(S \cup {k}, c, i)
  <2>1. c \in S /\ c <= i /\ c \in Int /\ \A t \in S : t <= i => t <= c
    BY <1>3 DEF StartOf, Positions
  <2>2. k <= i => k <= c
    <3>1. k <= i => end <= i /\ end \in S
      BY <1>1, <1>3
    <3> QED
      BY <1>1, <2>1, <3>1
  <2> QED
    BY <2>1, <2>2 DEF StartOf
<1> QED
  BY <1>2, <1>3

\* commit_index makes an index of h, in the cell of r, and labels what comes before m.
CutDone(r, h, m) ==
    /\ Cells' = Cells \cup {h} /\ h + cell_sizes'[h] = r.first + r.size
    /\ index_containing' \in [Positions -> Positions]
    /\ \A i \in Positions :
           /\ CellOf(i)' = IF h <= i /\ i < m THEN h ELSE CellOf(i)
           /\ h <= i /\ i < m => StartOf(Cells', h, i)
           /\ ~ (h <= i /\ i < r.first + r.size) => StartOf(Cells', CellOf(i), i)

\* commit_index, with all that it calls.
LEMMA CommitCuts ==
  ASSUME Arrays, pc = "commit", NEW h, h = Head(new_index_queue), NEW r, RunFits(r, h),
         NEW m \in Int, h < m, m <= r.first + r.size, commit_index(r.start, h, m),
         UNCHANGED <<elements, undo>>
  PROVE  /\ CutDone(r, h, m)
         /\ (LogKept /\ SizesKept /\ LinksKept /\ ElementsKept /\ LevelsKept /\ CountKept)'
         /\ new_indices' \in Seq(Positions \X Positions) /\ cell_sizes' \in [Positions -> 0 .. N]
         /\ nontrivial_list' \in [Positions -> [prev : Positions, next : Positions]]
         /\ new_indices_at_level' \in Seq(Nat)
<1> DEFINE start == r.start
           end == r.first + r.size
           log == new_indices
           log2 == new_indices'
           S == Cells
<1>1. /\ S \in SUBSET Positions /\ log \in Logs /\ nontrivial_list \in Lists /\ h \notin S
      /\ TypeOK /\ LogFits(log) /\ SizesFit(S, cell_sizes) /\ LinksFit(log, nontrivial_list)
      /\ Permutes(elements) /\ LevelsKept /\ CountKept
  BY QueueIsNotEmpty, CellsAreIndices DEF Arrays, LogKept, SizesKept, LinksKept, ElementsKept
<1>2. /\ start \in S /\ start \in Positions /\ h \in Positions /\ start < h /\ h < end /\ end <= N
      /\ start + cell_sizes[start] = end /\ end \in Int
  BY <1>1 DEF RunFits, Positions
<1>3. StartOf(S, start, h)
  <2>1. cell_sizes[start] \in 1 .. N /\ start <= h
    BY <1>1, <1>2 DEF SizesFit, Positions
  <2> QED
    BY <1>1, <1>2, <2>1, StartReaches
<1>4. /\ index_containing' = [u \in Positions |->
             IF \E i \in h .. m - 1 : elements[i] = u THEN h ELSE index_containing[u]]
      /\ cell_sizes' = [cell_sizes EXCEPT ![start] = h - start,
                                          ![h] = cell_sizes[start] - (h - start)]
      /\ log2 = Append(log, <<start, h>>)
      /\ new_indices_at_level' =
             [new_indices_at_level EXCEPT ![Len(new_indices_at_level)] = @ + 1]
      /\ nontrivial_list' = insert_index(nontrivial_list, start, h, cell_sizes[start])
  BY DEF commit_index
<1>5. OneMore(log, log2, start, h)
  BY <1>1, <1>2, <1>4, LogAppend
<1>6. S = StartsIn(log, Len(log)) /\ Cells' = StartsIn(log2, Len(log2))
  BY DEF Cells
<1>e. /\ end = r.first + r.size /\ m <= end /\ m <= N /\ start \in Int /\ h \in Int
      /\ cell_sizes \in [Positions -> 0 .. N] /\ cell_sizes[start] \in Int /\ N \in Int
      /\ index_containing \in [Positions -> Positions]
  <2>1. cell_sizes \in [Positions -> 0 .. N] /\ index_containing \in [Positions -> Positions]
    BY <1>1 DEF TypeOK
  <2>2. start \in Int /\ h \in Int /\ N \in Int
    BY <1>2, NPositive DEF Positions
  <2>3. m <= N
    BY <1>2, <2>2
  <2> QED
    BY <1>2, <2>1, <2>2, <2>3
<1> HIDE DEF start, log, log2, S, end
<1>7. Cells' = S \cup {h} /\ log2 \in Logs /\ Len(log2) = Len(log) + 1 /\ Len(log) \in Nat
  <2>1. Len(log) \in Nat /\ Len(log2) = Len(log) + 1 /\ log2 \in Logs
    BY <1>5 DEF OneMore
  <2>2. StartsIn(log2, Len(log) + 1) = StartsIn(log, Len(log)) \cup {h}
    BY <1>5, OneMoreStarts
  <2> QED
    BY <1>6, <2>1, <2>2
<1>8. /\ cell_sizes' \in [Positions -> 0 .. N] /\ SizesFit(S \cup {h}, cell_sizes')
      /\ cell_sizes'[h] = start + cell_sizes[start] - h
  <2>1. /\ S \in SUBSET Positions /\ h \in Positions /\ h \notin S /\ StartOf(S, start, h)
        /\ cell_sizes \in [Positions -> 0 .. N] /\ SizesFit(S, cell_sizes)
        /\ cell_sizes' = CutSizes(cell_sizes, start, h)
    BY <1>1, <1>2, <1>3, <1>4, <1>e DEF CutSizes
  <2> QED
    BY ONLY <2>1, SizesCut
<1>s. h + cell_sizes'[h] = end
  BY <1>2, <1>8, <1>e
<1>9. LogFits(log2) /\ nontrivial_list' \in Lists /\ LinksFit(log2, nontrivial_list')
  <2>1. cell_sizes \in [Positions -> 0 .. N]
    BY <1>1 DEF TypeOK
  <2> QED
    BY <1>1, <1>2, <1>3, <1>4, <1>5, <1>6, <2>1, CutFits
<1>10. LevelsKept' /\ new_indices_at_level' \in Seq(Nat)
  <2>1. /\ new_indices_at_level' \in Seq(Nat)
        /\ Len(new_indices_at_level') = Len(new_indices_at_level)
        /\ SumOf(new_indices_at_level) \in Nat
        /\ SumOf(new_indices_at_level') = SumOf(new_indices_at_level) + 1
    <3>1. new_indices_at_level \in Seq(Nat) /\ Len(new_indices_at_level) >= 1
      BY <1>1 DEF TypeOK, LevelsKept
    <3> QED
      BY <1>4, <3>1, SumOfOneMore
  <2>2. undo.count \in Nat /\ undo' = undo
    BY <1>1 DEF TypeOK
  <2>3. SumOf(new_indices_at_level) + undo.count = Len(log) /\ Len(new_indices_at_level) >= 1
    BY <1>1 DEF LevelsKept, log
  <2>4. SumOf(new_indices_at_level') + undo'.count = Len(log2)
    <3> DEFINE a == SumOf(new_indices_at_level)
               c == undo.count
    <3>1. a \in Nat /\ c \in Nat /\ a + c = Len(log) /\ Len(log2) = Len(log) + 1
      BY <1>7, <2>1, <2>2, <2>3
    <3>2. SumOf(new_indices_at_level') = a + 1 /\ undo'.count = c
      BY <2>1, <2>2
    <3> HIDE DEF a, c
    <3> QED
      BY <3>1, <3>2
  <2> QED
    BY <2>1, <2>3, <2>4 DEF LevelsKept, log2
<1>11. CountKept'
  <2>1. IsFiniteSet(S) /\ Cardinality(S) = Len(log) + 1
    BY <1>1 DEF CountKept, S, log
  <2>2. IsFiniteSet(S \cup {h}) /\ Cardinality(S \cup {h}) = Cardinality(S) + 1
    BY <1>1, <2>1, FS_AddElement
  <2> QED
    BY <1>7, <2>1, <2>2 DEF CountKept, log2
<1>12. /\ index_containing' \in [Positions -> Positions]
       /\ \A i \in Positions : CellOf(i)' = IF h <= i /\ i < m THEN h ELSE CellOf(i)
  <2>1. /\ Permutes(elements) /\ index_containing \in [Positions -> Positions] /\ h \in Positions
        /\ m \in Int /\ m <= N
        /\ index_containing' = Labelled(elements, index_containing, h, m)
    BY <1>1, <1>2, <1>4, <1>e DEF Labelled
  <2>2. /\ index_containing' \in [Positions -> Positions]
        /\ \A i \in Positions : index_containing'[elements[i]] =
               IF h <= i /\ i < m THEN h ELSE index_containing[elements[i]]
    BY ONLY <2>1, NewLabels
  <2> QED
    BY <2>2 DEF CellOf
<1>13. ASSUME NEW i \in Positions
       PROVE  /\ h <= i /\ i < m => StartOf(S \cup {h}, h, i)
              /\ ~ (h <= i /\ i < end) => StartOf(S \cup {h}, CellOf(i), i)
  <2>2. end = N \/ end \in S
    BY <1>1, <1>2 DEF SizesFit
  <2>3. ~ (h <= i /\ i < end) => StartOf(S, CellOf(i), i)
    BY <1>e DEF RunFits, IndexRight, S
  <2>4. /\ h <= i /\ i < m => StartOf(S \cup {h}, h, i)
        /\ ~ (h <= i /\ i < end) /\ StartOf(S, CellOf(i), i) => StartOf(S \cup {h}, CellOf(i), i)
    BY <1>1, <1>2, <1>8, <1>e, <1>s, <2>2, CutLabels
  <2> QED
    BY <2>3, <2>4
<1>14. CutDone(r, h, m)
  BY <1>7, <1>12, <1>13, <1>e, <1>s DEF CutDone, S
<1> QED
  BY <1>1, <1>6, <1>7, <1>8, <1>9, <1>10, <1>11, <1>14
     DEF LogKept, SizesKept, LinksKept, ElementsKept, Logs, Lists, log, log2, S

\* The queue without its head, which is an index now.
LEMMA QueueShrinks ==
  ASSUME Arrays, pc = "commit", NEW h, h = Head(new_index_queue), NEW r, RunFits(r, h),
         NEW m \in Int, h < m, m <= r.first + r.size, CutDone(r, h, m),
         new_index_queue' = Tail(new_index_queue),
         pc' = IF Tail(new_index_queue) = <<>> THEN "idle" ELSE "commit"
  PROVE  QueueKept' /\ new_index_queue' \in Seq(Positions)
<1> DEFINE q == new_index_queue
           q2 == new_index_queue'
<1>1. /\ QueueKept /\ q \in Seq(Positions) /\ q # <<>> /\ h \in Positions /\ h \notin Cells
      /\ Cells \in SUBSET Positions
  BY QueueIsNotEmpty, CellsAreIndices DEF Arrays, TypeOK
<1>2. PICK n \in Nat : Len(q) = n + 1
  <2>1. Len(q) - 1 \in Nat /\ Len(q) = (Len(q) - 1) + 1
    BY <1>1
  <2> QED
    BY <2>1
<1>3. /\ q2 \in Seq(Positions) /\ Len(q2) = n /\ (q2 # <<>> <=> n # 0)
      /\ \A a \in 1 .. n : q2[a] = q[a + 1]
      /\ \A a \in 1 .. n + 1 : q[a] \in Positions
      /\ q[1] = h
  BY <1>1, <1>2
<1>4. /\ \A a \in 1 .. n + 1 : q[a] \notin Cells
      /\ \A a, b \in 1 .. n + 1 : a < b /\ CellOf(q[a]) = CellOf(q[b]) => q[a] < q[b]
  BY <1>1, <1>2 DEF QueueKept
<1>5. /\ \A i \in Positions : CellOf(i)' = IF h <= i /\ i < m THEN h ELSE CellOf(i)
      /\ Cells' = Cells \cup {h} /\ r.first + r.size \in Int
      /\ \A i \in Positions : h <= i /\ i < r.first + r.size => CellOf(i) = r.first
  BY DEF CutDone, RunFits, Positions
<1>6. \A i \in Positions : CellOf(i) \in Cells
  BY DEF RunFits, IndexRight, StartOf
<1> HIDE DEF q, q2
<1>7. ASSUME NEW a \in 1 .. n PROVE q2[a] \notin Cells \cup {h}
  <2>1. a + 1 \in 1 .. n + 1 /\ 1 \in 1 .. n + 1 /\ 1 < a + 1
    OBVIOUS
  <2>2. q[a + 1] \notin Cells /\ (CellOf(h) = CellOf(q[a + 1]) => h < q[a + 1])
    BY <1>3, <1>4, <2>1
  <2>3. q[a + 1] # h
    BY <1>1, <2>2 DEF Positions
  <2> QED
    BY <1>3, <2>2, <2>3
<1>8. ASSUME NEW a \in 1 .. n, NEW b \in 1 .. n, a < b, NEW x, x = q2[a], NEW y, y = q2[b],
             CellOf(x)' = CellOf(y)'
      PROVE  x < y
  <2>1. a + 1 \in 1 .. n + 1 /\ b + 1 \in 1 .. n + 1 /\ a + 1 < b + 1
    BY <1>8
  <2>2. x = q[a + 1] /\ y = q[b + 1] /\ x \in Positions /\ y \in Positions
    BY <1>3, <1>8, <2>1
  <2>3. CellOf(x) = CellOf(y) => x < y
    BY <1>4, <2>1, <2>2
  <2>4. CellOf(x) \in Cells /\ CellOf(y) \in Cells
    BY <1>6, <2>2
  <2>5. /\ CellOf(x)' = IF h <= x /\ x < m THEN h ELSE CellOf(x)
        /\ CellOf(y)' = IF h <= y /\ y < m THEN h ELSE CellOf(y)
        /\ h <= x /\ x < r.first + r.size => CellOf(x) = r.first
        /\ h <= y /\ y < r.first + r.size => CellOf(y) = r.first
    BY <1>5, <2>2
  <2>6. /\ h <= x /\ x < m => x < r.first + r.size
        /\ h <= y /\ y < m => y < r.first + r.size
    BY <1>5, <2>2 DEF Positions
  <2> QED
    BY <1>1, <1>8, <2>3, <2>4, <2>5, <2>6
<1>9. (\A a, b \in 1 .. Len(new_index_queue) :
          a < b /\ CellOf(new_index_queue[a]) = CellOf(new_index_queue[b])
          => new_index_queue[a] < new_index_queue[b])'
  BY <1>3, <1>8 DEF q2, CellOf
<1>10. (\A a \in 1 .. Len(new_index_queue) : new_index_queue[a] \notin Cells)'
  BY <1>3, <1>5, <1>7 DEF q2
<1> QED
  BY <1>3, <1>9, <1>10 DEF QueueKept, q2

\* The last cut of the cell labels the rest of it, an earlier one goes on to the next.
LEMMA CommitNextKeeps ==
  ASSUME Arrays, CommitNext
  PROVE  Arrays'
<1> DEFINE q == new_index_queue
           h == Head(new_index_queue)
           rest == Tail(new_index_queue)
           r == CurrentRun
           end == r.first + r.size
           more == rest # <<>> /\ SameRun(r, Head(rest))
           m == IF more THEN Head(rest) ELSE end
<1>1. /\ pc = "commit" /\ commit_index(r.start, h, m) /\ UNCHANGED <<elements, undo>>
      /\ run' = IF more THEN [r EXCEPT !.start = h] ELSE NoRun
      /\ new_index_queue' = Tail(new_index_queue)
      /\ pc' = IF Tail(new_index_queue) = <<>> THEN "idle" ELSE "commit"
  BY DEF CommitNext
<1>2. /\ RunFits(r, h) /\ TypeOK /\ undo = NoUndo /\ Cells \in SUBSET Positions
      /\ h \in Positions /\ h \notin Cells /\ QueueKept /\ q \in Seq(Positions) /\ q # <<>>
      /\ SizesFit(Cells, cell_sizes)
  BY <1>1, RunOfHead, QueueIsNotEmpty, CellsAreIndices
     DEF Arrays, LoopsKept, SizesKept, TypeOK
<1> HIDE DEF r
<1>3. /\ r \in [first : Positions, size : 0 .. N, start : Positions]
      /\ r.first \in Cells /\ r.start \in Cells
      /\ r.first \in Int /\ r.start \in Int /\ h \in Int /\ end \in Int /\ 0 <= r.start
      /\ r.first <= r.start /\ r.start < h /\ h < end /\ end <= N
      /\ r.start + cell_sizes[r.start] = end
      /\ \A i \in Positions : IF h <= i /\ i < end THEN CellOf(i) = r.first ELSE IndexRight(i)
  BY <1>2, NPositive DEF RunFits, Positions
<1>4. more => Head(rest) \in Positions /\ h < Head(rest) /\ Head(rest) < end
  <2> SUFFICES ASSUME more PROVE Head(rest) \in Positions /\ h < Head(rest) /\ Head(rest) < end
    OBVIOUS
  <2>1. /\ q[1] = h /\ Head(rest) = q[2] /\ q[2] \in Positions
        /\ 1 \in 1 .. Len(q) /\ 2 \in 1 .. Len(q)
    BY <1>2
  <2>2. CellOf(q[2]) = r.first
    BY <2>1 DEF SameRun, CellOf
  <2>3. CellOf(h) = r.first
    BY <1>2, <1>3
  <2>4. h < q[2]
    BY <1>2, <2>1, <2>2, <2>3 DEF QueueKept
  <2>5. ASSUME end <= q[2] PROVE FALSE
    <3>1. end = N \/ end \in Cells
      BY <1>2, <1>3 DEF SizesFit
    <3>2. StartOf(Cells, r.first, q[2])
      <4>1. ~ (h <= q[2] /\ q[2] < end)
        BY <1>3, <2>1, <2>5 DEF Positions
      <4>2. IndexRight(q[2])
        BY <1>3, <2>1, <4>1
      <4> QED
        BY <2>2, <4>2 DEF IndexRight
    <3>3. end \in Cells
      BY <2>1, <2>5, <3>1, NPositive DEF Positions
    <3>4. end <= r.first
      BY <2>5, <3>2, <3>3 DEF StartOf
    <3> QED
      BY <1>3, <3>4
  <2>6. q[2] < end
    BY <1>3, <2>1, <2>5 DEF Positions
  <2> QED
    BY <2>1, <2>4, <2>6
<1>5. m \in Int /\ h < m /\ m <= end
  BY <1>3, <1>4 DEF Positions
<1>e. end = r.first + r.size
  OBVIOUS
<1> HIDE DEF more, m, end
<1>6. /\ CutDone(r, h, m)
      /\ (LogKept /\ SizesKept /\ LinksKept /\ ElementsKept /\ LevelsKept /\ CountKept)'
      /\ new_indices' \in Seq(Positions \X Positions) /\ cell_sizes' \in [Positions -> 0 .. N]
      /\ nontrivial_list' \in [Positions -> [prev : Positions, next : Positions]]
      /\ new_indices_at_level' \in Seq(Nat)
  BY <1>1, <1>2, <1>5, <1>e, CommitCuts
<1>7. QueueKept' /\ new_index_queue' \in Seq(Positions)
  BY <1>1, <1>2, <1>5, <1>6, <1>e, QueueShrinks
<1>8. /\ Cells' = Cells \cup {h} /\ h + cell_sizes'[h] = end
      /\ index_containing' \in [Positions -> Positions]
      /\ \A i \in Positions :
           /\ CellOf(i)' = IF h <= i /\ i < m THEN h ELSE CellOf(i)
           /\ h <= i /\ i < m => StartOf(Cells', h, i)
           /\ ~ (h <= i /\ i < end) => StartOf(Cells', CellOf(i), i)
  BY <1>6, <1>e DEF CutDone
<1>9. TypeOK'
  <2>1. run' \in [first : Positions, size : 0 .. N, start : Positions]
    <3>1. NoRun \in [first : Positions, size : 0 .. N, start : Positions]
      BY NPositive DEF NoRun, Positions
    <3>2. [r EXCEPT !.start = h] \in [first : Positions, size : 0 .. N, start : Positions]
      BY <1>2, <1>3
    <3> QED
      BY <1>1, <3>1, <3>2
  <2>2. pc' \in {"idle", "commit"}
    BY <1>1
  <2> QED
    BY <1>1, <1>2, <1>6, <1>7, <1>8, <2>1, <2>2 DEF TypeOK
<1>10. CASE more
  <2>1. m = Head(rest) /\ m \in Positions /\ m < end
    BY <1>4, <1>10 DEF m
  <2>2. /\ run' = [r EXCEPT !.start = h] /\ run'.first = r.first /\ run'.size = r.size
        /\ run'.start = h /\ run' # NoRun
    <3>1. run' = [r EXCEPT !.start = h] /\ run'.first = r.first /\ run'.size = r.size
          /\ run'.start = h
      BY <1>1, <1>3, <1>10
    <3>2. h # 0
      BY <1>3
    <3> QED
      BY <3>1, <3>2 DEF NoRun
  <2>3. pc' = "commit" /\ Head(new_index_queue)' = m
    BY <1>1, <1>10, <2>1 DEF more
  <2>4. ASSUME NEW i \in Positions
        PROVE  IF m <= i /\ i < end THEN CellOf(i)' = r.first ELSE IndexRight(i)'
    <3>1. i \in Int /\ m \in Int
      <4>1. i \in 0 .. N - 1
        BY DEF Positions
      <4> QED
        BY <1>5, <4>1
    <3>2. CASE m <= i /\ i < end
      BY <1>3, <1>5, <1>8, <3>1, <3>2
    <3>3. CASE ~ (m <= i /\ i < end)
      <4>1. CASE h <= i /\ i < m
        BY <1>8, <3>3, <4>1 DEF IndexRight
      <4>2. CASE ~ (h <= i /\ i < m)
        <5>1. ~ (h <= i /\ i < end)
          BY <1>3, <3>1, <3>3, <4>2
        <5> QED
          BY <1>8, <3>3, <4>2, <5>1 DEF IndexRight
      <4> QED
        BY <4>1, <4>2
    <3> QED
      BY <3>2, <3>3
  <2>5. RunKept'
    <3>1. (/\ run.first \in Cells /\ run.start \in Cells
           /\ run.first < run.start /\ run.start < Head(new_index_queue)
           /\ Head(new_index_queue) < run.first + run.size
           /\ run.start + cell_sizes[run.start] = run.first + run.size)'
      <4>1. r.first < h
        BY <1>3
      <4>2. r.first \in Cells' /\ h \in Cells'
        BY <1>3, <1>8
      <4> QED
        BY <1>5, <1>8, <1>e, <2>1, <2>2, <2>3, <4>1, <4>2
    <3>2. \A i \in Positions : IF Head(new_index_queue)' <= i /\ i < run'.first + run'.size
                               THEN CellOf(i)' = run'.first ELSE IndexRight(i)'
      BY <1>e, <2>2, <2>3, <2>4
    <3> QED
      BY <3>1, <3>2 DEF RunKept
  <2>6. (LoopsKept /\ LabelsKept /\ RecoverKept)'
    BY <1>1, <1>2, <2>2, <2>3 DEF LoopsKept, LabelsKept, RecoverKept
  <2> QED
    BY <1>6, <1>7, <1>9, <2>5, <2>6 DEF Arrays
<1>11. CASE ~ more
  <2>1. m = end /\ run' = NoRun
    BY <1>1, <1>11 DEF m
  <2>2. ASSUME NEW i \in Positions PROVE IndexRight(i)'
    <3>1. CASE h <= i /\ i < end
      BY <1>8, <2>1, <3>1 DEF IndexRight
    <3>2. CASE ~ (h <= i /\ i < end)
      BY <1>8, <2>1, <3>2 DEF IndexRight
    <3> QED
      BY <3>1, <3>2
  <2>3. pc' \in {"idle", "commit"} /\ undo' = NoUndo
    BY <1>1, <1>2
  <2>4. (LoopsKept /\ LabelsKept /\ RunKept /\ RecoverKept)'
    BY <2>1, <2>2, <2>3 DEF LoopsKept, LabelsKept, RunKept, RecoverKept
  <2> QED
    BY <1>6, <1>7, <1>9, <2>4 DEF Arrays
<1> QED
  BY <1>10, <1>11

\* What an iteration of recover_level knows of the last cut.
LEMMA LastCut ==
  ASSUME Arrays, undo.count > 0, NEW start, start = Last(new_indices)[1],
         NEW k, k = Last(new_indices)[2], new_indices' = Front(new_indices)
  PROVE  OneMore(new_indices', new_indices, start, k)
<1>1. /\ new_indices \in Seq(Positions \X Positions) /\ undo.count \in Nat
      /\ new_indices_at_level \in Seq(Nat) /\ LevelsKept
  BY DEF Arrays, TypeOK
<1>2. Len(new_indices) > 0
  <2>1. SumOf(new_indices_at_level) \in Nat
    BY <1>1, SumAppend
  <2>2. SumOf(new_indices_at_level) + undo.count = Len(new_indices)
    BY <1>1 DEF LevelsKept
  <2> QED
    BY <1>1, <2>1, <2>2
<1>3. Last(new_indices) = <<start, k>>
  <2>1. Last(new_indices) \in Positions \X Positions
    BY <1>1, <1>2 DEF Last
  <2> QED
    BY <2>1
<1> QED
  BY <1>1, <1>2, <1>3, LogFront DEF Logs

\* A joined cell is that of its start.
LEMMA JoinLabels ==
  ASSUME NEW S \in SUBSET Positions, NEW k \in Positions, k \notin S, NEW start,
         StartOf(S, start, k), NEW i \in Positions, NEW c
  PROVE  /\ StartOf(S \cup {k}, k, i) => StartOf(S, start, i)
         /\ c # k /\ StartOf(S \cup {k}, c, i) => StartOf(S, c, i)
BY DEF StartOf, Positions

\* What an iteration of recover_level writes into undo.
UndoNext(k, start, last) ==
    LET end == undo.cell_end[k]
    IN  [count |-> undo.count - 1,
         cell_end |-> [undo.cell_end EXCEPT ![k] = 0, ![start] = IF end = 0 THEN last ELSE end],
         start_indices |->
             (IF end = 0 THEN undo.start_indices ELSE undo.start_indices \ {k}) \cup {start}]

Joined(u, k, start, last) ==
    /\ u.count = undo.count - 1 /\ u.start_indices = (undo.start_indices \ {k}) \cup {start}
    /\ u.cell_end \in [Positions -> Positions] /\ u.cell_end[k] = 0
    /\ u.cell_end[start] = IF k \in undo.start_indices THEN k + cell_sizes[k] - 1 ELSE last
    /\ \A s \in Positions : s # k /\ s # start => u.cell_end[s] = undo.cell_end[s]

\* The joined cells after it, whether the cell that joins was joined before or not.
LEMMA JoinedCells ==
  ASSUME Arrays, pc = "recover", NEW S \in SUBSET Positions, NEW k \in Positions, k \notin S,
         Cells = S \cup {k}, NEW start \in Positions, start # k,
         NEW last \in Positions, NEW u, u = UndoNext(k, start, last)
  PROVE  Joined(u, k, start, last)
<1> DEFINE end == undo.cell_end[k]
<1>1. /\ undo.cell_end \in [Positions -> Positions] /\ undo.start_indices \subseteq Positions
      /\ cell_sizes \in [Positions -> 0 .. N]
  BY DEF Arrays, TypeOK
<1>2. IF k \in undo.start_indices THEN cell_sizes[k] > 1 /\ end = k + cell_sizes[k] - 1
                                  ELSE end = 0
  BY DEF Arrays, RecoverKept
<1>3. end = 0 <=> k \notin undo.start_indices
  <2>1. cell_sizes[k] \in Int /\ k \in Int /\ 0 <= k
    BY <1>1, NPositive DEF Positions
  <2> QED
    BY <1>2, <2>1
<1>4. /\ u.count = undo.count - 1
      /\ u.cell_end = [undo.cell_end EXCEPT ![k] = 0, ![start] = IF end = 0 THEN last ELSE end]
      /\ u.start_indices = (undo.start_indices \ {k}) \cup {start}
  BY <1>3 DEF UndoNext
<1>5. end \in Positions /\ 0 \in Positions
  <2>1. 0 \in Positions
    BY NPositive DEF Positions
  <2> QED
    BY <1>1, <2>1
<1> QED
  BY <1>1, <1>2, <1>3, <1>4, <1>5 DEF Joined

\* One iteration of recover_level.
LEMMA UndoCutKeeps ==
  ASSUME Arrays, UndoCut
  PROVE  Arrays'
<1> DEFINE log == new_indices
           log2 == new_indices'
           start == Last(new_indices)[1]
           k == Last(new_indices)[2]
           size == cell_sizes[k]
           end == undo.cell_end[k]
           S == StartsIn(log2, Len(log2))
           si == undo.start_indices
           last == k + size - 1
<1>1. /\ pc = "recover" /\ undo.count > 0 /\ log2 = Front(log)
      /\ nontrivial_list' = erase_index(nontrivial_list, start, k, cell_sizes[start], size)
      /\ cell_sizes' = [cell_sizes EXCEPT ![k] = 0, ![start] = @ + size]
      /\ undo' = [count |-> undo.count - 1,
                   cell_end |-> [undo.cell_end EXCEPT
                       ![k] = 0, ![start] = IF end = 0 THEN last ELSE end],
                   start_indices |-> (IF end = 0 THEN si ELSE si \ {k}) \cup {start}]
      /\ UNCHANGED <<elements, index_containing, new_index_queue, new_indices_at_level, pc, run>>
  BY DEF UndoCut
<1>2. OneMore(log2, log, start, k)
  BY <1>1, LastCut
<1>3. /\ TypeOK /\ LogFits(log) /\ LinksFit(log, nontrivial_list) /\ SizesFit(Cells, cell_sizes)
      /\ log \in Logs /\ nontrivial_list \in Lists /\ cell_sizes \in [Positions -> 0 .. N]
      /\ RecoverKept /\ CountKept /\ LevelsKept /\ run = NoRun /\ new_index_queue = <<>>
  BY <1>1, CellsAreIndices
     DEF Arrays, LogKept, LinksKept, SizesKept, TypeOK, LoopsKept, QueueKept
<1> HIDE DEF log, log2, start, k
<1>4. /\ log2 \in Logs /\ LogFits(log2) /\ nontrivial_list' \in Lists
      /\ LinksFit(log2, nontrivial_list')
      /\ S \in SUBSET Positions /\ k \in Positions /\ k \notin S /\ StartOf(S, start, k)
      /\ Cells = S \cup {k} /\ Cells' = S /\ Len(log2) \in Nat /\ Len(log) = Len(log2) + 1
  <2>1. Cells = StartsIn(log, Len(log)) /\ Cells' = StartsIn(log2, Len(log2))
    BY DEF Cells, log, log2
  <2>2. SizesFit(StartsIn(log, Len(log)), cell_sizes)
    BY <1>3, <2>1
  <2> QED
    BY <1>1, <1>2, <1>3, <2>1, <2>2, UndoFits
<1> HIDE DEF S
<1>5. /\ start < k /\ start + cell_sizes[start] = k /\ cell_sizes' \in [Positions -> 0 .. N]
      /\ SizesFit(S, cell_sizes') /\ cell_sizes'[start] = cell_sizes[start] + size
  <2>1. cell_sizes' = JoinedSizes(cell_sizes, start, k)
    BY <1>1 DEF JoinedSizes
  <2>2. /\ S \in SUBSET Positions /\ k \in Positions /\ k \notin S /\ StartOf(S, start, k)
        /\ cell_sizes \in [Positions -> 0 .. N] /\ SizesFit(S \cup {k}, cell_sizes)
    BY <1>3, <1>4
  <2> QED
    BY ONLY <2>1, <2>2, SizesJoin
<1>6. /\ start \in S /\ start \in Positions /\ start # k /\ size \in 1 .. N /\ size \in Int
      /\ cell_sizes[start] \in 1 .. N /\ cell_sizes[start] \in Int
      /\ k \in Int /\ start \in Int /\ last \in Positions
  <2>1. start \in S /\ start \in Positions
    BY <1>4 DEF StartOf
  <2>2. size \in 1 .. N /\ cell_sizes[start] \in 1 .. N /\ (k + size = N \/ k + size \in S \cup {k})
    BY <1>3, <1>4, <2>1 DEF SizesFit
  <2>3. k \in 0 .. N - 1 /\ start \in 0 .. N - 1 /\ S \cup {k} \subseteq 0 .. N - 1 /\ N \in Nat
    BY <1>4, <2>1, NPositive DEF Positions
  <2>4. last \in 0 .. N - 1
    BY <2>2, <2>3
  <2> QED
    BY <1>5, <2>1, <2>2, <2>3, <2>4 DEF Positions
<1>7. /\ undo'.count = undo.count - 1 /\ undo'.start_indices = (si \ {k}) \cup {start}
      /\ undo'.cell_end \in [Positions -> Positions] /\ undo'.cell_end[k] = 0
      /\ undo'.cell_end[start] = last
      /\ \A s \in Positions : s # k /\ s # start => undo'.cell_end[s] = undo.cell_end[s]
  <2>1. Joined(undo', k, start, last)
    <3>1. undo' = UndoNext(k, start, last)
      BY <1>1 DEF UndoNext
    <3> HIDE DEF last
    <3> QED
      BY <1>1, <1>4, <1>6, <3>1, JoinedCells
  <2> QED
    BY <2>1 DEF Joined
<1>8. TypeOK'
  <2>1. undo' \in [count : Nat, cell_end : [Positions -> Positions],
                   start_indices : SUBSET Positions]
    <3>1. undo.count - 1 \in Nat /\ si \subseteq Positions
      BY <1>1, <1>3 DEF TypeOK
    <3>2. undo' = [count |-> undo'.count, cell_end |-> undo'.cell_end,
                   start_indices |-> undo'.start_indices]
      BY <1>1
    <3> QED
      BY <1>6, <1>7, <3>1, <3>2
  <2>2. new_indices' \in Seq(Positions \X Positions)
        /\ nontrivial_list' \in [Positions -> [prev : Positions, next : Positions]]
    BY <1>4 DEF Logs, Lists, log2
  <2> QED
    BY <1>1, <1>3, <1>5, <2>1, <2>2 DEF TypeOK
<1>9. LevelsKept'
  <2>1. SumOf(new_indices_at_level) \in Nat /\ undo.count \in Nat
    BY <1>3, SumAppend DEF TypeOK
  <2>2. SumOf(new_indices_at_level) + undo.count = Len(log) /\ Len(new_indices_at_level) >= 1
    BY <1>3 DEF LevelsKept, log
  <2>3. SumOf(new_indices_at_level) + undo'.count = Len(log2)
    BY <1>4, <1>7, <2>1, <2>2
  <2> QED
    BY <1>1, <2>2, <2>3 DEF LevelsKept, log2
<1>10. CountKept'
  <2>1. IsFiniteSet(Cells) /\ Cardinality(Cells) = Len(log) + 1
    BY <1>3 DEF CountKept, log
  <2>2. IsFiniteSet(Cells \ {k}) /\ Cardinality(Cells \ {k}) = Cardinality(Cells) - 1
    BY <1>4, <2>1, FS_RemoveElement
  <2>3. Cells \ {k} = S
    BY <1>4
  <2>4. Len(log2) + 1 = Cardinality(S)
    <3>1. \A n, c : n \in Nat /\ c = (n + 1) + 1 => n + 1 = c - 1
      OBVIOUS
    <3> QED
      BY <1>4, <2>1, <2>2, <2>3, <3>1
  <2> QED
    BY <1>4, <2>2, <2>3, <2>4 DEF CountKept, log2
<1>11. ASSUME NEW s \in Positions
       PROVE  IF s \in undo'.start_indices
              THEN s \in S /\ cell_sizes'[s] > 1 /\ undo'.cell_end[s] = s + cell_sizes'[s] - 1
              ELSE undo'.cell_end[s] = 0
  <2>1. CASE s = start
    <3>1. cell_sizes'[s] > 1 /\ undo'.cell_end[s] = s + cell_sizes'[s] - 1
      BY <1>5, <1>6, <1>7, <2>1
    <3> QED
      BY <1>6, <1>7, <2>1, <3>1
  <2>2. CASE s = k
    BY <1>6, <1>7, <2>2
  <2>3. CASE s # start /\ s # k
    <3>1. cell_sizes'[s] = cell_sizes[s] /\ undo'.cell_end[s] = undo.cell_end[s]
      BY <1>1, <1>3, <1>7, <2>3
    <3>2. s \in undo'.start_indices <=> s \in si
      BY <1>7, <2>3
    <3>3. s \in Cells <=> s \in S
      BY <1>4, <2>3
    <3> QED
      BY <1>1, <1>3, <3>1, <3>2, <3>3 DEF RecoverKept
  <2> QED
    BY <2>1, <2>2, <2>3
<1>12. ASSUME NEW i \in Positions
       PROVE  (\E s \in undo'.start_indices : StartOf(S, s, i)) \/ StartOf(S, CellOf(i), i)
  <2>1. /\ StartOf(Cells, k, i) => StartOf(S, start, i)
        /\ \A c : c # k /\ StartOf(Cells, c, i) => StartOf(S, c, i)
    BY <1>4, JoinLabels
  <2>2. (\E s \in si : StartOf(Cells, s, i)) \/ StartOf(Cells, CellOf(i), i)
    BY <1>1, <1>3 DEF RecoverKept, IndexRight
  <2> QED
    BY <1>7, <2>1, <2>2
<1>13. RecoverKept'
  <2>1. \A i \in Positions : CellOf(i)' = CellOf(i)
    BY <1>1 DEF CellOf
  <2>2. \A i \in Positions : IndexRight(i)' <=> StartOf(S, CellOf(i), i)
    BY <1>4, <2>1 DEF IndexRight
  <2> QED
    BY <1>4, <1>11, <1>12, <2>2 DEF RecoverKept
<1>14. (LogKept /\ SizesKept /\ LinksKept /\ ElementsKept)'
  BY <1>1, <1>4, <1>5 DEF LogKept, SizesKept, LinksKept, ElementsKept, Arrays, log2
<1>15. (QueueKept /\ LoopsKept /\ LabelsKept /\ RunKept)'
  BY <1>1, <1>3 DEF QueueKept, LoopsKept, LabelsKept, RunKept
<1> QED
  BY <1>8, <1>9, <1>10, <1>13, <1>14, <1>15 DEF Arrays

\* The joined cells that the last loop finds at a position: one, if any.
Covers(i) == {s \in undo.start_indices : s <= i /\ i <= undo.cell_end[s]}

\* They tell the cell of a position, or its label does.
LEMMA CoverIsStart ==
  ASSUME Arrays, pc = "recover", NEW i \in Positions
  PROVE  /\ Covers(i) = {s \in undo.start_indices : StartOf(Cells, s, i)}
         /\ Covers(i) # {} => StartOf(Cells, Max(Covers(i)), i)
         /\ Covers(i) = {} => StartOf(Cells, CellOf(i), i)
<1>1. /\ Cells \in SUBSET Positions /\ SizesFit(Cells, cell_sizes) /\ RecoverKept
      /\ undo.start_indices \subseteq Positions /\ i \in Int
  BY CellsAreIndices DEF Arrays, SizesKept, TypeOK, Positions
<1>2. ASSUME NEW s \in undo.start_indices
      PROVE  s <= i /\ i <= undo.cell_end[s] <=> StartOf(Cells, s, i)
  <2>1. s \in Cells /\ undo.cell_end[s] = s + cell_sizes[s] - 1 /\ s \in Int
    BY <1>1 DEF RecoverKept, Positions
  <2>2. /\ cell_sizes[s] \in 1 .. N
        /\ s + cell_sizes[s] = N \/ s + cell_sizes[s] \in Cells
    BY <1>1, <2>1 DEF SizesFit
  <2>3. s + cell_sizes[s] <= N /\ cell_sizes[s] \in Int
    BY <1>1, <2>2, NPositive DEF Positions
  <2>4. StartOf(Cells, s, i) <=> s <= i /\ i < s + cell_sizes[s]
    BY <1>1, <2>1, <2>2, <2>3, StartReaches
  <2> QED
    BY <1>1, <2>1, <2>3, <2>4
<1>3. Covers(i) = {s \in undo.start_indices : StartOf(Cells, s, i)}
  BY <1>2 DEF Covers
<1>4. ASSUME Covers(i) # {} PROVE StartOf(Cells, Max(Covers(i)), i)
  <2>1. PICK s \in Covers(i) : StartOf(Cells, s, i)
    BY <1>3, <1>4
  <2>2. \A t \in Covers(i) : t = s
    BY <1>1, <1>3, <2>1, StartIsUnique
  <2>3. s \in Int
    BY <1>1, <1>3, <2>1 DEF Positions
  <2>4. Max(Covers(i)) = s
    <3>1. Covers(i) = {s}
      BY <2>1, <2>2
    <3> QED
      BY <2>3, <3>1 DEF Max
  <2> QED
    BY <2>1, <2>4
<1>5. ASSUME Covers(i) = {} PROVE StartOf(Cells, CellOf(i), i)
  BY <1>1, <1>3, <1>5 DEF RecoverKept, IndexRight
<1> QED
  BY <1>3, <1>4, <1>5

\* The last loop of recover_level.
LEMMA RelabelKeeps ==
  ASSUME Arrays, Relabel
  PROVE  Arrays'
<1> DEFINE At(u) == CHOOSE i \in Positions : elements[i] = u
<1>1. /\ pc = "recover" /\ undo.count = 0 /\ pc' = "idle" /\ undo' = NoUndo
      /\ index_containing' = [u \in Positions |->
             IF Covers(At(u)) = {} THEN index_containing[u] ELSE Max(Covers(At(u)))]
      /\ UNCHANGED <<elements, cell_sizes, new_index_queue, new_indices,
                     new_indices_at_level, nontrivial_list, run>>
  BY DEF Relabel, Covers
<1>2. /\ TypeOK /\ Permutes(elements) /\ run = NoRun /\ new_index_queue = <<>>
      /\ Cells \in SUBSET Positions /\ Cells' = Cells /\ LevelsKept
  BY <1>1, CellsAreIndices DEF Arrays, LoopsKept, ElementsKept, QueueKept, Cells
<1>3. ASSUME NEW u \in Positions
      PROVE  At(u) \in Positions /\ elements[At(u)] = u
  <2>1. \E i \in Positions : elements[i] = u
    BY <1>2 DEF Permutes
  <2> QED
    BY <2>1
<1> HIDE DEF At
<1>4. ASSUME NEW u \in Positions
      PROVE  StartOf(Cells, index_containing'[u], At(u))
  <2>1. CellOf(At(u)) = index_containing[u] /\ At(u) \in Positions
    BY <1>3 DEF CellOf
  <2>2. index_containing'[u] = IF Covers(At(u)) = {} THEN CellOf(At(u)) ELSE Max(Covers(At(u)))
    BY <1>1, <2>1
  <2> QED
    BY <1>1, <2>1, <2>2, CoverIsStart
<1>5. index_containing' \in [Positions -> Positions]
  <2>1. \A u \in Positions : index_containing'[u] \in Positions
    BY <1>2, <1>4 DEF StartOf
  <2> QED
    BY <1>1, <2>1
<1>6. ASSUME NEW i \in Positions PROVE IndexRight(i)'
  <2>1. elements[i] \in Positions
    BY <1>2 DEF Permutes
  <2>2. At(elements[i]) = i
    BY <1>2, <1>3, <2>1 DEF Permutes
  <2>3. StartOf(Cells, index_containing'[elements[i]], i)
    BY <1>4, <2>1, <2>2
  <2> QED
    BY <1>1, <1>2, <2>3 DEF IndexRight, CellOf
<1>7. TypeOK'
  <2>1. undo' \in [count : Nat, cell_end : [Positions -> Positions],
                   start_indices : SUBSET Positions]
    <3>1. 0 \in Positions
      BY NPositive DEF Positions
    <3> QED
      BY <1>1, <3>1 DEF NoUndo
  <2> QED
    BY <1>1, <1>2, <1>5, <2>1 DEF TypeOK
<1>8. LevelsKept'
  BY <1>1, <1>2 DEF LevelsKept, NoUndo
<1>9. (LogKept /\ SizesKept /\ LinksKept /\ ElementsKept /\ CountKept)'
  BY <1>1, <1>2 DEF LogKept, SizesKept, LinksKept, ElementsKept, CountKept, Arrays
<1>10. (QueueKept /\ LoopsKept /\ LabelsKept /\ RunKept /\ RecoverKept)'
  BY <1>1, <1>2, <1>6 DEF QueueKept, LoopsKept, LabelsKept, RunKept, RecoverKept
<1> QED
  BY <1>7, <1>8, <1>9, <1>10 DEF Arrays

\* A step that changes nothing, as after exit.
LEMMA StutterKeeps ==
  ASSUME Arrays, UNCHANGED vars
  PROVE  Arrays'
<1>1. Cells' = Cells /\ \A i \in Positions : IndexRight(i)' <=> IndexRight(i)
  BY DEF vars, Cells, IndexRight, CellOf
<1> QED
  BY <1>1 DEF vars, Arrays, TypeOK, LogKept, SizesKept, LinksKept, ElementsKept,
     LevelsKept, QueueKept, LoopsKept, LabelsKept, RunKept, RecoverKept, CountKept, CellOf

\* Every step of every operation keeps the arrays.
LEMMA NextKeeps ==
  ASSUME Arrays, [Next]_vars
  PROVE  Arrays'
<1>1. CASE unit
  BY <1>1, UnitKeeps
<1>2. ASSUME NEW i \in Positions, NEW j \in Positions, SwapInCell(i, j) PROVE Arrays'
  BY <1>2, SwapInCellKeeps
<1>3. ASSUME NEW k \in Positions, enqueue_new_index(k) PROVE Arrays'
  BY <1>3, EnqueueKeeps
<1>4. CASE commit_pending_indices
  BY <1>4, BeginCommitKeeps
<1>5. CASE CommitNext
  BY <1>5, CommitNextKeeps
<1>6. ASSUME NEW u \in Positions, breakout(u) PROVE Arrays'
  BY <1>6, BreakoutKeeps
<1>7. ASSUME NEW u \in Positions, BreakoutExits(u) PROVE Arrays'
  BY <1>7, ExitKeeps
<1>8. CASE advance_level
  BY <1>8, AdvanceKeeps
<1>9. ASSUME NEW m \in 0 .. level, recover_level(m) PROVE Arrays'
  BY <1>9, BeginRecoverKeeps
<1>10. CASE backup_level
  BY <1>10, BackupKeeps
<1>11. CASE UndoCut
  BY <1>11, UndoCutKeeps
<1>12. CASE Relabel
  BY <1>12, RelabelKeeps
<1>13. CASE Exited \/ UNCHANGED vars
  BY <1>13, StutterKeeps DEF Exited
<1> QED
  BY <1>1, <1>2, <1>3, <1>4, <1>5, <1>6, <1>7, <1>8, <1>9, <1>10, <1>11, <1>12, <1>13 DEF Next

\* The arrays of the nest hold together at every step, of the loops as well: whatever
\* the order of commits, recoveries and reorderings, the cells that follow from the log
\* of cuts have the sizes, the labels and the place in the threaded list they must have,
\* and the links of a start that left the list are those it had before.
THEOREM ArraysInvariant == Spec => []Arrays
<1>1. Init => Arrays
  BY InitArrays
<1>2. Arrays /\ [Next]_vars => Arrays'
  BY NextKeeps
<1> QED
  BY <1>1, <1>2, PTL DEF Spec
-----------------------------------------------------------------------------
(* What callers see between two calls *)

\* The greatest and the least element of a set.
LEMMA MaxIs ==
  ASSUME NEW T \in SUBSET Int, NEW x \in T, \A y \in T : y <= x
  PROVE  Max(T) = x
<1>1. \A y \in T : x >= y
  OBVIOUS
<1>2. Max(T) \in T /\ \A y \in T : Max(T) >= y
  BY <1>1 DEF Max
<1>3. x \in Int /\ Max(T) \in Int
  BY <1>2
<1>4. Max(T) <= x /\ x <= Max(T)
  BY <1>2
<1> QED
  BY ONLY <1>3, <1>4

LEMMA MinIs ==
  ASSUME NEW T \in SUBSET Int, NEW x \in T, \A y \in T : x <= y
  PROVE  Min(T) = x
<1>1. Min(T) \in T /\ \A y \in T : Min(T) <= y
  BY DEF Min
<1>2. x \in Int /\ Min(T) \in Int
  BY <1>1
<1>3. Min(T) <= x /\ x <= Min(T)
  BY <1>1
<1> QED
  BY ONLY <1>2, <1>3

\* Between two calls the labels tell the same cells as the log.
LEMMA CellStartsAreCells ==
  ASSUME Arrays, pc = "idle"
  PROVE  CellStarts = Cells
BY IndicesAreCells, CellsAreIndices DEF CellStarts, Arrays

\* The arrays agree because each of them agrees with the log of cuts.
LEMMA ArraysAgree ==
  ASSUME Arrays
  PROVE  CellsAgree
<1>1. TypeOK
  BY DEF Arrays
<1> SUFFICES ASSUME pc = "idle"
             PROVE  /\ Range(elements) = Positions
                    /\ \A i \in Positions :
                           index_containing[elements[i]] = Max({k \in CellStarts : k <= i})
                    /\ \A k \in CellStarts :
                           cell_sizes[k] = Min({i \in CellStarts \cup {N} : i > k}) - k
                    /\ CellStarts \ {0} = {new_indices[i][2] : i \in DOMAIN new_indices}
                    /\ length = Cardinality(CellStarts)
  BY <1>1 DEF CellsAgree
<1>2. /\ CellStarts = Cells /\ Cells \in SUBSET Positions /\ 0 \in Cells
      /\ new_indices \in Logs /\ Len(new_indices) \in Nat
      /\ \A i \in Positions : IndexRight(i)
      /\ Permutes(elements) /\ SizesFit(Cells, cell_sizes) /\ LogFits(new_indices) /\ CountKept
  BY <1>1, CellStartsAreCells, CellsAreIndices, Idle
     DEF Arrays, ElementsKept, SizesKept, LogKept
<1>3. Range(elements) = Positions
  <2>1. DOMAIN elements = Positions
    BY <1>2 DEF Permutes
  <2> QED
    BY <1>2, <2>1 DEF Permutes, Range
<1>4. ASSUME NEW i \in Positions
      PROVE  index_containing[elements[i]] = Max({k \in CellStarts : k <= i})
  <2> DEFINE T == {k \in CellStarts : k <= i}
  <2>1. T \in SUBSET Int
    <3>1. T \subseteq Cells
      BY <1>2
    <3>2. Positions \subseteq Int
      BY DEF Positions
    <3> HIDE DEF T
    <3> QED
      BY <1>2, <3>1, <3>2
  <2>2. CellOf(i) \in T /\ \A k \in T : k <= CellOf(i)
    BY <1>2 DEF IndexRight, StartOf
  <2> HIDE DEF T
  <2>3. Max(T) = CellOf(i)
    BY <2>1, <2>2, MaxIs
  <2> QED
    BY <2>3 DEF T, CellOf
<1>5. ASSUME NEW k \in CellStarts
      PROVE  cell_sizes[k] = Min({i \in CellStarts \cup {N} : i > k}) - k
  <2> DEFINE T == {i \in Cells \cup {N} : i > k}
             e == k + cell_sizes[k]
  <2>1. /\ k \in Cells /\ k \in 0 .. N - 1 /\ N \in Nat /\ Cells \subseteq 0 .. N - 1
        /\ cell_sizes[k] \in 1 .. N /\ (e = N \/ e \in Cells) /\ \A t \in Cells : k < t => e <= t
    BY <1>2, NPositive DEF SizesFit, Positions
  <2>2. T \in SUBSET Int /\ e \in Int /\ k < e
    <3>1. e \in Int /\ k < e
      BY <2>1
    <3>2. T \subseteq Cells \cup {N} /\ Cells \cup {N} \subseteq Int
      BY <2>1
    <3> QED
      BY <3>1, <3>2
  <2>3. e \in T
    BY <2>1, <2>2
  <2>4. e <= N
    BY <2>1, <2>2
  <2>5. \A t \in T : e <= t
    BY <2>1, <2>4
  <2> HIDE DEF T, e
  <2>6. Min(T) = e
    BY <2>2, <2>3, <2>5, MinIs
  <2>7. cell_sizes[k] = e - k
    BY <2>1 DEF e
  <2> QED
    BY <1>2, <2>6, <2>7 DEF T
<1>6. CellStarts \ {0} = {new_indices[i][2] : i \in DOMAIN new_indices}
  <2>1. DOMAIN new_indices = 1 .. Len(new_indices)
    BY <1>2 DEF Logs
  <2>2. \A i \in 1 .. Len(new_indices) : new_indices[i][2] # 0
    BY <1>2 DEF LogFits, StartsIn
  <2> QED
    BY <1>2, <2>1, <2>2 DEF Cells, StartsIn
<1>7. length = Cardinality(CellStarts)
  BY <1>2 DEF length, CountKept
<1> QED
  BY <1>3, <1>4, <1>5, <1>6, <1>7

\* CellsAgree, for every number of elements and of levels: between two calls elements is
\* a permutation whose cells, labels, sizes and log of cuts agree, and length counts them.
THEOREM CellsAgreeTheorem == Spec => []CellsAgree
<1>1. Arrays => CellsAgree
  BY ArraysAgree
<1> QED
  BY <1>1, ArraysInvariant, PTL

\* A forward link leads to the first element after it, or to the end.
LEMMA NextIsFirstAfter ==
  ASSUME NEW B \in SUBSET Inner, NEW k \in Int, -1 <= k, NEW m \in Positions, NextIn(B, k, m),
         NEW T, T = {j \in B : j > k}
  PROVE  OrTerminal(m) = IF T = {} THEN terminal_index ELSE Min(T)
<1>1. N \in Nat /\ \A j \in B : j \in Int /\ j < N - 1
  BY NPositive DEF Inner
<1>2. CASE m \in B /\ k < m /\ \A j \in B : k < j => m <= j
  <2>1. m \in T /\ T \in SUBSET Int /\ \A j \in T : m <= j
    BY <1>1, <1>2
  <2>2. Min(T) = m
    BY <2>1, MinIs
  <2> QED
    BY <1>1, <1>2, <2>1, <2>2 DEF OrTerminal
<1>3. CASE m = N - 1 /\ \A j \in B : j <= k
  <2>1. T = {}
    BY <1>1, <1>3
  <2>2. ~ (m < N - 1)
    BY <1>1, <1>3
  <2> QED
    BY <2>1, <2>2 DEF OrTerminal
<1> QED
  BY <1>2, <1>3 DEF NextIn

\* The list is that of the ring of cells.
LEMMA ArraysListed ==
  ASSUME Arrays
  PROVE  NontrivialListed
<1> SUFFICES ASSUME pc = "idle" PROVE NontrivialListed
  BY DEF NontrivialListed
<1> DEFINE cells == {k \in CellStarts : is_nontrivial_index(k)}
           B == Big(Cells)
           list == nontrivial_list
           FirstOf(T) == IF T = {} THEN terminal_index ELSE Min(T)
<1>1. /\ CellStarts = Cells /\ Cells \in SUBSET Positions /\ list \in Lists
      /\ SizesFit(Cells, cell_sizes) /\ Ring(B, list) /\ B \in SUBSET Inner
  BY CellStartsAreCells, CellsAreIndices, BigIsInner DEF Arrays, SizesKept, LinksKept, LinksFit, Cells
<1>2. cells = B
  <2>1. \A k \in Cells : is_index(k)
    BY <1>1, IndicesAreCells
  <2>2. \A k \in Cells : k \in B <=> cell_sizes[k] > 1
    BY <1>1, BigIsSize
  <2>3. B \subseteq Cells
    BY DEF Big
  <2> HIDE DEF B
  <2> QED
    BY <1>1, <2>1, <2>2, <2>3 DEF is_nontrivial_index
<1> HIDE DEF B
<1>3. N - 1 \in Positions /\ \A k \in B : k \in Positions /\ k \in Int /\ -1 <= k /\ k > -1 /\ k < N - 1
  BY <1>1, NPositive DEF Inner
<1>4. first_nontrivial_index = FirstOf(B)
  <2>1. NextOf(list, N - 1) \in Positions /\ NextIn(B, -1, NextOf(list, N - 1))
    BY <1>1, <1>3, LinksArePositions DEF Ring
  <2>2. B = {j \in B : j > -1}
    BY <1>3
  <2>3. -1 \in Int /\ -1 <= -1
    OBVIOUS
  <2>4. OrTerminal(NextOf(list, N - 1)) = FirstOf(B)
    BY <1>1, <2>1, <2>2, <2>3, NextIsFirstAfter
  <2> QED
    BY <2>4 DEF first_nontrivial_index, NextOf
<1>5. ASSUME NEW k \in B
      PROVE  /\ next_nontrivial_index(k) = FirstOf({j \in B : j > k})
             /\ list[list[k].next].prev = k
  <2> DEFINE m == NextOf(list, k)
  <2>1. m \in Positions /\ NextIn(B, k, m)
    BY <1>1, <1>3, LinksArePositions DEF Ring, Linked
  <2> HIDE DEF m
  <2>2. OrTerminal(m) = FirstOf({j \in B : j > k})
    BY <1>1, <1>3, <2>1, NextIsFirstAfter
  <2>3. PrevOf(list, m) \in Positions
    BY <1>1, <2>1, LinksArePositions
  <2>4. PrevIn(B, m, PrevOf(list, m))
    BY <1>1, <2>1 DEF NextIn, Ring, Linked
  <2>5. PrevIn(B, m, k)
    <3>1. k < m /\ \A j \in B : j < m => j <= k
      BY <1>3, <2>1 DEF NextIn
    <3> QED
      BY <3>1 DEF PrevIn
  <2>6. PrevOf(list, m) = k
    <3>1. m \in Int
      BY <2>1 DEF Positions
    <3> QED
      BY <1>1, <1>3, <2>3, <2>4, <2>5, <3>1, LinkIsUnique
  <2> QED
    BY <2>2, <2>6 DEF m, next_nontrivial_index, NextOf, PrevOf
<1> QED
  BY <1>2, <1>4, <1>5 DEF NontrivialListed

\* NontrivialListed, for every number of elements and of levels: between two calls the
\* threaded list visits the cells of more than one element in ascending order, ends, and
\* can be followed back.
THEOREM NontrivialTheorem == Spec => []NontrivialListed
<1>1. Arrays => NontrivialListed
  BY ArraysListed
<1> QED
  BY <1>1, ArraysInvariant, PTL
-----------------------------------------------------------------------------
(* The nest as a stack of partitions *)

\* p gives the elements the labels of the partition with the starts S.
Labels(p, e, S) ==
    /\ S \in SUBSET Positions /\ p \in [Positions -> Positions]
    /\ \A i \in Positions : StartOf(S, p[e[i]], i)

\* The partition that the starts S tell, and the starts of a level.
PartitionOf(e, S) ==
    [u \in Positions |-> LET i == CHOOSE i \in Positions : e[i] = u
                         IN  Max({k \in S : k <= i})]

StartsOfLevel(log, levels, j) == StartsIn(log, SumOf(SubSeq(levels, 1, j + 1)))

\* Only one labelling fits.
LEMMA LabelsAreUnique ==
  ASSUME NEW e, Permutes(e), NEW S, NEW p, Labels(p, e, S), NEW q, Labels(q, e, S)
  PROVE  p = q
<1>1. ASSUME NEW u \in Positions PROVE p[u] = q[u]
  <2>1. PICK i \in Positions : e[i] = u
    BY DEF Permutes
  <2> QED
    BY <2>1, StartIsUnique DEF Labels
<1> QED
  BY <1>1 DEF Labels

\* The partition that the starts tell has them as labels.
LEMMA PartitionLabels ==
  ASSUME NEW e, Permutes(e), NEW S \in SUBSET Positions, 0 \in S
  PROVE  Labels(PartitionOf(e, S), e, S)
<1> DEFINE p == PartitionOf(e, S)
           At(u) == CHOOSE i \in Positions : e[i] = u
           Below(i) == {k \in S : k <= i}
<1>1. p = [u \in Positions |-> Max(Below(At(u)))]
  BY DEF PartitionOf
<1>2. ASSUME NEW i \in Positions PROVE At(e[i]) = i /\ e[i] \in Positions
  <2>1. e[i] \in Positions /\ \E x \in Positions : e[x] = e[i]
    BY DEF Permutes
  <2>2. At(e[i]) \in Positions /\ e[At(e[i])] = e[i]
    BY <2>1
  <2> HIDE DEF At
  <2> QED
    BY <2>1, <2>2 DEF Permutes
<1>3. ASSUME NEW i \in Positions PROVE StartOf(S, Max(Below(i)), i)
  <2>1. Below(i) \in SUBSET Int /\ Below(i) # {} /\ i \in Int /\ \A k \in Below(i) : k <= i
    <3>1. S \subseteq Int /\ i \in Int /\ 0 <= i
      BY DEF Positions
    <3> QED
      BY <3>1
  <2>2. PICK x \in Below(i) : \A k \in Below(i) : k <= x
    <3> HIDE DEF Below
    <3> QED
      BY <2>1, Greatest
  <2>3. Max(Below(i)) = x
    <3> HIDE DEF Below
    <3> QED
      BY <2>1, <2>2, MaxIs
  <2> QED
    BY <2>2, <2>3 DEF StartOf
<1> HIDE DEF At, Below
<1>4. ASSUME NEW i \in Positions PROVE StartOf(S, p[e[i]], i)
  BY <1>1, <1>2, <1>3
<1>5. \A u \in Positions : p[u] \in Positions
  <2> SUFFICES ASSUME NEW u \in Positions PROVE p[u] \in Positions
    OBVIOUS
  <2>1. PICK i \in Positions : e[i] = u
    BY DEF Permutes
  <2> QED
    BY <1>4, <2>1 DEF StartOf
<1>6. p \in [Positions -> Positions]
  BY <1>1, <1>5
<1> QED
  BY <1>4, <1>6 DEF Labels

\* The cuts of the lower levels are the first of the log.
LEMMA LevelsOfLog ==
  ASSUME NEW log \in Logs, NEW levels \in Seq(Nat), SumOf(levels) <= Len(log),
         NEW j \in 0 .. Len(levels) - 1
  PROVE  /\ SumOf(SubSeq(levels, 1, j + 1)) \in 0 .. SumOf(levels)
         /\ StartsOfLevel(log, levels, j) \in SUBSET StartsIn(log, Len(log))
         /\ StartsOfLevel(log, levels, j) \in SUBSET Positions /\ 0 \in StartsOfLevel(log, levels, j)
<1> DEFINE n == SumOf(SubSeq(levels, 1, j + 1))
<1>1. Len(log) \in Nat /\ Len(levels) \in Nat /\ SumOf(levels) \in Nat
  BY SumAppend DEF Logs
<1>2. n \in 0 .. SumOf(levels)
  <2>1. j + 1 \in 0 .. Len(levels)
    BY <1>1
  <2>2. /\ n \in Nat /\ SumOf(SubSeq(levels, (j + 1) + 1, Len(levels))) \in Nat
        /\ n + SumOf(SubSeq(levels, (j + 1) + 1, Len(levels))) = SumOf(levels)
    BY <2>1, SumOfParts
  <2> HIDE DEF n
  <2> QED
    BY <1>1, <2>2
<1> HIDE DEF n
<1>3. n \in 0 .. Len(log) /\ Len(log) \in 0 .. Len(log)
  BY <1>1, <1>2
<1>4. /\ StartsIn(log, n) \subseteq StartsIn(log, Len(log))
      /\ StartsIn(log, n) \in SUBSET Positions /\ 0 \in StartsIn(log, n)
  BY <1>3, StartsGrow, StartsAreIndices
<1> QED
  BY <1>2, <1>4 DEF StartsOfLevel, n

\* What callers see of a level has the labels that the log tells.
Shown ==
    \A j \in 0 .. level :
        Labels(Seen(j), elements, StartsOfLevel(new_indices, new_indices_at_level, j))

\* The cuts of the levels and those about to be undone are the log.
LEMMA LogAndLevels ==
  ASSUME Arrays
  PROVE  /\ new_indices \in Logs /\ new_indices_at_level \in Seq(Nat) /\ Len(new_indices) \in Nat
         /\ SumOf(new_indices_at_level) \in Nat /\ undo.count \in Nat
         /\ SumOf(new_indices_at_level) + undo.count = Len(new_indices)
         /\ SumOf(new_indices_at_level) <= Len(new_indices)
         /\ Len(new_indices_at_level) \in Nat /\ Len(new_indices_at_level) >= 1
         /\ level = Len(new_indices_at_level) - 1 /\ level \in Nat
<1>1. /\ new_indices \in Logs /\ new_indices_at_level \in Seq(Nat) /\ undo.count \in Nat
      /\ LevelsKept
  BY DEF Arrays, TypeOK, Logs
<1>2. /\ Len(new_indices) \in Nat /\ Len(new_indices_at_level) \in Nat
      /\ SumOf(new_indices_at_level) \in Nat
  BY <1>1, SumAppend DEF Logs
<1>3. /\ SumOf(new_indices_at_level) + undo.count = Len(new_indices)
      /\ Len(new_indices_at_level) >= 1
  BY <1>1 DEF LevelsKept
<1>4. \A a, b, c \in Nat : a + b = c => a <= c
  OBVIOUS
<1> QED
  BY <1>1, <1>2, <1>3, <1>4 DEF level

\* The top level has the cells of the whole log when no cut is about to be undone.
LEMMA TopIsCells ==
  ASSUME Arrays, undo.count = 0
  PROVE  StartsOfLevel(new_indices, new_indices_at_level, level) = Cells
<1>1. level + 1 = Len(new_indices_at_level) /\ SumOf(new_indices_at_level) = Len(new_indices)
  BY LogAndLevels
<1>2. SubSeq(new_indices_at_level, 1, level + 1) = new_indices_at_level
  BY <1>1, LogAndLevels, SubSeqFull
<1> QED
  BY <1>1, <1>2 DEF StartsOfLevel, Cells

\* Outside of the loops the top is seen through index_containing, which agrees with the log.
LEMMA ShownInArrays == Arrays => Shown
<1> SUFFICES ASSUME Arrays, NEW j \in 0 .. level
             PROVE  Labels(Seen(j), elements,
                           StartsOfLevel(new_indices, new_indices_at_level, j))
  BY DEF Shown
<1> DEFINE S == StartsOfLevel(new_indices, new_indices_at_level, j)
<1>1. Permutes(elements) /\ index_containing \in [Positions -> Positions]
  BY DEF Arrays, ElementsKept, TypeOK
<1>2. S \in SUBSET Positions /\ 0 \in S
  <2>1. j \in 0 .. Len(new_indices_at_level) - 1
    BY LogAndLevels
  <2> QED
    BY <2>1, LogAndLevels, LevelsOfLog
<1>3. PartitionOfLevel(j) = PartitionOf(elements, S)
  BY DEF PartitionOfLevel, IndicesOfLevel, PartitionOf, StartsOfLevel, StartsIn
<1> HIDE DEF S
<1>4. Labels(PartitionOfLevel(j), elements, S)
  BY <1>1, <1>2, <1>3, PartitionLabels
<1>5. ASSUME j = level, pc = "idle" PROVE Labels(index_containing, elements, S)
  <2>1. undo.count = 0 /\ \A i \in Positions : IndexRight(i)
    BY <1>5, Idle DEF NoUndo
  <2>2. S = Cells
    BY <1>5, <2>1, TopIsCells DEF S
  <2> QED
    BY <1>1, <1>2, <2>1, <2>2 DEF Labels, IndexRight, CellOf
<1> QED
  BY <1>4, <1>5 DEF Seen, S

\* The refinement mapping.
NestSeen == [j \in 1 .. level + 1 |-> Seen(j - 1)]

Pending == Range(new_index_queue)

Partitions == [Positions -> Positions]

NestFits ==
    /\ NestSeen \in Seq(Partitions) /\ Len(NestSeen) = level + 1
    /\ \A j \in 0 .. level : NestSeen[j + 1] = Seen(j) /\ Seen(j) \in Partitions

\* The mapping gives a sequence with one partition per level.
LEMMA NestIsSeq == Arrays => NestFits
<1> SUFFICES ASSUME Arrays PROVE NestFits
  OBVIOUS
<1>1. level \in Nat
  BY LogAndLevels
<1>2. \A j \in 0 .. level : Seen(j) \in Partitions
  BY ShownInArrays DEF Shown, Labels, Partitions
<1>3. ASSUME NEW j \in 1 .. level + 1 PROVE Seen(j - 1) \in Partitions
  <2>1. j - 1 \in 0 .. level
    BY <1>1
  <2> QED
    BY <1>2, <2>1
<1>4. level + 1 \in Nat
  BY <1>1
<1>5. NestSeen \in [1 .. level + 1 -> Partitions]
  BY <1>3 DEF NestSeen
<1>6. NestSeen \in Seq(Partitions) /\ Len(NestSeen) = level + 1
  BY <1>4, <1>5
<1>7. ASSUME NEW j \in 0 .. level PROVE NestSeen[j + 1] = Seen(j)
  <2>1. j + 1 \in 1 .. level + 1 /\ (j + 1) - 1 = j
    BY <1>1
  <2> QED
    BY <2>1 DEF NestSeen
<1> QED
  BY <1>2, <1>6, <1>7 DEF NestFits

\* The next sight of a level is the same if its labels still fit.
LEMMA SightLasts ==
  ASSUME Arrays', Shown', NEW j \in 0 .. level',
         NEW S, S = StartsOfLevel(new_indices', new_indices_at_level', j),
         NEW p, Labels(p, elements', S)
  PROVE  Seen(j)' = p
<1>1. Permutes(elements') /\ Labels(Seen(j)', elements', S)
  BY DEF Arrays, ElementsKept, Shown
<1> QED
  BY <1>1, LabelsAreUnique

\* The steps of the stack, in terms of the mapping.
LEMMA AskInNest ==
  ASSUME NEW k \in Positions, NestSeen' = NestSeen, Pending' = Pending \cup {k},
         k \notin {NestSeen[Len(NestSeen)][u] : u \in Positions}
  PROVE  Nest!Next
<1>1. Nest!Ask(k)
  BY DEF Nest!Ask, Nest!Indices, Nest!Top, Nest!Elements, NestSeen, Pending, Positions
<1> QED
  BY <1>1 DEF Nest!Next, Nest!Elements, Positions

\* A cut that was asked for.
LEMMA CutInNest ==
  ASSUME NEW k \in Pending, Pending' = Pending \ {k}, Len(NestSeen') = Len(NestSeen),
         Nest!Front(NestSeen') = Nest!Front(NestSeen),
         Nest!Cuts(NestSeen[Len(NestSeen)], NestSeen'[Len(NestSeen)], k)
  PROVE  Nest!Next
<1>1. Nest!Cut(k)
  BY DEF Nest!Cut, Nest!Top, NestSeen, Pending
<1> QED
  BY <1>1 DEF Nest!Next, Pending

\* A copy of the top.
LEMMA PushInNest ==
  ASSUME NestSeen' = Append(NestSeen, NestSeen[Len(NestSeen)]), Pending' = Pending
  PROVE  Nest!Next
<1>1. Nest!Push
  BY DEF Nest!Push, Nest!Top, NestSeen, Pending
<1> QED
  BY <1>1 DEF Nest!Next

\* The lowest levels.
LEMMA DropInNest ==
  ASSUME NEW m \in 0 .. Len(NestSeen) - 1, NestSeen' = SubSeq(NestSeen, 1, m + 1),
         Pending' = {}
  PROVE  Nest!Next
<1>1. Nest!Drop(m)
  BY DEF Nest!Drop, NestSeen, Pending
<1> QED
  BY <1>1 DEF Nest!Next, NestSeen

UnitLabels == [u \in Positions |-> 0]

\* The unit partition alone.
LEMMA ResetInNest ==
  ASSUME NestSeen' = <<UnitLabels>>, Pending' = {}
  PROVE  Nest!Next
<1>1. Nest!Reset
  BY DEF Nest!Reset, Nest!UnitPartition, Nest!Elements, UnitLabels, Positions, NestSeen, Pending
<1> QED
  BY <1>1 DEF Nest!Next

\* A step that changes nothing callers see.
LEMMA StutterInNest ==
  ASSUME NestSeen' = NestSeen, Pending' = Pending
  PROVE  UNCHANGED Nest!vars
BY DEF Nest!vars, NestSeen, Pending

\* Callers see the same levels if the labels that they saw fit the elements and the log.
LEMMA NestLasts ==
  ASSUME Arrays, Shown, Arrays', Shown', level' = level,
         \A j \in 0 .. level :
             Labels(Seen(j), elements', StartsOfLevel(new_indices', new_indices_at_level', j))
  PROVE  NestSeen' = NestSeen
<1>1. \A j \in 0 .. level : Seen(j)' = Seen(j)
  BY SightLasts
<1>2. level \in Nat
  BY LogAndLevels
<1>3. ASSUME NEW j \in 1 .. level + 1 PROVE Seen(j - 1)' = Seen(j - 1)
  <2>1. j - 1 \in 0 .. level
    BY <1>2
  <2> QED
    BY <1>1, <2>1
<1> QED
  BY <1>3 DEF NestSeen

\* They see the same levels if neither elements nor log change.
LEMMA NestStays ==
  ASSUME Arrays, Shown, Arrays', Shown',
         UNCHANGED <<elements, new_indices, new_indices_at_level>>
  PROVE  NestSeen' = NestSeen
<1>1. level' = level
  BY DEF level
<1>2. \A j \in 0 .. level :
          Labels(Seen(j), elements', StartsOfLevel(new_indices', new_indices_at_level', j))
  BY DEF Shown
<1> QED
  BY <1>1, <1>2, NestLasts

\* f is e with two elements of one cell of T exchanged.
SwapsIn(T, e, f) ==
    \E i, j, c \in Positions : /\ StartOf(T, c, i) /\ StartOf(T, c, j)
                              /\ f = [e EXCEPT ![i] = e[j], ![j] = e[i]]

\* That disturbs no partition that is coarser.
LEMMA CoarserLabels ==
  ASSUME NEW e, Permutes(e), NEW T \in SUBSET Positions, NEW f, SwapsIn(T, e, f),
         NEW S \in SUBSET T, NEW p, Labels(p, e, S)
  PROVE  Labels(p, f, S)
<1>1. PICK i \in Positions, j \in Positions, c \in Positions :
          /\ StartOf(T, c, i) /\ StartOf(T, c, j)
          /\ f = [e EXCEPT ![i] = e[j], ![j] = e[i]]
  BY DEF SwapsIn
<1>2. \A x \in Positions : f[x] = IF x = j THEN e[i] ELSE IF x = i THEN e[j] ELSE e[x]
  BY <1>1 DEF Permutes
<1>3. \A s \in Positions : StartOf(S, s, i) <=> StartOf(S, s, j)
  BY <1>1 DEF StartOf, Positions
<1>4. \A x \in Positions : p[e[x]] \in Positions /\ StartOf(S, p[e[x]], x)
  BY DEF Labels, Permutes
<1> QED
  BY <1>2, <1>3, <1>4 DEF Labels

\* The labels are the starts, and each start is labelled by itself.
LEMMA LabelsAreStarts ==
  ASSUME NEW e, Permutes(e), NEW S, NEW p, Labels(p, e, S)
  PROVE  {p[u] : u \in Positions} = S
<1>1. ASSUME NEW u \in Positions PROVE p[u] \in S
  <2>1. PICK i \in Positions : e[i] = u
    BY DEF Permutes
  <2> QED
    BY <2>1 DEF Labels, StartOf
<1>2. ASSUME NEW s \in S PROVE \E u \in Positions : p[u] = s
  <2>1. S \in SUBSET Positions /\ s \in Positions
    BY DEF Labels
  <2>2. StartOf(S, s, s)
    BY <2>1, StartOfItself
  <2>3. StartOf(S, p[e[s]], s) /\ e[s] \in Positions
    BY <2>1 DEF Labels, Permutes
  <2>4. p[e[s]] = s
    BY <2>1, <2>2, <2>3, StartIsUnique
  <2> QED
    BY <2>3, <2>4
<1> QED
  BY <1>1, <1>2

\* The elements with smaller labels are those before the cell.
LEMMA LabelCounts ==
  ASSUME NEW e, Permutes(e), NEW S, NEW p, Labels(p, e, S), NEW c \in S
  PROVE  Cardinality({v \in Positions : p[v] < c}) = c
<1> DEFINE Low == 0 .. c - 1
           B == {v \in Positions : p[v] < c}
           f == [i \in Low |-> e[i]]
<1>1. c \in Positions /\ S \in SUBSET Positions /\ c \in Nat /\ Low \subseteq Positions
  BY NPositive DEF Labels, Positions
<1>2. ASSUME NEW i \in Positions PROVE p[e[i]] < c <=> i \in Low
  <2>1. StartOf(S, p[e[i]], i) /\ p[e[i]] \in Positions
    BY DEF Labels, Permutes
  <2> QED
    BY <1>1, <2>1 DEF StartOf, Positions
<1>3. \A i \in Low : e[i] \in Positions /\ e[i] \in B
  BY <1>1, <1>2 DEF Permutes
<1>4. \A v \in B : \E i \in Low : e[i] = v
  BY <1>2 DEF Permutes
<1>5. \A i, j \in Low : e[i] = e[j] => i = j
  BY <1>1 DEF Permutes
<1>6. IsFiniteSet(Low) /\ Cardinality(Low) = c
  <2>1. 0 \in Int /\ c - 1 \in Int
    BY <1>1
  <2>2. IsFiniteSet(Low) /\ Cardinality(Low) = IF 0 > c - 1 THEN 0 ELSE (c - 1) - 0 + 1
    BY <2>1, FS_Interval
  <2> HIDE DEF Low
  <2> QED
    BY <1>1, <2>2
<1> HIDE DEF Low, B
<1>7. f \in [Low -> B] /\ \A i \in Low : f[i] = e[i]
  BY <1>3
<1> HIDE DEF f
<1>8. f \in Surjection(Low, B)
  BY <1>4, <1>7 DEF Surjection
<1>9. f \in Injection(Low, B)
  BY <1>5, <1>7 DEF Injection, IsInjective
<1>10. Cardinality(B) = Cardinality(Low)
  BY <1>6, <1>8, <1>9, FS_Surjection
<1> QED
  BY <1>6, <1>10 DEF B

\* The labels are a partition as the stack has them.
LEMMA LabelsArePartition ==
  ASSUME NEW e, Permutes(e), NEW S, NEW p, Labels(p, e, S)
  PROVE  p \in Nest!OrderedPartitions
<1>1. ASSUME NEW u \in Positions PROVE p[u] = Cardinality({v \in Positions : p[v] < p[u]})
  <2>1. p[u] \in S
    BY LabelsAreStarts
  <2> QED
    BY <2>1, LabelCounts
<1>2. p \in [Positions -> Positions]
  BY DEF Labels
<1>3. Positions = Nest!Elements
  BY DEF Nest!Elements, Positions
<1>4. \A T : Nest!Cardinality(T) = Cardinality(T)
  BY DEF Nest!Cardinality, Cardinality
<1> QED
  BY <1>1, <1>2, <1>3, <1>4, Zenon DEF Nest!OrderedPartitions

\* One start more is one cut.
LEMMA OneStartCuts ==
  ASSUME NEW e, Permutes(e), NEW S, NEW k \in Positions,
         NEW p, Labels(p, e, S), NEW q, Labels(q, e, S \cup {k})
  PROVE  Nest!Cuts(p, q, k)
<1>1. q \in Nest!OrderedPartitions
  BY LabelsArePartition
<1>2. {q[u] : u \in Positions} = {p[u] : u \in Positions} \cup {k}
  <2>1. {q[u] : u \in Positions} = S \cup {k}
    BY LabelsAreStarts
  <2> QED
    BY <2>1, LabelsAreStarts
<1>3. ASSUME NEW u \in Positions, NEW v \in Positions, p[u] < p[v] PROVE q[u] < q[v]
  <2>1. PICK i \in Positions : e[i] = u
    BY DEF Permutes
  <2>2. PICK j \in Positions : e[j] = v
    BY DEF Permutes
  <2>3. /\ StartOf(S, p[u], i) /\ StartOf(S, p[v], j)
        /\ StartOf(S \cup {k}, q[u], i) /\ StartOf(S \cup {k}, q[v], j)
        /\ S \in SUBSET Positions
    BY <2>1, <2>2 DEF Labels
  <2>6. /\ q[u] \in Positions /\ q[v] \in Positions
        /\ p[u] \in Positions /\ p[v] \in Positions
    BY DEF Labels
  <2>4. i < p[v]
    <3>1. p[v] \in S /\ (p[v] <= i => p[v] <= p[u])
      BY <2>3 DEF StartOf
    <3> QED
      BY <1>3, <2>6, <3>1 DEF Positions
  <2>5. p[v] <= q[v] /\ q[u] <= i
    BY <2>3 DEF StartOf, Positions
  <2> QED
    BY <2>4, <2>5, <2>6 DEF Positions
<1> QED
  BY <1>1, <1>2, <1>3 DEF Nest!Cuts, Nest!Indices, Nest!Elements, Positions

\* The last level has the starts of the whole log.
LEMMA LastLevelOfLog ==
  ASSUME NEW log, NEW levels \in Seq(Nat), SumOf(levels) = Len(log), NEW j, j + 1 = Len(levels)
  PROVE  StartsOfLevel(log, levels, j) = StartsIn(log, Len(log))
<1>1. SubSeq(levels, 1, j + 1) = levels
  BY SubSeqFull
<1> QED
  BY <1>1 DEF StartsOfLevel

\* Levels and logs that begin alike have the same starts.
LEMMA SameLevelOfLog ==
  ASSUME NEW log, NEW log2, NEW start, NEW k, OneMore(log, log2, start, k),
         NEW levels \in Seq(Nat), SumOf(levels) <= Len(log), NEW j \in 0 .. Len(levels) - 1,
         NEW levels2, SubSeq(levels2, 1, j + 1) = SubSeq(levels, 1, j + 1)
  PROVE  StartsOfLevel(log2, levels2, j) = StartsOfLevel(log, levels, j)
<1> DEFINE n == SumOf(SubSeq(levels, 1, j + 1))
<1>1. log \in Logs /\ Len(log) \in Nat
  BY DEF OneMore
<1>2. n \in 0 .. SumOf(levels) /\ SumOf(levels) \in Nat
  BY <1>1, LevelsOfLog, SumAppend
<1>3. n \in 0 .. Len(log)
  <2> HIDE DEF n
  <2> QED
    BY <1>1, <1>2
<1>4. StartsOfLevel(log2, levels2, j) = StartsIn(log2, n)
  BY DEF StartsOfLevel
<1>5. StartsOfLevel(log, levels, j) = StartsIn(log, n)
  BY DEF StartsOfLevel
<1> HIDE DEF n
<1>6. StartsIn(log2, n) = StartsIn(log, n)
  BY <1>3, OneMoreStarts
<1> QED
  BY <1>4, <1>5, <1>6

\* What a step of the stack is proved from.
Known == Arrays /\ Shown /\ NestFits

\* All of it follows from the inductive invariant.
LEMMA ArraysAreKnown == Arrays => Known
BY ShownInArrays, NestIsSeq DEF Known

\* Sequences that begin alike.
LEMMA SamePrefix ==
  ASSUME NEW P, NEW s \in Seq(P), NEW t \in Seq(P), NEW n \in Nat, n <= Len(s), n <= Len(t),
         \A i \in 1 .. n : s[i] = t[i]
  PROVE  SubSeq(s, 1, n) = SubSeq(t, 1, n)
<1>1. Len(s) \in Nat /\ Len(t) \in Nat
  OBVIOUS
<1>2. \A i \in 1 .. n : i \in 1 .. Len(s) /\ i \in 1 .. Len(t)
  BY <1>1
<1>3. \A i \in 1 .. n : s[i] \in P /\ t[i] \in P
  BY <1>2
<1>4. /\ SubSeq(s, 1, n) \in Seq(P) /\ SubSeq(t, 1, n) \in Seq(P)
      /\ Len(SubSeq(s, 1, n)) = n /\ Len(SubSeq(t, 1, n)) = n
      /\ \A i \in 1 .. n : SubSeq(s, 1, n)[i] = s[i] /\ SubSeq(t, 1, n)[i] = t[i]
  <2>1. /\ SubSeq(s, 1, n) \in Seq(P)
        /\ Len(SubSeq(s, 1, n)) = IF 1 <= n THEN n - 1 + 1 ELSE 0
        /\ \A i \in 1 .. n - 1 + 1 : SubSeq(s, 1, n)[i] = s[1 + i - 1]
    BY <1>3, SubSeqProperties
  <2>2. /\ SubSeq(t, 1, n) \in Seq(P)
        /\ Len(SubSeq(t, 1, n)) = IF 1 <= n THEN n - 1 + 1 ELSE 0
        /\ \A i \in 1 .. n - 1 + 1 : SubSeq(t, 1, n)[i] = t[1 + i - 1]
    BY <1>3, SubSeqProperties
  <2> QED
    BY <2>1, <2>2
<1> DEFINE a == SubSeq(s, 1, n)
           b == SubSeq(t, 1, n)
<1>5. /\ a \in Seq(P) /\ b \in Seq(P) /\ Len(a) = n /\ Len(b) = n
      /\ \A i \in 1 .. n : a[i] = b[i]
  BY <1>4
<1> HIDE DEF a, b
<1>6. a = b
  BY <1>5, SeqEqual
<1> QED
  BY <1>6 DEF a, b

\* unit
LEMMA UnitInNest ==
  ASSUME Known, Known', unit
  PROVE  Nest!Next
<1>1. /\ pc' = "idle" /\ new_indices_at_level' = <<0>> /\ new_index_queue' = <<>>
      /\ index_containing' = UnitLabels
  BY DEF unit, UnitFrom, UnitLabels
<1>2. level' = 0
  BY <1>1 DEF level
<1>3. Len(NestSeen') = 1 /\ NestSeen'[1] = Seen(0)' /\ NestSeen' \in Seq(Partitions)
  BY <1>2 DEF Known, NestFits
<1>4. Seen(0)' = UnitLabels
  BY <1>1, <1>2 DEF Seen
<1>5. NestSeen' = <<UnitLabels>>
  BY <1>3, <1>4
<1>6. Pending' = {}
  BY <1>1 DEF Pending, Range
<1> QED
  BY <1>5, <1>6, ResetInNest

\* Exchanging two elements of one cell changes what is seen of no level.
LEMMA SwapLasts ==
  ASSUME Known, Known', pc = "idle", NEW i \in Positions, NEW j \in Positions,
         CellOf(i) = CellOf(j),
         elements' = [elements EXCEPT ![i] = elements[j], ![j] = elements[i]],
         UNCHANGED <<new_indices, new_indices_at_level>>
  PROVE  NestSeen' = NestSeen
<1>1. /\ Arrays /\ Arrays' /\ Shown /\ Shown' /\ Permutes(elements) /\ level' = level
      /\ Cells \in SUBSET Positions /\ new_indices \in Logs
  BY CellsAreIndices DEF Known, Arrays, ElementsKept, level
<1>2. SwapsIn(Cells, elements, elements')
  <2>1. StartOf(Cells, CellOf(i), i) /\ StartOf(Cells, CellOf(i), j)
    BY <1>1, Idle DEF IndexRight
  <2>2. CellOf(i) \in Positions
    BY <1>1, <2>1 DEF StartOf
  <2> QED
    BY <2>1, <2>2 DEF SwapsIn
<1>3. ASSUME NEW x \in 0 .. level
      PROVE  Labels(Seen(x), elements',
                    StartsOfLevel(new_indices', new_indices_at_level', x))
  <2> DEFINE S == StartsOfLevel(new_indices, new_indices_at_level, x)
  <2>1. /\ new_indices_at_level \in Seq(Nat) /\ SumOf(new_indices_at_level) <= Len(new_indices)
        /\ x \in 0 .. Len(new_indices_at_level) - 1
    BY <1>1, LogAndLevels
  <2>2. S \in SUBSET Cells
    BY <1>1, <2>1, LevelsOfLog DEF Cells
  <2>3. Labels(Seen(x), elements, S)
    BY <1>1 DEF Shown
  <2> HIDE DEF S
  <2>4. Labels(Seen(x), elements', S)
    BY <1>1, <1>2, <2>2, <2>3, CoarserLabels
  <2> QED
    BY <2>4 DEF S
<1> QED
  BY <1>1, <1>3, NestLasts

\* Callers that sort a cell.
LEMMA SwapInNest ==
  ASSUME Known, Known', NEW i \in Positions, NEW j \in Positions, SwapInCell(i, j)
  PROVE  UNCHANGED Nest!vars
<1>1. /\ pc = "idle" /\ CellOf(i) = CellOf(j)
      /\ elements' = [elements EXCEPT ![i] = elements[j], ![j] = elements[i]]
      /\ UNCHANGED <<new_indices, new_indices_at_level, new_index_queue>>
  BY DEF SwapInCell, CellOf
<1>2. NestSeen' = NestSeen
  BY <1>1, SwapLasts
<1>3. Pending' = Pending
  BY <1>1 DEF Pending
<1> QED
  BY <1>2, <1>3, StutterInNest

\* Between two calls the labels of the top are the cells.
LEMMA TopSeen ==
  ASSUME Known, undo.count = 0
  PROVE  /\ level \in Nat /\ NestSeen[Len(NestSeen)] = Seen(level)
         /\ Labels(Seen(level), elements, Cells)
         /\ {NestSeen[Len(NestSeen)][u] : u \in Positions} = Cells
<1>1. level \in Nat /\ level \in 0 .. level
  BY LogAndLevels DEF Known
<1>2. NestSeen[Len(NestSeen)] = Seen(level)
  BY <1>1 DEF Known, NestFits
<1>3. Labels(Seen(level), elements, Cells)
  BY <1>1, TopIsCells DEF Known, Shown
<1>4. {Seen(level)[u] : u \in Positions} = Cells
  BY <1>3, LabelsAreStarts DEF Known, Arrays, ElementsKept
<1> QED
  BY <1>1, <1>2, <1>3, <1>4

\* The queue with one more index.
LEMMA PendingGrows ==
  ASSUME new_index_queue \in Seq(Positions), NEW k \in Positions,
         new_index_queue' = Append(new_index_queue, k)
  PROVE  Pending' = Pending \cup {k}
<1>1. PICK n \in Nat : n = Len(new_index_queue)
  OBVIOUS
<1>2. /\ DOMAIN new_index_queue = 1 .. n /\ DOMAIN new_index_queue' = 1 .. n + 1
      /\ \A i \in 1 .. n : new_index_queue'[i] = new_index_queue[i]
      /\ new_index_queue'[n + 1] = k
  BY <1>1
<1>3. 1 .. n + 1 = (1 .. n) \cup {n + 1}
  OBVIOUS
<1> QED
  BY <1>2, <1>3 DEF Pending, Range

\* Nothing is about to be undone outside of recover_level.
LEMMA IdleQueue ==
  ASSUME Arrays, pc \in {"idle", "commit"}
  PROVE  new_index_queue \in Seq(Positions) /\ undo.count = 0
<1>1. undo = NoUndo
  BY DEF Arrays, LoopsKept
<1>2. undo.count = 0
  BY <1>1 DEF NoUndo
<1> QED
  BY <1>2 DEF Arrays, TypeOK

\* enqueue_new_index
LEMMA EnqueueInNest ==
  ASSUME Known, Known', NEW k \in Positions, enqueue_new_index(k)
  PROVE  Nest!Next
<1>1. /\ Arrays /\ Arrays' /\ Shown /\ Shown' /\ k \notin Cells /\ undo.count = 0
      /\ new_index_queue \in Seq(Positions)
  <2>1. Arrays /\ Arrays' /\ Shown /\ Shown' /\ pc = "idle" /\ ~ is_index(k)
    BY DEF enqueue_new_index, Known
  <2> QED
    BY <2>1, IndicesAreCells, IdleQueue
<1>2. Pending' = Pending \cup {k}
  BY <1>1, PendingGrows DEF enqueue_new_index
<1>3. NestSeen' = NestSeen
  BY <1>1, NestStays DEF enqueue_new_index, partition
<1>4. k \notin {NestSeen[Len(NestSeen)][u] : u \in Positions}
  BY <1>1, TopSeen
<1> QED
  BY <1>2, <1>3, <1>4, AskInNest

\* breakout
LEMMA BreakoutInNest ==
  ASSUME Known, Known', NEW u \in Positions, breakout(u)
  PROVE  Nest!Next
<1>1. PICK k \in Positions, i \in Positions :
          /\ k = index_containing[u] /\ k + 1 \in Positions /\ k + 1 \notin Cells
          /\ elements' = [elements EXCEPT ![k] = elements[i], ![i] = elements[k]]
          /\ CellOf(k) = CellOf(i)
  BY BreakoutSwaps DEF Known
<1>2. /\ pc = "idle" /\ new_index_queue' = Append(new_index_queue, k + 1)
      /\ UNCHANGED <<new_indices, new_indices_at_level>>
  BY <1>1 DEF breakout
<1>3. new_index_queue \in Seq(Positions) /\ undo.count = 0
  BY <1>2, IdleQueue DEF Known
<1>4. NestSeen' = NestSeen
  BY <1>1, <1>2, SwapLasts
<1>5. Pending' = Pending \cup {k + 1}
  BY <1>1, <1>2, <1>3, PendingGrows
<1>6. k + 1 \notin {NestSeen[Len(NestSeen)][v] : v \in Positions}
  BY <1>1, <1>3, TopSeen
<1> QED
  BY <1>1, <1>4, <1>5, <1>6, AskInNest

\* Steps that the stack does not see.
LEMMA UnseenInNest ==
  ASSUME Known, Known', UNCHANGED <<elements, new_indices, new_indices_at_level, new_index_queue>>
  PROVE  UNCHANGED Nest!vars
<1>1. NestSeen' = NestSeen
  BY NestStays DEF Known
<1>2. Pending' = Pending
  BY DEF Pending
<1> QED
  BY <1>1, <1>2, StutterInNest

\* An iteration of commit_pending_indices logs the head of the queue.
LEMMA CommitLogs ==
  ASSUME Arrays, CommitNext, NEW h, h = Head(new_index_queue)
  PROVE  /\ h \in Positions /\ h \notin Cells /\ undo.count = 0
         /\ new_index_queue \in Seq(Positions) /\ new_index_queue # <<>>
         /\ \E start : OneMore(new_indices, new_indices', start, h)
         /\ new_indices_at_level' =
                [new_indices_at_level EXCEPT ![Len(new_indices_at_level)] = @ + 1]
         /\ new_index_queue' = Tail(new_index_queue) /\ elements' = elements
<1> DEFINE r == CurrentRun
<1>1. /\ pc = "commit" /\ new_index_queue' = Tail(new_index_queue) /\ elements' = elements
      /\ \E m : commit_index(r.start, h, m)
  BY DEF CommitNext
<1>2. /\ h \in Positions /\ h \notin Cells /\ RunFits(r, h) /\ new_index_queue # <<>>
      /\ new_index_queue \in Seq(Positions) /\ undo.count = 0
  BY <1>1, QueueIsNotEmpty, RunOfHead, IdleQueue
<1> HIDE DEF r
<1>3. r.start \in Positions /\ new_indices \in Logs
  BY <1>2, CellsAreIndices DEF RunFits, Arrays
<1>4. /\ new_indices' = Append(new_indices, <<r.start, h>>)
      /\ new_indices_at_level' =
             [new_indices_at_level EXCEPT ![Len(new_indices_at_level)] = @ + 1]
  BY <1>1 DEF commit_index
<1>5. OneMore(new_indices, new_indices', r.start, h)
  BY <1>2, <1>3, <1>4, LogAppend
<1> QED
  BY <1>1, <1>2, <1>4, <1>5

\* The queue without its head, which is in no other place.
LEMMA PendingShrinks ==
  ASSUME Arrays, pc = "commit", new_index_queue' = Tail(new_index_queue),
         NEW h, h = Head(new_index_queue)
  PROVE  h \in Pending /\ Pending' = Pending \ {h}
<1> DEFINE q == new_index_queue
           q2 == new_index_queue'
<1>1. QueueKept /\ q \in Seq(Positions) /\ q # <<>>
  BY QueueIsNotEmpty DEF Arrays, TypeOK
<1>2. PICK n \in Nat : Len(q) = n + 1
  <2>1. Len(q) - 1 \in Nat /\ Len(q) = (Len(q) - 1) + 1
    BY <1>1
  <2> QED
    BY <2>1
<1>3. /\ DOMAIN q = 1 .. n + 1 /\ DOMAIN q2 = 1 .. n /\ h = q[1]
      /\ \A a \in 1 .. n : q2[a] = q[a + 1]
  BY <1>1, <1>2
<1>4. \A a, b \in 1 .. n + 1 : a < b /\ CellOf(q[a]) = CellOf(q[b]) => q[a] < q[b]
  BY <1>1, <1>2 DEF QueueKept
<1>5. \A a \in 1 .. n + 1 : q[a] \in Int
  <2>1. \A a \in 1 .. n + 1 : q[a] \in Positions
    BY <1>1, <1>2
  <2>2. Positions \subseteq Int
    BY DEF Positions
  <2> HIDE DEF q
  <2> QED
    BY <2>1, <2>2
<1>6. Pending = {q[a] : a \in 1 .. n + 1} /\ Pending' = {q2[a] : a \in 1 .. n}
  BY <1>3 DEF Pending, Range
<1> HIDE DEF q, q2
<1>7. \A a \in 2 .. n + 1 : q[a] # h
  <2> SUFFICES ASSUME NEW a \in 2 .. n + 1, q[a] = h PROVE FALSE
    OBVIOUS
  <2>1. a \in 1 .. n + 1 /\ 1 \in 1 .. n + 1 /\ 1 < a
    OBVIOUS
  <2>2. q[1] < q[a]
    BY <1>3, <1>4, <2>1
  <2> QED
    BY <1>3, <1>5, <2>1, <2>2
<1>8. Pending' = {q[a] : a \in 2 .. n + 1}
  <2>1. \A a \in 1 .. n : a + 1 \in 2 .. n + 1
    OBVIOUS
  <2>2. \A b \in 2 .. n + 1 : b - 1 \in 1 .. n /\ (b - 1) + 1 = b
    OBVIOUS
  <2>3. \A a \in 1 .. n : q2[a] \in {q[b] : b \in 2 .. n + 1}
    BY <1>3, <2>1
  <2>4. \A b \in 2 .. n + 1 : q[b] = q2[b - 1] /\ b - 1 \in 1 .. n
    BY <1>3, <2>2
  <2> QED
    BY <1>6, <2>3, <2>4
<1>9. Pending = {h} \cup {q[a] : a \in 2 .. n + 1}
  <2>1. 1 .. n + 1 = {1} \cup 2 .. n + 1
    OBVIOUS
  <2> QED
    BY <1>3, <1>6, <2>1
<1> DEFINE Others == {q[a] : a \in 2 .. n + 1}
<1>10. h \notin Others
  BY <1>7
<1> HIDE DEF Others
<1>11. Pending = {h} \cup Others /\ Pending' = Others
  BY <1>8, <1>9 DEF Others
<1> QED
  BY <1>10, <1>11

\* Sequences that differ in the last place.
LEMMA SameFront ==
  ASSUME NEW P, NEW s \in Seq(P), NEW t \in Seq(P), NEW n \in Nat, Len(s) = n + 1, Len(t) = n + 1,
         \A i \in 1 .. n : s[i] = t[i]
  PROVE  Nest!Front(s) = Nest!Front(t)
<1>1. n <= Len(s) /\ n <= Len(t) /\ Len(s) - 1 = n /\ Len(t) - 1 = n
  OBVIOUS
<1>2. SubSeq(s, 1, n) = SubSeq(t, 1, n)
  BY <1>1, SamePrefix
<1> QED
  BY <1>1, <1>2 DEF Nest!Front

\* An iteration of commit_pending_indices cuts the partition on top.
LEMMA CommitInNest ==
  ASSUME Known, Known', CommitNext
  PROVE  Nest!Next
<1> DEFINE h == Head(new_index_queue)
           log == new_indices
           log2 == new_indices'
           levels == new_indices_at_level
           levels2 == new_indices_at_level'
<1>1. /\ Arrays /\ Arrays' /\ Shown /\ Shown' /\ NestFits /\ NestFits' /\ pc = "commit"
      /\ Permutes(elements)
  BY DEF Known, CommitNext, Arrays, ElementsKept
<1>2. /\ h \in Positions /\ h \notin Cells /\ undo.count = 0
      /\ levels2 = [levels EXCEPT ![Len(levels)] = @ + 1]
      /\ new_index_queue' = Tail(new_index_queue) /\ elements' = elements
  BY <1>1, CommitLogs
<1>3. PICK start : OneMore(log, log2, start, h)
  BY <1>1, CommitLogs
<1>4. h \in Pending /\ Pending' = Pending \ {h}
  BY <1>1, <1>2, PendingShrinks
<1>5. /\ levels \in Seq(Nat) /\ Len(levels) \in Nat /\ Len(levels) >= 1 /\ log \in Logs
      /\ SumOf(levels) <= Len(log) /\ SumOf(levels) = Len(log)
      /\ level = Len(levels) - 1 /\ level \in Nat
  BY <1>1, <1>2, LogAndLevels
<1>t. PICK top \in Nat : top = level
  BY <1>5
<1>6. /\ levels2 \in Seq(Nat) /\ Len(levels2) = Len(levels) /\ SumOf(levels2) = Len(log2)
      /\ level' = top
  <2>1. levels2 \in Seq(Nat) /\ Len(levels2) = Len(levels) /\ SumOf(levels2) = SumOf(levels) + 1
    BY <1>2, <1>5, <1>t, SumOfOneMore
  <2>2. Len(log2) = Len(log) + 1
    BY <1>3 DEF OneMore
  <2> QED
    BY <1>5, <1>t, <2>1, <2>2 DEF level
<1>7. /\ Cells = StartsIn(log, Len(log)) /\ StartsIn(log2, Len(log2)) = Cells \cup {h}
  <2>1. StartsIn(log2, Len(log) + 1) = StartsIn(log, Len(log)) \cup {h}
    BY <1>3, OneMoreStarts
  <2>2. Len(log2) = Len(log) + 1
    BY <1>3 DEF OneMore
  <2> QED
    BY <2>1, <2>2 DEF Cells
<1>8. \A i \in 1 .. Len(levels) - 1 : levels2[i] = levels[i]
  BY <1>2, <1>5
<1> HIDE DEF log, log2, levels, levels2, h
<1>9. ASSUME NEW j \in 0 .. top, j # top PROVE Seen(j)' = Seen(j)
  <2>1. /\ j \in 0 .. Len(levels) - 1 /\ j + 1 \in Nat /\ j + 1 <= Len(levels)
        /\ j + 1 <= Len(levels2) /\ j + 1 <= Len(levels) - 1 /\ j \in 0 .. level'
    BY <1>5, <1>t, <1>6, <1>9
  <2>2. SubSeq(levels2, 1, j + 1) = SubSeq(levels, 1, j + 1)
    <3>1. \A i \in 1 .. j + 1 : levels2[i] = levels[i]
      BY <1>5, <1>t, <1>8, <2>1
    <3> QED
      BY <1>5, <1>t, <1>6, <2>1, <3>1, SamePrefix
  <2>3. StartsOfLevel(log2, levels2, j) = StartsOfLevel(log, levels, j)
    BY <1>3, <1>5, <1>t, <2>1, <2>2, SameLevelOfLog
  <2>4. Labels(Seen(j), elements', StartsOfLevel(log2, levels2, j))
    BY <1>1, <1>2, <1>t, <2>3 DEF Shown, log, levels
  <2> QED
    BY <1>1, <2>1, <2>4, SightLasts DEF log2, levels2
<1>10. Labels(Seen(top), elements, Cells) /\ NestSeen[Len(NestSeen)] = Seen(top)
  BY <1>2, <1>t, TopSeen
<1>11. Labels(Seen(top)', elements, Cells \cup {h})
  <2>1. StartsOfLevel(log2, levels2, top) = Cells \cup {h}
    <3>1. top + 1 = Len(levels2)
      BY <1>5, <1>t, <1>6
    <3> QED
      BY <1>6, <1>7, <3>1, LastLevelOfLog
  <2>2. top \in 0 .. level'
    BY <1>5, <1>t, <1>6
  <2>3. Labels(Seen(top)', elements', StartsOfLevel(log2, levels2, top))
    BY <1>1, <2>2 DEF Shown, log2, levels2
  <2> QED
    BY <1>2, <2>1, <2>3
<1>12. Nest!Cuts(Seen(top), Seen(top)', h)
  BY <1>1, <1>2, <1>10, <1>11, OneStartCuts
<1>13. /\ NestSeen \in Seq(Partitions) /\ NestSeen' \in Seq(Partitions)
       /\ Len(NestSeen) = top + 1 /\ Len(NestSeen') = top + 1
       /\ \A j \in 0 .. top : NestSeen[j + 1] = Seen(j) /\ NestSeen'[j + 1] = Seen(j)'
  BY <1>1, <1>6, <1>t DEF NestFits
<1>14. Nest!Front(NestSeen') = Nest!Front(NestSeen)
  <2>1. ASSUME NEW i \in 1 .. top PROVE NestSeen'[i] = NestSeen[i]
    <3>1. i - 1 \in 0 .. top /\ i - 1 # top /\ (i - 1) + 1 = i
      BY <1>5, <1>t
    <3> QED
      BY <1>9, <1>13, <3>1
  <2> QED
    BY <1>5, <1>t, <1>13, <2>1, SameFront
<1>15. NestSeen'[Len(NestSeen)] = Seen(top)'
  BY <1>5, <1>t, <1>13
<1> QED
  BY <1>4, <1>10, <1>12, <1>13, <1>14, <1>15, CutInNest

\* An iteration of recover_level takes a cut from the log that no level counts.
LEMMA UndoInNest ==
  ASSUME Known, Known', UndoCut
  PROVE  UNCHANGED Nest!vars
<1> DEFINE log == new_indices
           log2 == new_indices'
           levels == new_indices_at_level
           start == Last(new_indices)[1]
           k == Last(new_indices)[2]
<1>1. /\ Arrays /\ Arrays' /\ Shown /\ Shown' /\ undo.count > 0 /\ log2 = Front(log)
      /\ elements' = elements /\ new_index_queue' = new_index_queue
      /\ new_indices_at_level' = levels /\ level' = level
  BY DEF Known, UndoCut, level
<1>2. OneMore(log2, log, start, k)
  BY <1>1, LastCut
<1>3. /\ levels \in Seq(Nat) /\ Len(levels) \in Nat /\ level = Len(levels) - 1
      /\ SumOf(levels) \in Nat /\ undo.count \in Nat /\ SumOf(levels) + undo.count = Len(log)
  BY <1>1, LogAndLevels
<1>4. SumOf(levels) <= Len(log2)
  <2>1. Len(log) = Len(log2) + 1 /\ Len(log2) \in Nat
    BY <1>2 DEF OneMore
  <2> QED
    BY <1>1, <1>3, <2>1
<1> HIDE DEF log, log2, levels, start, k
<1>5. ASSUME NEW j \in 0 .. level
      PROVE  Labels(Seen(j), elements', StartsOfLevel(log2, levels, j))
  <2>1. j \in 0 .. Len(levels) - 1
    BY <1>3
  <2>2. StartsOfLevel(log, levels, j) = StartsOfLevel(log2, levels, j)
    BY <1>2, <1>3, <1>4, <2>1, SameLevelOfLog
  <2> QED
    BY <1>1, <2>2 DEF Shown, log, levels
<1>6. NestSeen' = NestSeen
  BY <1>1, <1>5, NestLasts DEF log2
<1>7. Pending' = Pending
  BY <1>1 DEF Pending
<1> QED
  BY <1>6, <1>7, StutterInNest

\* advance_level
LEMMA AdvanceInNest ==
  ASSUME Known, Known', advance_level
  PROVE  Nest!Next
<1> DEFINE log == new_indices
           levels == new_indices_at_level
           levels2 == new_indices_at_level'
<1>1. /\ Arrays /\ Arrays' /\ Shown /\ Shown' /\ NestFits /\ NestFits' /\ undo.count = 0
      /\ levels2 = Append(levels, 0) /\ elements' = elements
      /\ new_index_queue' = new_index_queue /\ new_indices' = log
  BY IdleQueue DEF Known, advance_level, partition
<1>2. /\ levels \in Seq(Nat) /\ log \in Logs /\ SumOf(levels) \in Nat
      /\ SumOf(levels) = Len(log) /\ Len(levels) \in Nat /\ level = Len(levels) - 1
      /\ level \in Nat
  BY <1>1, LogAndLevels
<1>3. PICK top \in Nat : top = level
  BY <1>2
<1>4. /\ levels2 \in Seq(Nat) /\ Len(levels2) = top + 2 /\ Len(levels) = top + 1
      /\ level' = top + 1 /\ SumOf(levels2) = Len(log)
      /\ \A i \in 1 .. top + 1 : levels2[i] = levels[i]
  <2>1. /\ levels2 \in Seq(Nat) /\ Len(levels2) = Len(levels) + 1
        /\ \A i \in 1 .. Len(levels) : levels2[i] = levels[i]
    BY <1>1, <1>2
  <2>2. SumOf(levels2) = SumOf(levels) + 0
    BY <1>1, <1>2, SumAppend
  <2>3. level' = Len(levels2) - 1
    BY DEF level
  <2> HIDE DEF levels, levels2, log
  <2> QED
    BY <1>2, <1>3, <2>1, <2>2, <2>3
<1> HIDE DEF log, levels, levels2
<1>5. ASSUME NEW j \in 0 .. top PROVE Seen(j)' = Seen(j)
  <2>1. /\ j + 1 \in Nat /\ j + 1 <= Len(levels) /\ j + 1 <= Len(levels2) /\ j \in 0 .. level'
        /\ \A i \in 1 .. j + 1 : levels2[i] = levels[i]
    BY <1>4
  <2>2. SubSeq(levels2, 1, j + 1) = SubSeq(levels, 1, j + 1)
    BY <1>2, <1>4, <2>1, SamePrefix
  <2>3. StartsOfLevel(log, levels2, j) = StartsOfLevel(log, levels, j)
    BY <2>2 DEF StartsOfLevel
  <2>4. Labels(Seen(j), elements', StartsOfLevel(new_indices', levels2, j))
    BY <1>1, <1>3, <2>3 DEF Shown, log, levels
  <2> QED
    BY <1>1, <2>1, <2>4, SightLasts DEF levels2
<1>6. Seen(top + 1)' = Seen(top)
  <2>1. StartsOfLevel(log, levels, top) = StartsIn(log, Len(log))
    BY <1>2, <1>4, LastLevelOfLog
  <2>2. StartsOfLevel(log, levels2, top + 1) = StartsIn(log, Len(log))
    <3>1. (top + 1) + 1 = Len(levels2)
      BY <1>4
    <3> QED
      BY <1>4, <3>1, LastLevelOfLog
  <2>3. top \in 0 .. level /\ top + 1 \in 0 .. level'
    BY <1>3, <1>4
  <2>4. Labels(Seen(top), elements', StartsOfLevel(new_indices', levels2, top + 1))
    BY <1>1, <2>1, <2>2, <2>3 DEF Shown, log, levels
  <2> QED
    BY <1>1, <2>3, <2>4, SightLasts DEF levels2
<1>7. /\ NestSeen \in Seq(Partitions) /\ NestSeen' \in Seq(Partitions)
      /\ Len(NestSeen) = top + 1 /\ Len(NestSeen') = top + 2
      /\ \A j \in 0 .. top : NestSeen[j + 1] = Seen(j) /\ Seen(j) \in Partitions
      /\ \A j \in 0 .. top + 1 : NestSeen'[j + 1] = Seen(j)'
  BY <1>1, <1>3, <1>4 DEF NestFits
<1>8. NestSeen' = Append(NestSeen, NestSeen[Len(NestSeen)])
  <2> DEFINE old == NestSeen[Len(NestSeen)]
             t == Append(NestSeen, old)
  <2>1. old = Seen(top) /\ old \in Partitions
    BY <1>7
  <2>2. /\ t \in Seq(Partitions) /\ Len(t) = top + 2 /\ t[top + 2] = old
        /\ \A i \in 1 .. top + 1 : t[i] = NestSeen[i]
    BY <1>7, <2>1
  <2> HIDE DEF t, old
  <2>3. ASSUME NEW i \in 1 .. top + 2 PROVE NestSeen'[i] = t[i]
    <3>1. i - 1 \in 0 .. top + 1 /\ (i - 1) + 1 = i
      OBVIOUS
    <3>2. CASE i = top + 2
      <4>1. i - 1 = top + 1
        BY <3>2
      <4> QED
        BY <1>6, <1>7, <2>1, <2>2, <3>1, <3>2, <4>1
    <3>3. CASE i # top + 2
      <4>1. i - 1 \in 0 .. top /\ i \in 1 .. top + 1
        BY <3>3
      <4> QED
        BY <1>5, <1>7, <2>2, <3>1, <4>1
    <3> QED
      BY <3>2, <3>3
  <2>4. NestSeen' = t
    BY <1>7, <2>2, <2>3, SeqEqual
  <2> QED
    BY <2>4 DEF t, old
<1>9. Pending' = Pending
  BY <1>1 DEF Pending
<1> QED
  BY <1>8, <1>9, PushInNest

\* recover_level drops the levels above m; the cuts are undone in the steps after it.
LEMMA RecoverInNest ==
  ASSUME Known, Known', NEW m \in 0 .. level, recover_level(m)
  PROVE  Nest!Next
<1> DEFINE log == new_indices
           levels == new_indices_at_level
           levels2 == new_indices_at_level'
<1>1. /\ Arrays /\ Arrays' /\ Shown /\ Shown' /\ NestFits /\ NestFits'
      /\ levels2 = SubSeq(levels, 1, m + 1) /\ elements' = elements
      /\ new_index_queue' = <<>> /\ new_indices' = log
  BY DEF Known, recover_level, partition
<1>2. /\ levels \in Seq(Nat) /\ Len(levels) \in Nat /\ level = Len(levels) - 1 /\ level \in Nat
  BY <1>1, LogAndLevels
<1>3. /\ levels2 \in Seq(Nat) /\ Len(levels2) = m + 1 /\ m \in Nat /\ m + 1 <= Len(levels)
      /\ \A i \in 1 .. m + 1 : levels2[i] = levels[i]
  <2>1. \A i \in 1 .. m + 1 : levels[i] \in Nat
    BY <1>2
  <2>2. m \in Nat /\ m + 1 <= Len(levels)
    BY <1>2
  <2>3. /\ levels2 \in Seq(Nat) /\ Len(levels2) = IF 1 <= m + 1 THEN (m + 1) - 1 + 1 ELSE 0
        /\ \A i \in 1 .. (m + 1) - 1 + 1 : levels2[i] = levels[1 + i - 1]
    BY <1>1, <2>1, <2>2, SubSeqProperties
  <2> HIDE DEF levels, levels2
  <2> QED
    BY <2>2, <2>3
<1>4. level' = m
  BY <1>3 DEF level
<1> HIDE DEF log, levels, levels2
<1>5. ASSUME NEW j \in 0 .. m PROVE Seen(j)' = Seen(j)
  <2>1. /\ j + 1 \in Nat /\ j + 1 <= Len(levels) /\ j + 1 <= Len(levels2)
        /\ j \in 0 .. level' /\ j \in 0 .. level
        /\ \A i \in 1 .. j + 1 : levels2[i] = levels[i]
    BY <1>2, <1>3, <1>4
  <2>2. SubSeq(levels2, 1, j + 1) = SubSeq(levels, 1, j + 1)
    BY <1>2, <1>3, <2>1, SamePrefix
  <2>3. StartsOfLevel(log, levels2, j) = StartsOfLevel(log, levels, j)
    BY <2>2 DEF StartsOfLevel
  <2>4. Labels(Seen(j), elements', StartsOfLevel(new_indices', levels2, j))
    BY <1>1, <2>1, <2>3 DEF Shown, log, levels
  <2> QED
    BY <1>1, <2>1, <2>4, SightLasts DEF levels2
<1>6. /\ NestSeen \in Seq(Partitions) /\ NestSeen' \in Seq(Partitions)
      /\ Len(NestSeen) = level + 1 /\ Len(NestSeen') = m + 1
      /\ \A j \in 0 .. m : NestSeen[j + 1] = Seen(j) /\ NestSeen'[j + 1] = Seen(j)'
  BY <1>1, <1>2, <1>4 DEF NestFits
<1>7. NestSeen' = SubSeq(NestSeen, 1, m + 1)
  <2>1. \A i \in 1 .. m + 1 : NestSeen'[i] = NestSeen[i]
    <3> SUFFICES ASSUME NEW i \in 1 .. m + 1 PROVE NestSeen'[i] = NestSeen[i]
      OBVIOUS
    <3>1. i - 1 \in 0 .. m /\ (i - 1) + 1 = i
      BY <1>3
    <3> QED
      BY <1>5, <1>6, <3>1
  <2>2. m + 1 \in Nat /\ m + 1 <= Len(NestSeen) /\ m + 1 <= Len(NestSeen')
    BY <1>2, <1>3, <1>6
  <2>3. SubSeq(NestSeen', 1, m + 1) = SubSeq(NestSeen, 1, m + 1)
    BY <1>6, <2>1, <2>2, SamePrefix
  <2>4. SubSeq(NestSeen', 1, m + 1) = NestSeen'
    BY <1>6, SubSeqFull
  <2> QED
    BY <2>3, <2>4
<1>8. Pending' = {}
  BY <1>1 DEF Pending, Range
<1>9. m \in 0 .. Len(NestSeen) - 1
  BY <1>2, <1>6
<1> QED
  BY <1>7, <1>8, <1>9, DropInNest

\* A new nest.
LEMMA NewNest ==
  ASSUME Known, Init
  PROVE  Nest!Init
<1>1. /\ pc = "idle" /\ new_indices_at_level = <<0>> /\ new_index_queue = <<>>
      /\ index_containing = UnitLabels
  BY DEF Init, UnitLabels
<1>2. level = 0
  BY <1>1 DEF level
<1>3. Len(NestSeen) = 1 /\ NestSeen[1] = Seen(0) /\ NestSeen \in Seq(Partitions)
  BY <1>2 DEF Known, NestFits
<1>4. Seen(0) = UnitLabels
  BY <1>1, <1>2 DEF Seen
<1>5. NestSeen = <<UnitLabels>>
  BY <1>3, <1>4
<1>6. Pending = {}
  BY <1>1 DEF Pending, Range
<1> QED
  BY <1>5, <1>6 DEF Nest!Init, Nest!UnitPartition, Nest!Elements, UnitLabels, Positions,
                    NestSeen, Pending

\* Every step of the arrays is a step of the stack or changes nothing callers see.
LEMMA NextInNest ==
  ASSUME Known, Known', [Next]_vars
  PROVE  [Nest!Next]_(Nest!vars)
<1>1. CASE unit
  BY <1>1, UnitInNest
<1>2. CASE \E i, j \in Positions : SwapInCell(i, j)
  BY <1>2, SwapInNest
<1>3. CASE \E k \in Positions : enqueue_new_index(k)
  BY <1>3, EnqueueInNest
<1>4. CASE commit_pending_indices
  BY <1>4, UnseenInNest DEF commit_pending_indices, partition
<1>5. CASE CommitNext
  BY <1>5, CommitInNest
<1>6. CASE \E u \in Positions : breakout(u) \/ BreakoutExits(u)
  <2>1. CASE \E u \in Positions : breakout(u)
    BY <2>1, BreakoutInNest
  <2>2. CASE \E u \in Positions : BreakoutExits(u)
    BY <2>2, UnseenInNest DEF BreakoutExits, partition
  <2> QED
    BY <1>6, <2>1, <2>2
<1>7. CASE advance_level
  BY <1>7, AdvanceInNest
<1>8. CASE \E m \in 0 .. level : recover_level(m)
  BY <1>8, RecoverInNest
<1>9. CASE backup_level
  <2>1. level - 1 \in 0 .. level
    BY <1>9, LogAndLevels DEF backup_level, Known
  <2> QED
    BY <1>9, <2>1, RecoverInNest DEF backup_level
<1>10. CASE UndoCut
  BY <1>10, UndoInNest
<1>11. CASE Relabel
  BY <1>11, UnseenInNest DEF Relabel
<1>12. CASE Exited \/ UNCHANGED vars
  BY <1>12, UnseenInNest DEF Exited, vars
<1> QED
  BY <1>1, <1>2, <1>3, <1>4, <1>5, <1>6, <1>7, <1>8, <1>9, <1>10, <1>11, <1>12 DEF Next

\* PartitionNest is a stack of ordered partitions: what callers see of each level is
\* changed by nothing but the cuts they asked for, and comes back as it was when the
\* levels above it are dropped.
THEOREM NestTheorem == Spec => KeepsNest
<1>1. Known /\ Init => Nest!Init
  BY NewNest
<1>2. Known /\ Known' /\ [Next]_vars => [Nest!Next]_(Nest!vars)
  BY NextInNest
<1> QED
  BY <1>1, <1>2, ArraysInvariant, ArraysAreKnown, PTL DEF Spec, KeepsNest, Nest!Spec
=============================================================================
