--------------------------- MODULE NautySearchProofs ---------------------------
(***************************************************************************)
(* Theorems of module NautySearch, for all coloured graphs, renamings,     *)
(* widths of the code and sizes of the workspace:                          *)
(*   - the rows kept are those of the best leaf, and the search never      *)
(*     leaves a node of the leftmost path before its index is known;       *)
(*     nothing of the refinement is used for these;                        *)
(*   - the generators are automorphisms, the labelling returned keeps the  *)
(*     order of the colours, and the variables have their types.  For      *)
(*     these both refinements are proved to refine, whatever their codes;  *)
(*   - the orbits are those of the generators, at every point.             *)
(*                                                                         *)
(* The parts: vertices, rows and the leftmost path; ordered partitions     *)
(* and what splits them; the refinements of NautyRefine; what leaves are   *)
(* mapped by; renamed graphs and orbits; then the inductive invariant      *)
(* SearchInv, conjunct by conjunct; the orbits and the group.              *)
(***************************************************************************)
EXTENDS NautySearch, NumberLemmas, SequenceTheorems

\* The vertices are the numbers below n.
Numbered == n \in Nat /\ V = 0 .. n - 1

\* In the first call the graph is an input, and can be renamed.
FirstCall == earlier = <<>> => \E in \in Inputs : g = in.g

Graphs == Numbered /\ FirstCall

-----------------------------------------------------------------------------
(* Vertices *)

\* An input's vertices are numbered, and renaming it keeps them.
LEMMA InputGraph ==
  ASSUME NEW in \in Inputs, NEW m, m = Cardinality(DOMAIN in.g)
  PROVE  /\ m \in Nat /\ DOMAIN in.g = 0 .. m - 1
         /\ \A s \in Renamings[m] : DOMAIN s = 0 .. m - 1
BY ConstantsAssumption

\* The first call's graph is an input.
LEMMA InitGraphs == Init => Graphs
<1> SUFFICES ASSUME Init PROVE Graphs
  OBVIOUS
<1>1. PICK in \in Inputs : g = in.g
  BY DEF Init, Args, g
<1>2. n = Cardinality(DOMAIN in.g)
  BY <1>1 DEF n, V, Vertices
<1>3. n \in Nat /\ DOMAIN in.g = 0 .. n - 1
  BY <1>2, InputGraph
<1> QED
  BY <1>1, <1>3 DEF Graphs, Numbered, FirstCall, V, Vertices

\* A renamed graph has the vertices of the graph; no other step touches it.
LEMMA NextKeepsGraphs == Graphs /\ [Next]_vars => Graphs'
<1> SUFFICES ASSUME Graphs, [Next]_vars PROVE Graphs'
  OBVIOUS
<1>1. CASE UNCHANGED <<call, earlier>>
  BY <1>1 DEF Graphs, Numbered, FirstCall, n, V, Vertices, g
<1>2. CASE CallAgain
  <2>1. PICK in \in Inputs : g = in.g
    BY <1>2 DEF CallAgain, Graphs, FirstCall
  <2>2. n = Cardinality(DOMAIN in.g)
    BY <2>1 DEF n, V, Vertices
  <2>3. \A s \in Renamings[n] : DOMAIN s = 0 .. n - 1
    BY <2>2, InputGraph
  <2>4. PICK s \in Renamings[n] :
          call' = Args(Renamed([g |-> g, colors |-> call.colors], s), call.rep, call.bits)
    BY <1>2 DEF CallAgain
  <2>5. V' = DOMAIN s
    BY <2>4 DEF Args, Renamed, g, V, Vertices
  <2>6. V' = V
    BY <2>3, <2>5 DEF Graphs, Numbered
  <2>7. earlier' # <<>>
    BY <1>2 DEF CallAgain
  <2> QED
    BY <2>6, <2>7 DEF Graphs, Numbered, FirstCall, n
<1> QED
  BY <1>1, <1>2
     DEF Next, FirstPathNode, firstterminal, othernode, InternalNode, FirstLeafAgain,
         BestLeafAgain, BetterLeaf, BadLeaf, ReturnFurther, NextOfFirst, EndOfFirst,
         NextOfOther, EndOfOther, Finish, Terminated, callVars, vars

-----------------------------------------------------------------------------
(* The rows of the best leaf *)

\* Up to date, the stored graph is the graph under the labelling of the best leaf.
LEMMA BestRowsComplete ==
  ASSUME RowsOfBestLeaf, mode # "first", NEW i \in V
  PROVE  BestRows[i] = Row(canonlab, i)
BY DEF RowsOfBestLeaf, BestRows, updatecan

\* The rows before the first that differs are the same.
LEMMA SameRows ==
  ASSUME Numbered, NEW can, NEW lab, testcanlab(can, lab).cmp > 0,
         NEW i \in V, i < testcanlab(can, lab).samerows
  PROVE  Row(lab, i) = can[i]
<1> DEFINE differ == {j \in V : Row(lab, j) # can[j]}
<1>1. differ # {}
  BY DEF testcanlab
<1>2. testcanlab(can, lab).samerows = Min(differ)
  BY <1>1 DEF testcanlab
<1>3. differ \in SUBSET Nat
  BY DEF Numbered
<1>4. i \in differ => Min(differ) <= i /\ Min(differ) \in Nat
  <2> HIDE DEF differ
  <2>1. \E x \in differ : \A y \in differ : x <= y
    BY <1>1, <1>3, Least
  <2> QED
    BY <2>1, <1>3 DEF Min
<1>5. i \notin differ
  <2>1. i < Min(differ)
    BY <1>2
  <2> HIDE DEF differ
  <2>2. ASSUME i \in differ PROVE FALSE
    <3>1. i \in Nat /\ Min(differ) \in Nat /\ Min(differ) <= i
      BY <1>3, <1>4, <2>2
    <3> QED
      BY <2>1, <3>1
  <2> QED
    BY <2>2
<1> QED
  BY <1>5

\* Rows are overwritten only by those of the leaf that becomes the best.
LEMMA NextKeepsRows == Graphs /\ RowsOfBestLeaf /\ [Next]_vars => RowsOfBestLeaf'
<1> SUFFICES ASSUME Graphs, RowsOfBestLeaf, [Next]_vars PROVE RowsOfBestLeaf'
  OBVIOUS
<1>1. ASSUME UNCHANGED <<call, canonlab, canong, samerows>>,
             mode # "first", mode' # "done"
      PROVE  RowsOfBestLeaf'
  <2>1. V' = V /\ \A i \in V : Row(canonlab, i)' = Row(canonlab, i)
    BY <1>1 DEF V, Vertices, Row, g
  <2> QED
    BY <1>1, <2>1 DEF RowsOfBestLeaf
<1>2. CASE UNCHANGED vars
  BY <1>2 DEF RowsOfBestLeaf, V, Vertices, Row, g, vars, canonVars
<1>3. CASE CallAgain \/ FirstPathNode
  BY <1>3 DEF CallAgain, Begin, FirstPathNode, RowsOfBestLeaf
<1>4. CASE firstterminal
  <2>1. mode' = "back" /\ samerows' = 0 /\ V' = V
    BY <1>4 DEF firstterminal, callVars, V, Vertices, g
  <2> QED
    BY <2>1 DEF RowsOfBestLeaf, Graphs, Numbered
<1>5. CASE BestLeafAgain
  <2>1. mode # "first" /\ mode' = "back" /\ canong' = BestRows
    BY <1>5 DEF BestLeafAgain, Return
  <2>2. UNCHANGED <<call, canonlab>>
    BY <1>5 DEF BestLeafAgain, callVars
  <2>3. \A i \in V : BestRows[i] = Row(canonlab, i)
    BY <2>1, BestRowsComplete
  <2> QED
    BY <2>1, <2>2, <2>3 DEF RowsOfBestLeaf, V, Vertices, Row, g
<1>6. CASE BetterLeaf
  <2>1. mode' = "back" /\ canonlab' = Lab /\ UNCHANGED call
    BY <1>6 DEF BetterLeaf, LeaveLeaf, Return, callVars
  <2>2. ASSUME NEW i \in V, i < samerows' PROVE canong'[i] = Row(Lab, i)
    <3>1. CASE Tested
      <4>1. canong' = BestRows
        BY <1>6, <3>1 DEF BetterLeaf
      <4>2. testcanlab(BestRows, Lab).cmp > 0
        BY <1>6, <3>1 DEF BetterLeaf, CompareWithBest
      <4>3. samerows' = testcanlab(BestRows, Lab).samerows
        BY <1>6, <3>1 DEF BetterLeaf, CompareWithBest
      <4> QED
        BY <2>2, <4>1, <4>2, <4>3, SameRows DEF Graphs
    <3>2. CASE ~Tested
      <4>1. samerows' = 0
        BY <1>6, <3>2 DEF BetterLeaf, CompareWithBest
      <4> QED
        BY <2>2, <4>1 DEF Graphs, Numbered
    <3> QED
      BY <3>1, <3>2
  <2> QED
    BY <2>1, <2>2 DEF RowsOfBestLeaf, V, Vertices, Row, g
<1>7. CASE BadLeaf
  <2>1. mode = "classify" /\ mode' = "back"
    BY <1>7 DEF BadLeaf, LeaveLeaf, Return
  <2>2. UNCHANGED <<call, canonlab>>
    BY <1>7 DEF BadLeaf, callVars
  <2>3. canong' = BestRows \/ UNCHANGED <<canong, samerows>>
    BY <1>7 DEF BadLeaf
  <2>4. \A i \in V : BestRows[i] = Row(canonlab, i)
    BY <2>1, BestRowsComplete
  <2> QED
    BY <2>1, <2>2, <2>3, <2>4 DEF RowsOfBestLeaf, V, Vertices, Row, g
<1>8. CASE Finish
  <2>1. mode = "back" /\ mode' = "done" /\ canong' = BestRows
    BY <1>8 DEF Finish
  <2>2. UNCHANGED <<call, canonlab>>
    BY <1>8 DEF Finish, callVars
  <2>3. \A i \in V : BestRows[i] = Row(canonlab, i)
    BY <2>1, BestRowsComplete
  <2> QED
    BY <2>1, <2>2, <2>3 DEF RowsOfBestLeaf, V, Vertices, Row, g
<1>9. CASE othernode \/ InternalNode \/ FirstLeafAgain
  BY <1>9, <1>1 DEF othernode, InternalNode, FirstLeafAgain, Return, callVars, canonVars
<1>10. CASE ReturnFurther \/ NextOfFirst \/ EndOfFirst \/ NextOfOther \/ EndOfOther
  BY <1>10, <1>1
     DEF ReturnFurther, NextOfFirst, EndOfFirst, NextOfOther, EndOfOther, Back, Return,
         callVars, canonVars
<1> QED
  BY <1>2, <1>3, <1>4, <1>5, <1>6, <1>7, <1>8, <1>9, <1>10 DEF Next, Terminated

\* The rows stored are those of the best leaf while leaves replace each other, in every
\* call, and the graph returned is the input under the labelling returned.
THEOREM RowsTheorem == Spec => []RowsOfBestLeaf
<1>1. Init => Graphs /\ RowsOfBestLeaf
  <2>1. Init => RowsOfBestLeaf
    BY DEF Init, Begin, RowsOfBestLeaf
  <2> QED
    BY <2>1, InitGraphs
<1>2. Graphs /\ RowsOfBestLeaf /\ [Next]_vars => (Graphs /\ RowsOfBestLeaf)'
  BY NextKeepsGraphs, NextKeepsRows
<1> QED
  BY <1>1, <1>2, PTL DEF Spec

-----------------------------------------------------------------------------
(* The leftmost path *)

Frames(U) ==
  [kind : {"first", "other"}, p : U, tc : U, tcell : U, tv1 : U, tv : U, index : U]

LevelTypes ==
  /\ \E U : stack \in Seq(Frames(U))
  /\ {gca_first, gca_canon, eqlev_canon, noncheaplevel, allsamelevel} \subseteq Int

\* Nowhere that the search may return to, or takes a minimum with, is above a node of
\* the leftmost path that is still on the stack.  On the way down the leftmost path, no
\* node of it is known to be cheap.
PathKept ==
  IF mode = "first" THEN noncheaplevel = level
  ELSE \A i \in DOMAIN stack : stack[i].kind = "first" =>
           i <= gca_first /\ i <= gca_canon /\ i <= eqlev_canon /\ i < noncheaplevel

EmptyAtEnd == mode = "done" => stack = <<>>

Path == LevelTypes /\ PathKept /\ EmptyAtEnd /\ NeverPastFirstPath

\* A frame more, of values of any kind.
LEMMA Push ==
  ASSUME NEW U, stack \in Seq(Frames(U)), NEW f,
         NEW kind \in {"first", "other"}, NEW p, NEW tc, NEW tcell, NEW tv1, NEW tv, NEW index,
         f = [kind |-> kind, p |-> p, tc |-> tc, tcell |-> tcell, tv1 |-> tv1, tv |-> tv,
              index |-> index]
  PROVE  /\ \E W : Append(stack, f) \in Seq(Frames(W))
         /\ DOMAIN Append(stack, f) = 1 .. Len(stack) + 1
         /\ Len(Append(stack, f)) = Len(stack) + 1 /\ Len(stack) \in Nat
         /\ DOMAIN stack = 1 .. Len(stack)
         /\ \A i \in DOMAIN stack : Append(stack, f)[i] = stack[i]
         /\ Append(stack, f)[Len(stack) + 1] = f
<1> DEFINE W == U \cup {p, tc, tcell, tv1, tv, index}
<1>1. Frames(U) \subseteq Frames(W)
  BY DEF Frames
<1>2. f \in Frames(W)
  BY DEF Frames
<1> HIDE DEF W
<1>3. stack \in Seq(Frames(W))
  BY <1>1, SeqMonotonic
<1>4. Append(stack, f) \in Seq(Frames(W))
  BY <1>2, <1>3
<1> QED
  BY <1>2, <1>3, <1>4

\* The top frame off.
LEMMA Pop ==
  ASSUME NEW U, NEW k \in Nat, NEW st \in Seq(Frames(U)), Len(st) = k + 1
  PROVE  LET rest == SubSeq(st, 1, k)
         IN  /\ rest \in Seq(Frames(U))
             /\ Len(rest) = k /\ DOMAIN rest = 1 .. k
             /\ \A i \in 1 .. k : rest[i] = st[i]
<1> DEFINE rest == SubSeq(st, 1, k)
<1>1. \A i \in 1 .. k : st[i] \in Frames(U)
  BY ElementOfSeq
<1>2. /\ rest \in Seq(Frames(U))
      /\ Len(rest) = IF 1 <= k THEN k - 1 + 1 ELSE 0
      /\ \A i \in 1 .. k - 1 + 1 : rest[i] = st[1 + i - 1]
  BY <1>1, SubSeqProperties
<1> HIDE DEF rest
<1>3. rest \in Seq(Frames(U)) /\ Len(rest) = k
  BY <1>2
<1>4. DOMAIN rest = 1 .. k
  BY <1>3, LenProperties
<1>5. \A i \in 1 .. k : rest[i] = st[i]
  BY <1>2
<1> QED
  BY <1>3, <1>4, <1>5 DEF rest

-----------------------------------------------------------------------------
\* The search starts with an empty stack, on the leftmost path.
LEMMA InitPath == Init => Path
<1> SUFFICES ASSUME Init PROVE Path
  OBVIOUS
<1>1. stack = <<>> /\ mode = "first" /\ noncheaplevel = 1
  BY DEF Init, Begin
<1>2. stack \in Seq(Frames({}))
  BY <1>1, EmptySeq
<1>3. Len(stack) = 0
  BY <1>1, EmptySeq
<1>4. {gca_first, gca_canon, eqlev_canon, noncheaplevel, allsamelevel} \subseteq Int
  BY DEF Init
<1> QED
  BY <1>1, <1>2, <1>3, <1>4 DEF Path, LevelTypes, PathKept, EmptyAtEnd, NeverPastFirstPath, level

\* The minimum that recover takes.
LEMMA MinOfTwo ==
  ASSUME NEW a \in Int, NEW b \in Int
  PROVE  Min({a, b}) = IF a <= b THEN a ELSE b
<1>1. \E x \in {a, b} : \A y \in {a, b} : x <= y
  OBVIOUS
<1>2. Min({a, b}) \in {a, b} /\ \A y \in {a, b} : Min({a, b}) <= y
  BY <1>1 DEF Min
<1> QED
  BY <1>2

\* What recover leaves is not above a node that is still on the stack.
LEMMA RecoverKeeps ==
  ASSUME LevelTypes, NEW l \in Nat, Recover(l)
  PROVE  /\ {gca_canon', eqlev_canon', noncheaplevel'} \subseteq Int
         /\ \A i \in 1 .. l :
              /\ i <= gca_canon => i <= gca_canon'
              /\ i <= eqlev_canon => i <= eqlev_canon'
              /\ i < noncheaplevel => i < noncheaplevel'
<1>1. gca_canon \in Int /\ eqlev_canon \in Int /\ noncheaplevel \in Int
  BY DEF LevelTypes
<1>2. gca_canon' = IF l <= gca_canon THEN l ELSE gca_canon
  BY <1>1, MinOfTwo DEF Recover
<1>3. noncheaplevel' = IF l < noncheaplevel THEN l + 1 ELSE noncheaplevel
  BY DEF Recover
<1>4. eqlev_canon' = IF l <= eqlev_canon THEN l ELSE eqlev_canon
  BY DEF Recover
<1> QED
  BY <1>1, <1>2, <1>3, <1>4

\* What LeaveLeaf returns to.
LEMMA LeaveLeafReturns ==
  ASSUME LevelTypes, NEW eq \in Int, LeaveLeaf(eq),
         NEW i \in Nat, i <= eq, i < noncheaplevel
  PROVE  i <= rtnlevel'
<1> DEFINE save == IF allsamelevel > eq THEN allsamelevel - 1 ELSE eq
           newlevel == IF noncheaplevel <= save THEN noncheaplevel - 1 ELSE save
<1>1. rtnlevel' = newlevel
  BY DEF LeaveLeaf, Return
<1>2. allsamelevel \in Int /\ noncheaplevel \in Int
  BY DEF LevelTypes
<1>3. save \in Int /\ eq <= save
  BY <1>2
<1>4. i <= newlevel
  <2> HIDE DEF save
  <2> QED
    BY <1>2, <1>3
<1> QED
  BY <1>1, <1>4

-----------------------------------------------------------------------------
\* Steps that leave the stack alone.
LEMMA StackAlone ==
  ASSUME Path, UNCHANGED stack,
         \/ firstterminal \/ othernode \/ InternalNode \/ FirstLeafAgain
         \/ BestLeafAgain \/ BetterLeaf \/ BadLeaf \/ Finish
  PROVE  Path'
<1>1. PICK U : stack \in Seq(Frames(U))
  BY DEF Path, LevelTypes
<1>2. Len(stack) \in Nat /\ DOMAIN stack = 1 .. Len(stack)
  BY <1>1, LenProperties
<1>3. LevelTypes
  BY DEF Path
<1>4. level \in Nat /\ \A i \in DOMAIN stack : i \in Nat /\ i < level /\ i <= level - 1
  BY <1>2 DEF level
<1>5. CASE firstterminal
  <2>1. /\ gca_first' = level /\ gca_canon' = level /\ eqlev_canon' = level
        /\ allsamelevel' = level /\ noncheaplevel' = level
        /\ mode' = "back" /\ rtnlevel' = level - 1
    BY <1>5 DEF firstterminal, Path, PathKept
  <2> QED
    BY <1>1, <1>2, <1>4, <2>1
       DEF Path, LevelTypes, PathKept, EmptyAtEnd, NeverPastFirstPath
<1>6. CASE othernode
  <2>1. /\ mode = "other" /\ mode' = "classify"
        /\ UNCHANGED <<gca_first, gca_canon, noncheaplevel, allsamelevel>>
        /\ eqlev_canon' = level \/ UNCHANGED eqlev_canon
    BY <1>6 DEF othernode
  <2> QED
    BY <1>1, <1>3, <1>4, <2>1
       DEF Path, LevelTypes, PathKept, EmptyAtEnd, NeverPastFirstPath
<1>7. CASE InternalNode
  <2>1. /\ mode = "classify" /\ noncheaplevel' = level + 1
        /\ UNCHANGED <<gca_first, gca_canon, allsamelevel, eqlev_canon>>
        /\ mode' = "other" \/ (mode' = "back" /\ rtnlevel' = level - 1)
    BY <1>7 DEF InternalNode, CheapAutom, Return
  <2> QED
    BY <1>1, <1>3, <1>4, <2>1
       DEF Path, LevelTypes, PathKept, EmptyAtEnd, NeverPastFirstPath
<1>8. CASE FirstLeafAgain \/ BestLeafAgain
  <2>1. /\ mode = "classify" /\ mode' = "back" /\ rtnlevel' \in {gca_first, gca_canon}
        /\ UNCHANGED <<gca_first, gca_canon, noncheaplevel, allsamelevel, eqlev_canon>>
    BY <1>8 DEF FirstLeafAgain, BestLeafAgain, Return, levelVars
  <2> QED
    BY <1>1, <1>3, <2>1 DEF Path, LevelTypes, PathKept, EmptyAtEnd, NeverPastFirstPath
<1>9. CASE BetterLeaf
  <2>1. /\ mode = "classify" /\ mode' = "back" /\ LeaveLeaf(level)
        /\ gca_canon' = level /\ eqlev_canon' = level
        /\ UNCHANGED <<gca_first, noncheaplevel, allsamelevel>>
    BY <1>9 DEF BetterLeaf, LeaveLeaf, Return
  <2>2. \A i \in DOMAIN stack : stack[i].kind = "first" => i <= rtnlevel'
    BY <1>3, <1>4, <2>1, LeaveLeafReturns DEF Path, PathKept
  <2> QED
    BY <1>1, <1>3, <1>4, <2>1, <2>2
       DEF Path, LevelTypes, PathKept, EmptyAtEnd, NeverPastFirstPath
<1>10. CASE BadLeaf
  <2>1. /\ mode = "classify" /\ mode' = "back" /\ LeaveLeaf(eqlev_canon)
        /\ UNCHANGED <<gca_first, gca_canon, noncheaplevel, allsamelevel, eqlev_canon>>
    BY <1>10 DEF BadLeaf, LeaveLeaf, Return
  <2>2. eqlev_canon \in Int
    BY <1>3 DEF LevelTypes
  <2>3. \A i \in DOMAIN stack : stack[i].kind = "first" => i <= rtnlevel'
    BY <1>3, <1>4, <2>1, <2>2, LeaveLeafReturns DEF Path, PathKept
  <2> QED
    BY <1>1, <1>3, <2>1, <2>3 DEF Path, LevelTypes, PathKept, EmptyAtEnd, NeverPastFirstPath
<1>11. CASE Finish
  <2>1. /\ mode = "back" /\ mode' = "done" /\ stack = <<>>
        /\ UNCHANGED <<gca_first, gca_canon, noncheaplevel, allsamelevel, eqlev_canon>>
    BY <1>11 DEF Finish, levelVars
  <2> QED
    BY <1>1, <1>3, <2>1 DEF Path, LevelTypes, PathKept, EmptyAtEnd, NeverPastFirstPath
<1> QED
  BY <1>5, <1>6, <1>7, <1>8, <1>9, <1>10, <1>11

\* Steps down: a frame more.
LEMMA StepsDown ==
  ASSUME Path, FirstPathNode \/ InternalNode, ~ UNCHANGED stack
  PROVE  Path'
<1>1. PICK U : stack \in Seq(Frames(U))
  BY DEF Path, LevelTypes
<1>2. CASE FirstPathNode
  <2>1. PICK p, tc, tv : stack' = Append(stack, Frame("first", p, tc, tv))
    BY <1>2 DEF FirstPathNode
  <2>2. /\ \E W : stack' \in Seq(Frames(W))
        /\ Len(stack') = Len(stack) + 1 /\ Len(stack) \in Nat
    <3>1. Frame("first", p, tc, tv) =
            [kind |-> "first", p |-> p, tc |-> tc, tcell |-> CellAt(p, tc), tv1 |-> tv,
             tv |-> tv, index |-> 0]
      BY DEF Frame
    <3> QED
      BY <1>1, <2>1, <3>1, Push
  <2>3. mode = "first" /\ mode' = "first" /\ noncheaplevel = level
    BY <1>2 DEF FirstPathNode, Path, PathKept
  <2>4. noncheaplevel' = level + 1
    BY <1>2, <2>2, <2>3 DEF FirstPathNode, CheapAutom, level
  <2>5. UNCHANGED <<gca_first, gca_canon, eqlev_canon, allsamelevel>>
    BY <1>2 DEF FirstPathNode
  <2> QED
    BY <2>2, <2>3, <2>4, <2>5
       DEF Path, LevelTypes, PathKept, EmptyAtEnd, NeverPastFirstPath, level
<1>3. CASE InternalNode
  <2>1. PICK tcell, tv : stack' = Append(stack, [Frame("other", node.p, node.tc, tv)
                                                   EXCEPT !.tcell = tcell])
    BY <1>3 DEF InternalNode
  <2> DEFINE f == [Frame("other", node.p, node.tc, tv) EXCEPT !.tcell = tcell]
  <2>2. f = [kind |-> "other", p |-> node.p, tc |-> node.tc, tcell |-> tcell, tv1 |-> tv,
             tv |-> tv, index |-> 0]
    BY DEF Frame
  <2> HIDE DEF f
  <2>3. stack' = Append(stack, f)
    BY <2>1 DEF f
  <2>4. /\ \E W : stack' \in Seq(Frames(W))
        /\ DOMAIN stack' = 1 .. Len(stack) + 1 /\ Len(stack) \in Nat
        /\ DOMAIN stack = 1 .. Len(stack)
        /\ \A i \in DOMAIN stack : stack'[i] = stack[i]
        /\ stack'[Len(stack) + 1] = f
    BY <1>1, <2>2, <2>3, Push
  <2>5. stack'[Len(stack) + 1].kind = "other"
    BY <2>2, <2>4
  <2>6. \A i \in DOMAIN stack' : stack'[i].kind = "first" =>
          i \in DOMAIN stack /\ stack[i].kind = "first" /\ i <= Len(stack)
    BY <2>4, <2>5
  <2>7. /\ mode = "classify" /\ mode' = "other" /\ noncheaplevel' = level + 1
        /\ UNCHANGED <<gca_first, gca_canon, eqlev_canon, allsamelevel>>
    BY <1>3 DEF InternalNode, CheapAutom
  <2> QED
    BY <2>4, <2>6, <2>7
       DEF Path, LevelTypes, PathKept, EmptyAtEnd, NeverPastFirstPath, level
<1> QED
  BY <1>2, <1>3

\* What the steps back at an ancestor have in common: k nodes remain, which are those
\* that were there, but for what is known of the children of the last one.
LEMMA BackKeeps ==
  ASSUME Path, stack # <<>>, mode = "back" => rtnlevel = Len(stack), Recover(Len(stack)),
         NEW W, stack' \in Seq(Frames(W)), NEW k \in {Len(stack) - 1, Len(stack)},
         DOMAIN stack' = 1 .. k, \A i \in 1 .. k : stack'[i].kind = stack[i].kind,
         gca_first' \in {gca_first, Len(stack)},
         allsamelevel' \in {allsamelevel, allsamelevel - 1},
         mode = "back", mode' = "other" \/ (mode' = "back" /\ rtnlevel' = k)
  PROVE  Path'
<1>1. PICK U : stack \in Seq(Frames(U))
  BY DEF Path, LevelTypes
<1>2. PICK l : l = Len(stack)
  OBVIOUS
<1>3. l \in Nat \ {0} /\ DOMAIN stack = 1 .. l
  BY <1>1, <1>2, EmptySeq, LenProperties
<1>4. LevelTypes /\ l \in Nat /\ Recover(l)
  BY <1>2, <1>3 DEF Path
<1>5. /\ {gca_canon', eqlev_canon', noncheaplevel'} \subseteq Int
      /\ \A i \in 1 .. l :
           /\ i <= gca_canon => i <= gca_canon'
           /\ i <= eqlev_canon => i <= eqlev_canon'
           /\ i < noncheaplevel => i < noncheaplevel'
  BY <1>4, RecoverKeeps
<1>6. gca_first' \in Int /\ allsamelevel' \in Int
  BY <1>2, <1>3, <1>4 DEF LevelTypes
<1>7. k \in Int /\ k <= l /\ \A i \in 1 .. k : i \in 1 .. l /\ i <= k
  BY <1>2, <1>3
<1>8. \A i \in 1 .. k : stack'[i].kind = "first" =>
        i <= gca_first' /\ i <= gca_canon' /\ i <= eqlev_canon' /\ i < noncheaplevel'
  BY <1>2, <1>3, <1>5, <1>7 DEF Path, PathKept
<1>9. LevelTypes'
  BY <1>5, <1>6 DEF LevelTypes
<1>10. PathKept' /\ EmptyAtEnd' /\ NeverPastFirstPath'
  BY <1>7, <1>8 DEF PathKept, EmptyAtEnd, NeverPastFirstPath
<1> QED
  BY <1>9, <1>10 DEF Path

\* Steps at an ancestor.
LEMMA StepsBack ==
  ASSUME Path, ReturnFurther \/ NextOfFirst \/ EndOfFirst \/ NextOfOther \/ EndOfOther
  PROVE  Path'
<1>1. PICK U : stack \in Seq(Frames(U))
  BY DEF Path, LevelTypes
<1>2. stack # <<>> /\ mode = "back"
  BY DEF ReturnFurther, NextOfFirst, EndOfFirst, NextOfOther, EndOfOther, Back
<1>3. PICK k \in Nat : Len(stack) = k + 1
  <2>1. Len(stack) \in Nat \ {0}
    BY <1>1, <1>2, EmptySeq
  <2>2. Len(stack) - 1 \in Nat /\ Len(stack) = Len(stack) - 1 + 1
    BY <2>1
  <2> QED
    BY <2>2
<1>4. DOMAIN stack = 1 .. k + 1 /\ stack \in [1 .. k + 1 -> Frames(U)]
  BY <1>1, <1>3, LenProperties
<1>5. ASSUME stack' = SubSeq(stack, 1, Len(stack) - 1)
      PROVE  /\ stack' \in Seq(Frames(U)) /\ DOMAIN stack' = 1 .. k
             /\ \A i \in 1 .. k : stack'[i] = stack[i]
  <2>1. stack' = SubSeq(stack, 1, k)
    BY <1>3, <1>5
  <2> QED
    BY <1>1, <1>3, <2>1, Pop
<1>6. CASE ReturnFurther
  <2>1. /\ stack' \in Seq(Frames(U)) /\ DOMAIN stack' = 1 .. k
        /\ \A i \in 1 .. k : i \in DOMAIN stack /\ stack'[i] = stack[i]
    BY <1>4, <1>5, <1>6 DEF ReturnFurther
  <2>2. UNCHANGED <<mode, rtnlevel, gca_first, gca_canon, noncheaplevel, allsamelevel,
                    eqlev_canon>>
    BY <1>6 DEF ReturnFurther, levelVars
  <2> QED
    BY <1>2, <2>1, <2>2 DEF Path, LevelTypes, PathKept, EmptyAtEnd, NeverPastFirstPath
<1>7. CASE EndOfFirst \/ EndOfOther
  <2>1. /\ stack' \in Seq(Frames(U)) /\ DOMAIN stack' = 1 .. k
        /\ \A i \in 1 .. k : stack'[i].kind = stack[i].kind
    BY <1>5, <1>7 DEF EndOfFirst, EndOfOther
  <2>2. rtnlevel = Len(stack) /\ Recover(Len(stack))
    BY <1>7 DEF EndOfFirst, EndOfOther, Back
  <2>3. gca_first' \in {gca_first, Len(stack)}
    BY <1>7 DEF EndOfFirst, EndOfOther, ReachedFirst
  <2>4. allsamelevel' \in {allsamelevel, allsamelevel - 1}
    BY <1>7 DEF EndOfFirst, EndOfOther
  <2>5. mode' = "back" /\ rtnlevel' = k
    BY <1>3, <1>7 DEF EndOfFirst, EndOfOther, Return
  <2>6. k \in {Len(stack) - 1, Len(stack)}
    BY <1>3
  <2> QED
    BY <1>2, <2>1, <2>2, <2>3, <2>4, <2>5, <2>6, BackKeeps
<1>8. CASE NextOfFirst \/ NextOfOther
  <2>1. \E W : /\ stack' \in Seq(Frames(W))
               /\ DOMAIN stack' = 1 .. k + 1
               /\ \A i \in 1 .. k + 1 : stack'[i].kind = stack[i].kind
    <3>1. PICK W, f : f \in Frames(W) /\ f.kind = stack[k + 1].kind /\ U \subseteq W
                      /\ stack' = [stack EXCEPT ![k + 1] = f]
      <4>1. stack[k + 1] \in Frames(U)
        BY <1>4
      <4>2. PICK tcell, tv, index :
              \/ stack' = [stack EXCEPT ![k + 1] = [stack[k + 1] EXCEPT !.tcell = tcell,
                                                                        !.tv = tv,
                                                                        !.index = index]]
              \/ stack' = [stack EXCEPT ![k + 1] = [stack[k + 1] EXCEPT !.tcell = tcell,
                                                                        !.tv = tv]]
        <5>1. CASE NextOfFirst
          BY <1>3, <5>1 DEF NextOfFirst
        <5>2. CASE NextOfOther
          BY <1>3, <5>2 DEF NextOfOther
        <5> QED
          BY <1>8, <5>1, <5>2
      <4>3. PICK f : /\ stack' = [stack EXCEPT ![k + 1] = f]
                     /\ \/ f = [stack[k + 1] EXCEPT !.tcell = tcell, !.tv = tv, !.index = index]
                        \/ f = [stack[k + 1] EXCEPT !.tcell = tcell, !.tv = tv]
        BY <4>2
      <4>4. PICK W : W = U \cup {tcell, tv, index}
        OBVIOUS
      <4>5. PICK r : r = stack[k + 1]
        OBVIOUS
      <4>6. f \in Frames(W) /\ f.kind = r.kind
        BY <4>1, <4>3, <4>4, <4>5 DEF Frames
      <4> QED
        <5>1. stack' = [stack EXCEPT ![k + 1] = f]
          BY <4>3
        <5>2. U \subseteq W
          BY <4>4
        <5> QED
          BY <4>5, <4>6, <5>1, <5>2
    <3>2. PICK m \in Nat \ {0} : m = k + 1
      OBVIOUS
    <3>3. stack \in [1 .. m -> Frames(W)]
      <4>1. Frames(U) \subseteq Frames(W)
        BY <3>1 DEF Frames
      <4> QED
        BY <1>4, <3>2, <4>1
    <3>4. stack' \in [1 .. m -> Frames(W)] /\ \A i \in 1 .. m : stack'[i].kind = stack[i].kind
      BY <3>1, <3>2, <3>3
    <3> QED
      BY <3>2, <3>4, SeqDef
  <2>2. rtnlevel = Len(stack) /\ Recover(Len(stack))
    BY <1>8 DEF NextOfFirst, NextOfOther, Back
  <2>3. gca_first' \in {gca_first, Len(stack)}
    BY <1>8 DEF NextOfFirst, NextOfOther, ReachedFirst
  <2>4. allsamelevel' = allsamelevel /\ mode' = "other"
    BY <1>8 DEF NextOfFirst, NextOfOther
  <2>5. k + 1 \in {Len(stack) - 1, Len(stack)}
    BY <1>3
  <2> QED
    BY <1>2, <2>1, <2>2, <2>3, <2>4, <2>5, BackKeeps
<1> QED
  BY <1>6, <1>7, <1>8

\* No step, down, back or to another call, leaves a node of the leftmost path too early.
LEMMA NextKeepsPath == Path /\ [Next]_vars => Path'
<1> SUFFICES ASSUME Path, [Next]_vars PROVE Path'
  OBVIOUS
<1>1. CASE UNCHANGED vars
  BY <1>1 DEF vars, canonVars, levelVars, Path, LevelTypes, PathKept, EmptyAtEnd,
              NeverPastFirstPath, level
<1>2. CASE CallAgain
  <2>1. stack = <<>> /\ stack' = stack /\ mode' = "first" /\ noncheaplevel' = 1
    BY <1>2 DEF CallAgain, Begin, Path, EmptyAtEnd
  <2>2. Len(stack) = 0
    BY <2>1, EmptySeq
  <2>3. /\ UNCHANGED <<gca_first, gca_canon, allsamelevel>>
        /\ eqlev_canon' = -1
    BY <1>2 DEF CallAgain
  <2> QED
    BY <2>1, <2>2, <2>3 DEF Path, LevelTypes, PathKept, EmptyAtEnd, NeverPastFirstPath, level
<1>3. CASE firstterminal \/ othernode \/ FirstLeafAgain \/ BestLeafAgain \/ BetterLeaf
             \/ BadLeaf \/ Finish
  <2>1. UNCHANGED stack
    BY <1>3 DEF firstterminal, othernode, FirstLeafAgain, BestLeafAgain, BetterLeaf, BadLeaf,
                Finish
  <2> QED
    BY <1>3, <2>1, StackAlone
<1>4. CASE FirstPathNode \/ InternalNode
  <2>1. FirstPathNode => ~ UNCHANGED stack
    <3>1. PICK U : stack \in Seq(Frames(U))
      BY DEF Path, LevelTypes
    <3>2. ASSUME NEW f PROVE Append(stack, f) # stack
      BY <3>1, AppendProperties
    <3> QED
      BY <3>2 DEF FirstPathNode
  <2> QED
    BY <1>4, <2>1, StackAlone, StepsDown
<1>5. CASE ReturnFurther \/ NextOfFirst \/ EndOfFirst \/ NextOfOther \/ EndOfOther
  BY <1>5, StepsBack
<1> QED
  BY <1>1, <1>2, <1>3, <1>4, <1>5 DEF Next, Terminated

\* Back jumps over many levels, from leaves that are automorphic to an earlier one or
\* worse than the best, stop at the leftmost path: the index of every node of it, a factor
\* of the group's order, is computed.
THEOREM FirstPathTheorem == Spec => []NeverPastFirstPath
<1>1. Path => NeverPastFirstPath
  BY DEF Path
<1> QED
  BY <1>1, InitPath, NextKeepsPath, PTL DEF Spec

-----------------------------------------------------------------------------
(* Ordered partitions.  All lemmas are about the numbers below some m.      *)

\* U is the set of the m numbers below m.
Numbers(m, U) == m \in Nat /\ U = 0 .. m - 1

\* Every vertex is mapped to the number of vertices before its cell.
Positional(U, p) ==
  p \in [U -> U] /\ \A v \in U : p[v] = Cardinality({u \in U : p[u] < p[v]})

\* Vertices of different cells stay so, in the same order.
KeepsOrder(U, q, p) == \A u, v \in U : p[u] < p[v] => q[u] < q[v]

Refines(U, q, p) == Positional(U, q) /\ KeepsOrder(U, q, p)

Counts(U, val) == \A v \in U : val[v] \in Int

\* Subsets of finite sets have fewer elements, unless they are equal.
LEMMA Smaller ==
  ASSUME NEW S, IsFiniteSet(S), NEW T \in SUBSET S
  PROVE  /\ IsFiniteSet(T) /\ Cardinality(T) \in Nat /\ Cardinality(S) \in Nat
         /\ Cardinality(T) <= Cardinality(S)
         /\ \A x \in S \ T : Cardinality(T) < Cardinality(S)
<1>1. IsFiniteSet(T) /\ Cardinality(T) <= Cardinality(S) /\ (Cardinality(S) = Cardinality(T) => S = T)
  BY FS_Subset
<1>2. Cardinality(T) \in Nat /\ Cardinality(S) \in Nat
  BY <1>1, FS_CardinalityType
<1> QED
  BY <1>1, <1>2

\* The vertices in the cells before that of v, and those before v in its cell.
Before(U, p, v) == {u \in U : p[u] < p[v]}
Ahead(U, p, S, val, v) == IF p[v] \in S THEN {u \in U : p[u] = p[v] /\ val[u] < val[v]} ELSE {}

\* Splitting cells by any value gives an ordered partition again, which refines the first.
LEMMA RegroupRefines ==
  ASSUME NEW m, NEW U, Numbers(m, U), NEW p, Positional(U, p),
         NEW val, Counts(U, val), NEW S, NEW q, q = Regroup(p, S, val)
  PROVE  Refines(U, q, p)
<1> USE DEF Numbers
<1> DEFINE B(v) == Before(U, p, v)
           A(v) == Ahead(U, p, S, val, v)
<1>1. DOMAIN p = U /\ IsFiniteSet(U) /\ \A v \in U : p[v] \in Int /\ val[v] \in Int
  <2>1. IsFiniteSet(U)
    <3>1. 0 \in Int /\ m - 1 \in Int
      OBVIOUS
    <3> QED
      BY <3>1, FS_Interval
  <2>2. p \in [U -> U] /\ U \subseteq Int
    BY DEF Positional
  <2> QED
    BY <2>1, <2>2 DEF Counts
<1>2. ASSUME NEW v \in U
      PROVE  /\ IsFiniteSet(A(v)) /\ IsFiniteSet(B(v)) /\ A(v) \subseteq U /\ B(v) \subseteq U
             /\ p[v] = Cardinality(B(v)) /\ Cardinality(A(v)) \in Nat
             /\ Cardinality(B(v)) \in Nat
             /\ A(v) \cap B(v) = {}
             /\ q[v] = p[v] + Cardinality(A(v))
  <2>1. A(v) \subseteq U /\ B(v) \subseteq U
    BY DEF Ahead, Before
  <2>2. IsFiniteSet(A(v)) /\ IsFiniteSet(B(v)) /\ Cardinality(A(v)) \in Nat /\ Cardinality(B(v)) \in Nat
    BY <1>1, <2>1, Smaller
  <2>3. p[v] = Cardinality(B(v))
    BY DEF Positional, Before
  <2>4. A(v) \cap B(v) = {}
    <3>1. ASSUME NEW u \in U, p[u] = p[v], p[u] < p[v] PROVE FALSE
      BY <1>1, <3>1
    <3> QED
      BY <3>1 DEF Ahead, Before
  <2>5. q[v] = p[v] + Cardinality(A(v))
    <3>1. CASE p[v] \in S
      <4>1. A(v) = {u \in CellAt(p, p[v]) : val[u] < val[v]}
        BY <1>1, <3>1 DEF Ahead, CellAt
      <4> QED
        BY <1>1, <3>1, <4>1 DEF Regroup
    <3>2. CASE p[v] \notin S
      <4>1. Cardinality(A(v)) = 0
        BY <3>2, FS_EmptySet DEF Ahead
      <4> QED
        BY <1>1, <3>2, <4>1 DEF Regroup
    <3> QED
      BY <3>1, <3>2
  <2> QED
    BY <2>1, <2>2, <2>3, <2>4, <2>5
<1>3. ASSUME NEW v \in U
      PROVE  /\ IsFiniteSet(A(v) \cup B(v)) /\ A(v) \cup B(v) \subseteq U /\ q[v] \in Nat
             /\ q[v] = Cardinality(A(v) \cup B(v)) /\ v \notin A(v) \cup B(v)
  <2>1. Cardinality(A(v) \cap B(v)) = 0
    BY <1>2, FS_EmptySet
  <2>2. Cardinality(A(v) \cup B(v)) = Cardinality(A(v)) + Cardinality(B(v)) - Cardinality(A(v) \cap B(v))
    BY <1>2, FS_Union
  <2>3. IsFiniteSet(A(v) \cup B(v))
    BY <1>2, FS_Union
  <2>4. v \notin A(v) \cup B(v)
    BY <1>1 DEF Ahead, Before
  <2> HIDE DEF A, B
  <2>5. Cardinality(A(v) \cup B(v)) = Cardinality(A(v)) + Cardinality(B(v))
    BY <1>2, <2>1, <2>2
  <2> QED
    BY <1>2, <2>3, <2>4, <2>5
<1> HIDE DEF A, B
<1>9. \A v \in U : q[v] \in Int
  <2>1. \A v \in U : q[v] \in Nat
    BY <1>3, Zenon
  <2> QED
    BY <2>1
<1>4. ASSUME NEW u \in U, NEW v \in U, u \in A(v) \cup B(v)
      PROVE  q[u] < q[v]
  <2>1. A(u) \cup B(u) \subseteq A(v) \cup B(v)
    <3>1. \A w \in A(u) \cup B(u) : w \in U
      BY <1>2
    <3>2. u \in A(v) => p[u] = p[v] /\ val[u] < val[v] /\ p[v] \in S
      BY DEF A, Ahead
    <3>3. u \in B(v) => p[u] < p[v]
      BY DEF B, Before
    <3>4. ASSUME NEW w \in A(u) \cup B(u) PROVE w \in A(v) \cup B(v)
      <4>1. w \in A(u) => p[w] = p[u] /\ val[w] < val[u]
        BY DEF A, Ahead
      <4>2. w \in B(u) => p[w] < p[u]
        BY DEF B, Before
      <4>3. p[w] \in Int /\ p[u] \in Int /\ p[v] \in Int /\ val[w] \in Int /\ val[u] \in Int /\ val[v] \in Int /\ w \in U
        BY <1>1, <3>1, <3>4
      <4>4. p[w] < p[v] \/ (p[w] = p[v] /\ val[w] < val[v] /\ p[v] \in S)
        BY <1>4, <3>2, <3>3, <3>4, <4>1, <4>2, <4>3
      <4> QED
        BY <4>3, <4>4 DEF A, B, Ahead, Before
    <3> QED
      BY <3>4
  <2>2. Cardinality(A(u) \cup B(u)) < Cardinality(A(v) \cup B(v))
    BY <1>3, <1>4, <2>1, Smaller
  <2> QED
    BY <1>3, <2>2
<1>5. ASSUME NEW u \in U, NEW v \in U, u \notin A(v) \cup B(v)
      PROVE  ~ q[u] < q[v]
  <2>1. p[u] \in Int /\ p[v] \in Int /\ val[u] \in Int /\ val[v] \in Int
    BY <1>1
  <2>2. ~ p[u] < p[v] /\ (p[u] = p[v] /\ p[v] \in S => ~ val[u] < val[v])
    BY <1>5 DEF A, B, Ahead, Before
  <2>3. CASE p[v] < p[u] \/ (p[u] = p[v] /\ p[v] \in S /\ val[v] < val[u])
    <3>1. v \in A(u) \cup B(u)
      BY <2>3 DEF A, B, Ahead, Before
    <3>2. q[v] < q[u]
      BY <3>1, <1>4
    <3> QED
      BY <3>2, <1>9
  <2>4. CASE p[u] = p[v] /\ (p[v] \in S => val[v] = val[u])
    <3>1. A(u) = A(v)
      BY <2>4 DEF A, Ahead
    <3>2. q[u] = q[v]
      BY <1>2, <2>4, <3>1
    <3> QED
      BY <1>9, <3>2
  <2> QED
    BY <2>1, <2>2, <2>3, <2>4
<1>6. ASSUME NEW v \in U
      PROVE  A(v) \cup B(v) = {u \in U : q[u] < q[v]}
  <2>1. A(v) \cup B(v) \subseteq U
    BY <1>3
  <2> QED
    BY <1>4, <1>5, <2>1
<1>7. Positional(U, q)
  <2>1. \A v \in U : q[v] \in U
    <3> TAKE v \in U
    <3>1. Cardinality(A(v) \cup B(v)) < Cardinality(U)
      BY <1>1, <1>3, Smaller
    <3>2. Cardinality(U) = m
      BY FS_Interval
    <3>3. q[v] \in Nat /\ q[v] < m
      BY <1>3, <3>1, <3>2
    <3> QED
      BY <3>3
  <2>2. q \in [U -> U]
    <3>1. q = [v \in U |-> q[v]]
      BY <1>1 DEF Regroup
    <3> QED
      BY <2>1, <3>1
  <2> QED
    BY <1>3, <1>6, <2>2 DEF Positional
<1>8. KeepsOrder(U, q, p)
  <2>1. \A u, v \in U : p[u] < p[v] => u \in A(v) \cup B(v)
    BY DEF B, Before
  <2> QED
    BY <1>4, <2>1 DEF KeepsOrder
<1> QED
  BY <1>7, <1>8 DEF Refines

PartitionShape(m, U, p) ==
  /\ m \in Nat /\ U \subseteq Nat /\ IsFiniteSet(U) /\ Cardinality(U) = m
  /\ DOMAIN p = U /\ p \in [U -> U]
  /\ \A v \in U : p[v] \in Int /\ p[v] \in U
  /\ Starts(p) \subseteq U /\ IsFiniteSet(Starts(p))
  /\ NumCells(p) \in Nat /\ NumCells(p) <= m

\* What a partition by positions looks like: vertices are mapped to vertices.
LEMMA PositionalAt ==
  ASSUME NEW m, NEW U, Numbers(m, U), NEW p, Positional(U, p)
  PROVE  PartitionShape(m, U, p)
<1> USE DEF Numbers
<1>1. IsFiniteSet(U) /\ Cardinality(U) = m
  <2>1. 0 \in Int /\ m - 1 \in Int
    OBVIOUS
  <2>2. IsFiniteSet(0 .. m - 1) /\ Cardinality(0 .. m - 1) = IF 0 > m - 1 THEN 0 ELSE m - 1 - 0 + 1
    BY <2>1, FS_Interval
  <2> QED
    BY <2>2
<1>2. p \in [U -> U] /\ U \subseteq Int
  BY DEF Positional
<1>3. Starts(p) \subseteq U
  BY <1>2 DEF Starts
<1>4. IsFiniteSet(Starts(p)) /\ Cardinality(Starts(p)) \in Nat /\ Cardinality(Starts(p)) <= Cardinality(U)
  BY <1>1, <1>3, Smaller
<1> QED
  BY <1>1, <1>2, <1>3, <1>4 DEF NumCells, PartitionShape

\* Every partition refines itself.
LEMMA RefinesSelf ==
  ASSUME NEW U, NEW p, Positional(U, p)
  PROVE  Refines(U, p, p)
BY DEF Refines, KeepsOrder

\* A refinement of a refinement is one.
LEMMA RefinesOn ==
  ASSUME NEW U, NEW p, NEW q, Refines(U, q, p), NEW r, Refines(U, r, q)
  PROVE  Refines(U, r, p)
BY DEF Refines, KeepsOrder

\* The starts of cells stay.
LEMMA StartsStay ==
  ASSUME NEW m, NEW U, Numbers(m, U), NEW p, Positional(U, p), NEW q, Refines(U, q, p)
  PROVE  Starts(p) \subseteq Starts(q) /\ NumCells(p) <= NumCells(q)
<1>1. Positional(U, q)
  BY DEF Refines
<1>2. /\ DOMAIN p = U /\ DOMAIN q = U /\ IsFiniteSet(U) /\ U \subseteq Nat /\ IsFiniteSet(Starts(q))
      /\ \A v \in U : p[v] \in Int /\ q[v] \in Int /\ q[v] \in U
  BY <1>1, PositionalAt DEF PartitionShape
<1>3. ASSUME NEW v \in U PROVE p[v] \in Starts(q)
  <2> DEFINE T == {q[u] : u \in {w \in U : p[w] = p[v]}}
  <2>1. PICK x \in T : \A y \in T : x <= y
    <3>1. T \in SUBSET Nat
      BY <1>2
    <3>2. q[v] \in T
      OBVIOUS
    <3> HIDE DEF T
    <3> QED
      BY <3>1, <3>2, Least
  <2>2. PICK u \in U : p[u] = p[v] /\ q[u] = x
    BY <2>1
  <2>3. {w \in U : q[w] < q[u]} = {w \in U : p[w] < p[v]}
    <3>1. ASSUME NEW w \in U, p[w] < p[v] PROVE q[w] < q[u]
      BY <2>2, <3>1 DEF Refines, KeepsOrder
    <3>2. ASSUME NEW w \in U, q[w] < q[u] PROVE p[w] < p[v]
      <4>1. p[w] # p[v]
        <5>1. p[w] = p[v] => q[w] \in T
          OBVIOUS
        <5>2. p[w] = p[v] => q[u] <= q[w]
          BY <2>1, <2>2, <5>1
        <5>3. q[w] \in Int /\ q[u] \in Int
          BY <1>2
        <5> HIDE DEF T
        <5> QED
          BY <3>2, <5>2, <5>3
      <4>2. ~ p[v] < p[w]
        <5>1. p[u] < p[w] => q[u] < q[w]
          BY DEF Refines, KeepsOrder
        <5>2. q[w] \in Int /\ q[u] \in Int
          BY <1>2
        <5> HIDE DEF T
        <5> QED
          BY <2>2, <3>2, <5>1, <5>2
      <4>3. p[v] \in Int /\ p[w] \in Int
        BY <1>2
      <4> HIDE DEF T
      <4> QED
        BY <4>1, <4>2, <4>3
    <3> QED
      BY <3>1, <3>2
  <2>4. q[u] = Cardinality({w \in U : q[w] < q[u]}) /\ p[v] = Cardinality({w \in U : p[w] < p[v]})
    BY <1>1 DEF Positional
  <2> QED
    BY <1>2, <2>3, <2>4 DEF Starts
<1>4. Starts(p) \subseteq Starts(q)
  BY <1>2, <1>3 DEF Starts
<1> QED
  BY <1>2, <1>4, Smaller DEF NumCells

-----------------------------------------------------------------------------
(* Leaves *)

\* A partition in which no two vertices share a cell.
Separates(U, p) == \A u, v \in U : p[u] = p[v] => u = v
Fills(U, p) == \A i \in U : \E v \in U : p[v] = i

\* Discrete means that no two vertices share a cell; every position is then taken.
LEMMA DiscreteIs ==
  ASSUME NEW m, NEW U, Numbers(m, U), NEW p, Positional(U, p)
  PROVE  (Discrete(p) <=> Separates(U, p)) /\ (Discrete(p) => Fills(U, p))
<1>1. /\ DOMAIN p = U /\ IsFiniteSet(U) /\ IsFiniteSet(Starts(p)) /\ p \in [U -> U]
      /\ Starts(p) \subseteq U
  BY PositionalAt DEF PartitionShape
<1>2. p \in Surjection(U, Starts(p))
  BY <1>1 DEF Surjection, Starts
<1>3. Discrete(p) <=> Cardinality(Starts(p)) = Cardinality(U)
  BY <1>1 DEF Discrete, NumCells
<1>4. Cardinality(Starts(p)) = Cardinality(U) <=> p \in Injection(U, Starts(p))
  BY <1>1, <1>2, FS_Surjection
<1>5. Discrete(p) => Starts(p) = U
  BY <1>1, <1>3, FS_Subset
<1> QED
  BY <1>1, <1>2, <1>3, <1>4, <1>5 DEF Injection, IsInjective, Surjection, Starts, Separates, Fills

\* Otherwise some cell has two vertices.
LEMMA NontrivialIs ==
  ASSUME NEW m, NEW U, Numbers(m, U), NEW p, Positional(U, p)
  PROVE  /\ ~ Discrete(p) => Nontrivial(p) # {}
         /\ Nontrivial(p) \subseteq U /\ Nontrivial(p) \in SUBSET Nat
         /\ \A s \in Nontrivial(p) : \A v \in CellAt(p, s) : \E u \in CellAt(p, s) : u # v
         /\ \A s \in Nontrivial(p) : CellAt(p, s) # {} /\ CellAt(p, s) \subseteq U
<1>1. /\ DOMAIN p = U /\ IsFiniteSet(U) /\ Starts(p) \subseteq U /\ U \subseteq Nat
  BY PositionalAt DEF PartitionShape
<1>2. ASSUME NEW s PROVE IsFiniteSet(CellAt(p, s)) /\ Cardinality(CellAt(p, s)) \in Nat /\ CellAt(p, s) \subseteq U
  <2>1. CellAt(p, s) \subseteq U
    BY <1>1 DEF CellAt
  <2> QED
    BY <1>1, <2>1, Smaller
<1>3. ASSUME NEW s \in Nontrivial(p), NEW v \in CellAt(p, s)
      PROVE  \E u \in CellAt(p, s) : u # v
  <2>1. Cardinality(CellAt(p, s)) > 1
    BY DEF Nontrivial
  <2>2. CellAt(p, s) # {v}
    <3>1. Cardinality({v}) = 1
      BY FS_Singleton
    <3> QED
      BY <2>1, <3>1
  <2> QED
    BY <2>2
<1>4. ASSUME NEW s \in Nontrivial(p) PROVE CellAt(p, s) # {}
  BY DEF Nontrivial, Starts, CellAt
<1>5. ASSUME ~ Discrete(p) PROVE Nontrivial(p) # {}
  <2>1. PICK u \in U, v \in U : p[u] = p[v] /\ u # v
    BY <1>5, DiscreteIs DEF Separates
  <2> DEFINE C == CellAt(p, p[u])
  <2>2. u \in C /\ v \in C
    BY <1>1, <2>1 DEF CellAt
  <2>3. Cardinality({u}) = 1 /\ {u} \in SUBSET C /\ v \in C \ {u} /\ IsFiniteSet(C) /\ Cardinality(C) \in Nat
    BY <1>2, <2>1, <2>2, FS_Singleton
  <2>4. Cardinality({u}) < Cardinality(C)
    BY <2>3, Smaller
  <2>5. Cardinality(C) > 1
    BY <2>3, <2>4
  <2> QED
    BY <1>1, <2>5 DEF Nontrivial, Starts
<1> QED
  BY <1>1, <1>2, <1>3, <1>4, <1>5 DEF Nontrivial

\* A set of numbers has its minimum.
LEMMA MinIn ==
  ASSUME NEW T \in SUBSET Nat, T # {}
  PROVE  Min(T) \in T /\ \A y \in T : Min(T) <= y
<1>1. \E x \in T : \A y \in T : x <= y
  BY Least
<1> QED
  BY <1>1 DEF Min

\* The target cell of a node that is no leaf is a cell of several vertices, whatever the hint.
LEMMA TargetCell ==
  ASSUME NEW m, NEW U, Numbers(m, U), NEW p, Positional(U, p), ~ Discrete(p), NEW hint
  PROVE  targetcell(p, hint) \in Nontrivial(p)
<1>1. Nontrivial(p) \in SUBSET Nat /\ Nontrivial(p) # {}
  BY NontrivialIs
<1>2. Min(Nontrivial(p)) \in Nontrivial(p)
  BY <1>1, MinIn
<1> QED
  BY <1>2 DEF targetcell

\* The labelling that a leaf stands for is its inverse.
LEMMA LabIs ==
  ASSUME Numbered, NEW q, Positional(V, q), Discrete(q), NEW lab, lab = LabOf(q)
  PROVE  /\ lab \in [V -> V]
         /\ \A i \in V : lab[i] \in V /\ q[lab[i]] = i
         /\ \A v \in V : q[v] \in V /\ lab[q[v]] = v
<1>1. Numbers(n, V)
  BY DEF Numbered, Numbers
<1>2. /\ \A i \in V : \E v \in V : q[v] = i
      /\ \A u, v \in V : q[u] = q[v] => u = v
  BY <1>1, DiscreteIs DEF Separates, Fills
<1>3. \A v \in V : q[v] \in V
  BY <1>1, PositionalAt DEF PartitionShape
<1>4. \A i \in V : lab[i] \in V /\ q[lab[i]] = i
  BY <1>2 DEF LabOf
<1>5. lab \in [V -> V]
  BY <1>4 DEF LabOf
<1> QED
  BY <1>2, <1>3, <1>4, <1>5

-----------------------------------------------------------------------------
(* A vertex taken out of its cell *)

\* breakout refines, and gives at least one cell more; before it there were fewer than vertices.
LEMMA Breakout ==
  ASSUME NEW m, NEW U, Numbers(m, U), NEW p, Positional(U, p),
         NEW tc \in Nontrivial(p), NEW tv \in CellAt(p, tc)
  PROVE  /\ Refines(U, breakout(p, tc, tv), p)
         /\ NumCells(p) + 1 <= NumCells(breakout(p, tc, tv))
         /\ NumCells(p) < m
<1> DEFINE val == [v \in U |-> IF v = tv THEN 0 ELSE 1]
           b == breakout(p, tc, tv)
           C == CellAt(p, tc)
<1>1. /\ DOMAIN p = U /\ IsFiniteSet(U) /\ Cardinality(U) = m /\ p \in [U -> U]
      /\ \A v \in U : p[v] \in Int
      /\ NumCells(p) \in Nat /\ m \in Nat
  BY PositionalAt DEF PartitionShape
<1>2. C \subseteq U /\ tv \in U /\ p[tv] = tc /\ \A v \in U : v \in C <=> p[v] = tc
  BY <1>1 DEF CellAt
<1>3. PICK w \in C : w # tv
  BY NontrivialIs
<1>4. b = Regroup(p, {tc}, val)
  <2>1. ASSUME NEW v \in U, p[v] = tc
        PROVE  b[v] = p[v] + Cardinality({u \in CellAt(p, p[v]) : val[u] < val[v]})
    <3> DEFINE T == {u \in CellAt(p, p[v]) : val[u] < val[v]}
    <3>1. CASE v = tv
      <4>1. T = {}
        <5>1. \A u \in CellAt(p, p[v]) : ~ val[u] < val[v]
          BY <1>1, <3>1 DEF CellAt
        <5> QED
          BY <5>1
      <4>2. Cardinality(T) = 0
        BY <4>1, FS_EmptySet
      <4>3. b[v] = p[v] + 0
        BY <1>1, <2>1, <3>1 DEF breakout
      <4> HIDE DEF b
      <4> QED
        BY <4>2, <4>3
    <3>2. CASE v # tv
      <4>1. T = {tv}
        <5>1. \A u \in CellAt(p, p[v]) : val[u] < val[v] <=> u = tv
          BY <1>1, <3>2 DEF CellAt
        <5>2. tv \in CellAt(p, p[v])
          BY <2>1
        <5> QED
          BY <5>1, <5>2
      <4>2. Cardinality(T) = 1
        BY <4>1, FS_Singleton
      <4>3. b[v] = p[v] + 1
        BY <1>1, <2>1, <3>2 DEF breakout
      <4> HIDE DEF b
      <4> QED
        BY <4>2, <4>3
    <3> QED
      BY <3>1, <3>2
  <2>2. ASSUME NEW v \in U, p[v] # tc PROVE b[v] = p[v]
    BY <1>1, <2>2 DEF breakout
  <2>3. DOMAIN b = U /\ b = [v \in U |-> b[v]]
    BY <1>1 DEF breakout
  <2> HIDE DEF b, val
  <2>4. \A v \in U : b[v] = Regroup(p, {tc}, val)[v]
    BY <1>1, <2>1, <2>2 DEF Regroup
  <2>5. Regroup(p, {tc}, val) = [v \in U |-> Regroup(p, {tc}, val)[v]]
    BY <1>1 DEF Regroup
  <2> QED
    BY <2>3, <2>4, <2>5
<1>5. Counts(U, val)
  BY DEF Counts
<1>6. Refines(U, b, p)
  <2> HIDE DEF b, val
  <2> QED
    BY <1>4, <1>5, RegroupRefines
<1>7. /\ IsFiniteSet(Starts(b)) /\ DOMAIN b = U /\ NumCells(b) \in Nat /\ NumCells(b) <= m
  <2>1. Positional(U, b)
    BY <1>6 DEF Refines
  <2> HIDE DEF b
  <2> QED
    BY <2>1, PositionalAt DEF PartitionShape
<1>8. tc + 1 \in Starts(b)
  <2>1. b[w] = tc + 1
    BY <1>1, <1>2, <1>3 DEF breakout
  <2> HIDE DEF b
  <2> QED
    BY <1>2, <1>3, <1>7, <2>1 DEF Starts
<1>9. tc + 1 \notin Starts(p)
  <2> SUFFICES ASSUME NEW x \in U, p[x] = tc + 1 PROVE FALSE
    BY <1>1 DEF Starts
  <2> DEFINE T == {u \in U : p[u] < tc}
             W == {u \in U : p[u] < p[x]}
  <2>1. tc \in Int /\ p[x] \in Int
    BY <1>1, <1>2
  <2>2. T \cup {tv} \subseteq W /\ w \in W \ (T \cup {tv}) /\ tv \notin T /\ T \subseteq U /\ W \subseteq U
    <3>1. \A u \in U : p[u] < tc => p[u] < p[x]
      BY <1>1, <2>1
    <3>2. p[w] = tc /\ w \in U
      BY <1>2, <1>3
    <3>3. tc < p[x] /\ ~ tc < tc
      BY <2>1
    <3> QED
      BY <1>2, <1>3, <3>1, <3>2, <3>3
  <2>3. tc = Cardinality(T)
    BY <1>2 DEF Positional
  <2>4. p[x] = Cardinality(W)
    BY DEF Positional
  <2> HIDE DEF T, W
  <2>5. IsFiniteSet(T) /\ IsFiniteSet(W) /\ Cardinality(W) \in Nat
    BY <1>1, <2>2, Smaller
  <2>6. Cardinality(T \cup {tv}) = Cardinality(T) + 1
    BY <2>2, <2>5, FS_AddElement
  <2>7. Cardinality(T \cup {tv}) < Cardinality(W)
    BY <2>2, <2>5, Smaller
  <2> QED
    BY <2>1, <2>3, <2>4, <2>6, <2>7
<1>10. Starts(p) \subseteq Starts(b)
  <2> HIDE DEF b
  <2> QED
    BY <1>6, StartsStay
<1>11. NumCells(p) < NumCells(b)
  <2> HIDE DEF b
  <2> QED
    BY <1>7, <1>8, <1>9, <1>10, Smaller DEF NumCells
<1> HIDE DEF b
<1> QED
  BY <1>1, <1>6, <1>7, <1>11 DEF b

-----------------------------------------------------------------------------
(* Two leaves that refine the same colours have the same colours in the same places. *)

\* The positions that a leaf gives to a colour are those of its cell: between its colour and the
\* next.
LEMMA ColourBounds ==
  ASSUME NEW m, NEW U, Numbers(m, U), NEW c, Positional(U, c),
         NEW q, Refines(U, q, c), Discrete(q), NEW v \in U
  PROVE  c[v] <= q[v] /\ \A u \in U : c[v] < c[u] => q[v] < c[u]
<1>1. Positional(U, q)
  BY DEF Refines
<1>2. /\ IsFiniteSet(U)
      /\ \A u \in U : c[u] \in Int /\ q[u] \in Int
  BY <1>1, PositionalAt DEF PartitionShape
<1>3. \A u, w \in U : q[u] = q[w] => u = w
  BY <1>1, DiscreteIs DEF Separates, Fills
<1>4. \A u \in U : /\ c[u] = Cardinality({w \in U : c[w] < c[u]})
                   /\ q[u] = Cardinality({w \in U : q[w] < q[u]})
  BY <1>1 DEF Positional
<1>5. \A u, w \in U : c[u] < c[w] => q[u] < q[w]
  BY DEF Refines, KeepsOrder
<1>6. c[v] <= q[v]
  <2>1. {w \in U : c[w] < c[v]} \subseteq {w \in U : q[w] < q[v]}
    BY <1>5
  <2>2. IsFiniteSet({w \in U : q[w] < q[v]})
    BY <1>2, Smaller
  <2>3. Cardinality({w \in U : c[w] < c[v]}) <= Cardinality({w \in U : q[w] < q[v]})
    BY <2>1, <2>2, Smaller
  <2> QED
    BY <1>4, <2>3
<1>7. ASSUME NEW u \in U, c[v] < c[u] PROVE q[v] < c[u]
  <2> DEFINE T == {w \in U : q[w] < q[v]}
             W == {w \in U : c[w] < c[u]}
  <2>1. T \subseteq W /\ v \in W \ T
    <3>1. ASSUME NEW w \in U, q[w] < q[v] PROVE c[w] < c[u]
      <4>1. ~ c[v] < c[w]
        <5>1. c[v] < c[w] => q[v] < q[w]
          BY <1>5
        <5> QED
          BY <1>2, <3>1, <5>1
      <4> QED
        BY <1>2, <1>7, <4>1
    <3>2. ~ q[v] < q[v]
      BY <1>2
    <3> QED
      BY <1>7, <3>1, <3>2
  <2>2. IsFiniteSet(W)
    BY <1>2, Smaller
  <2>3. Cardinality(T) < Cardinality(W)
    BY <2>1, <2>2, Smaller
  <2> QED
    BY <1>4, <2>3
<1> QED
  BY <1>6, <1>7

\* Vertices at the same position of two leaves have the same colour.
LEMMA SameColours ==
  ASSUME NEW m, NEW U, Numbers(m, U), NEW c, Positional(U, c),
         NEW p, Refines(U, p, c), Discrete(p), NEW q, Refines(U, q, c), Discrete(q),
         NEW v \in U, NEW w \in U, p[v] = q[w]
  PROVE  c[v] = c[w]
<1>1. Positional(U, p) /\ Positional(U, q)
  BY DEF Refines
<1>2. c[v] \in Int /\ c[w] \in Int /\ p[v] \in Int
  BY <1>1, PositionalAt DEF PartitionShape
<1>3. c[v] <= p[v] /\ (c[v] < c[w] => p[v] < c[w])
  BY ColourBounds
<1>4. c[w] <= q[w] /\ (c[w] < c[v] => q[w] < c[v])
  BY ColourBounds
<1> QED
  BY <1>2, <1>3, <1>4

-----------------------------------------------------------------------------
(* The vertex invariant is a number. *)

\* The powers of two up to 2^15 are what they are.
LEMMA Powers == \A i \in 0 .. 15 : 2 ^ i \in Nat \ {0}
<1> DEFINE P(i) == 2 ^ i
<1>1. /\ P(0) = 1 /\ P(1) = 2 /\ P(2) = 4 /\ P(3) = 8 /\ P(4) = 16 /\ P(5) = 32
      /\ P(6) = 64 /\ P(7) = 128 /\ P(8) = 256 /\ P(9) = 512 /\ P(10) = 1024
      /\ P(11) = 2048 /\ P(12) = 4096 /\ P(13) = 8192 /\ P(14) = 16384 /\ P(15) = 32768
  OBVIOUS
<1> HIDE DEF P
<1>2. ASSUME NEW i \in 0 .. 15 PROVE P(i) \in Nat \ {0}
  <2>1. \/ i = 0 \/ i = 1 \/ i = 2 \/ i = 3 \/ i = 4 \/ i = 5 \/ i = 6 \/ i = 7
        \/ i = 8 \/ i = 9 \/ i = 10 \/ i = 11 \/ i = 12 \/ i = 13 \/ i = 14 \/ i = 15
    OBVIOUS
  <2> QED
    BY <1>1, <2>1
<1> QED
  BY <1>2 DEF P

\* The exclusive or of two codes is a number.
LEMMA XorIs ==
  ASSUME NEW x \in Nat, NEW y \in Nat
  PROVE  Xor(x, y) \in Nat
<1> DEFINE s == [i \in 1 .. 15 |-> 2 ^ (i - 1) * ((Bit(x, i - 1) + Bit(y, i - 1)) % 2)]
<1>1. ASSUME NEW i \in 1 .. 15
      PROVE  2 ^ (i - 1) * ((Bit(x, i - 1) + Bit(y, i - 1)) % 2) \in Nat
  <2>1. PICK k : k = 2 ^ (i - 1)
    OBVIOUS
  <2>2. k \in Nat \ {0}
    <3>1. i - 1 \in 0 .. 15
      OBVIOUS
    <3> QED
      BY <2>1, <3>1, Powers
  <2>3. (x \div k) % 2 \in {0, 1} /\ (y \div k) % 2 \in {0, 1}
    BY <2>2
  <2>4. Bit(x, i - 1) \in {0, 1} /\ Bit(y, i - 1) \in {0, 1}
    BY <2>1, <2>3 DEF Bit
  <2>5. (Bit(x, i - 1) + Bit(y, i - 1)) % 2 \in {0, 1}
    BY <2>4
  <2> QED
    BY <2>1, <2>2, <2>5
<1>2. s \in Seq(Nat)
  <2>1. s \in [1 .. 15 -> Nat]
    BY <1>1
  <2> HIDE DEF s
  <2> QED
    BY <2>1, SeqDef
<1>3. Xor(x, y) = SumOf(s)
  BY DEF Xor
<1> HIDE DEF s
<1> QED
  BY <1>2, <1>3, SumIsNat

\* What the tables of the hash hold.
LEMMA FuzzIs ==
  ASSUME NEW x \in Nat
  PROVE  FUZZ1[x % 2 ^ 15] \in Nat /\ FUZZ2[x % 2 ^ 15] \in Nat
<1>1. PICK y : y = x % 2 ^ 15
  OBVIOUS
<1>2. 2 ^ 15 = 32768
  OBVIOUS
<1>3. y \in 0 .. 2 ^ 15 - 1 /\ y \in Nat
  BY <1>1, <1>2
<1>4. y % 4 \in {0, 1, 2, 3}
  BY <1>3
<1> DEFINE A(z) == <<16225, 25434, 2735, 11534>>[(z % 4) + 1]
           B(z) == <<3418, 28830, 15187, 25887>>[(z % 4) + 1]
<1>5. A(y) \in Nat /\ B(y) \in Nat
  BY <1>4
<1>6. /\ FUZZ1 = [z \in 0 .. 2 ^ 15 - 1 |-> Xor(z, A(z))]
      /\ FUZZ2 = [z \in 0 .. 2 ^ 15 - 1 |-> Xor(z, B(z))]
  BY DEF FUZZ1, FUZZ2
<1> HIDE DEF A, B
<1>7. FUZZ1[y] = Xor(y, A(y)) /\ FUZZ2[y] = Xor(y, B(y))
  BY <1>3, <1>6
<1> QED
  BY <1>1, <1>3, <1>5, <1>7, XorIs

\* The vertex invariant gives every vertex a number.
LEMMA AdjacenciesCount ==
  ASSUME NEW m, NEW U, Numbers(m, U), NEW p, Positional(U, p), NEW bits \in 1 .. 15, NEW h
  PROVE  Counts(U, adjacencies(bits, h, p))
<1> DEFINE wt(v) == Cardinality({s \in Starts(p) : s <= p[v]}) % 2 ^ 15
           Joined(v, i) == (IF i - 1 \in h[v] THEN FUZZ2[wt(i - 1)] ELSE 0)
                             + (IF v \in h[i - 1] THEN FUZZ1[wt(i - 1)] ELSE 0)
           row(v) == [i \in 1 .. m |-> Joined(v, i)]
<1>1. DOMAIN p = U /\ Cardinality(U) = m /\ m \in Nat /\ IsFiniteSet(Starts(p))
  BY PositionalAt DEF PartitionShape
<1>2. ASSUME NEW v PROVE FUZZ1[wt(v)] \in Nat /\ FUZZ2[wt(v)] \in Nat
  <2>1. Cardinality({s \in Starts(p) : s <= p[v]}) \in Nat
    <3>1. {s \in Starts(p) : s <= p[v]} \in SUBSET Starts(p)
      OBVIOUS
    <3> QED
      BY <1>1, <3>1, Smaller
  <2> QED
    BY <2>1, FuzzIs
<1>3. ASSUME NEW v PROVE row(v) \in Seq(Nat)
  <2> HIDE DEF wt
  <2>1. \A i \in 1 .. m : Joined(v, i) \in Nat
    BY <1>2
  <2> HIDE DEF Joined
  <2>2. row(v) \in [1 .. m -> Nat]
    BY <2>1
  <2> QED
    BY <1>1, <2>2, SeqDef
<1>4. adjacencies(bits, h, p) = [v \in U |-> SumOf(row(v)) % 2 ^ bits]
  BY <1>1 DEF adjacencies
<1> HIDE DEF row
<1>5. ASSUME NEW v PROVE SumOf(row(v)) % 2 ^ bits \in Int
  <2>1. PICK k : k = 2 ^ bits
    OBVIOUS
  <2>2. k \in Nat \ {0}
    <3>1. bits \in 0 .. 15
      OBVIOUS
    <3> QED
      BY <2>1, <3>1, Powers
  <2>3. SumOf(row(v)) \in Nat
    BY <1>3, SumIsNat
  <2>4. SumOf(row(v)) % k \in Int
    BY <2>2, <2>3
  <2> QED
    BY <2>1, <2>4
<1> QED
  BY <1>4, <1>5 DEF Counts

-----------------------------------------------------------------------------
(* So are the distances. *)

\* The distances known after round k, from those known before.
Reached(h, k, d) ==
  [u \in Vertices(h) |->
     IF d[u] = Cardinality(Vertices(h)) /\ \E w \in Vertices(h) : d[w] = k - 1 /\ u \in h[w]
     THEN k ELSE d[u]]

\* f is the function Within of distvals for the first k rounds.
Rounds(f, h, v, k) ==
  f = [j \in 0 .. k |->
         IF j = 0 THEN [u \in Vertices(h) |-> IF u = v THEN 0 ELSE Cardinality(Vertices(h))]
         ELSE Reached(h, j, f[j - 1])]

\* Distances, round by round, are a function.
LEMMA RoundsExist ==
  ASSUME NEW h, NEW v, NEW k \in Nat
  PROVE  \E f : Rounds(f, h, v, k)
<1> DEFINE T == {j \in Nat : ~ \E f : Rounds(f, h, v, j)}
           first == [u \in Vertices(h) |-> IF u = v THEN 0 ELSE Cardinality(Vertices(h))]
<1> SUFFICES ASSUME T # {} PROVE FALSE
  OBVIOUS
<1>1. PICK m \in T : \A y \in T : m <= y
  BY Least
<1>9. \A f, j : Rounds(f, h, v, j) <=>
        f = [i \in 0 .. j |-> IF i = 0 THEN first ELSE Reached(h, i, f[i - 1])]
  BY Zenon DEF Rounds
<1> HIDE DEF first
<1>2. CASE m = 0
  <2> DEFINE f == [j \in 0 .. 0 |-> first]
  <2>1. f = [j \in 0 .. m |-> IF j = 0 THEN first ELSE Reached(h, j, f[j - 1])]
    BY <1>2
  <2> QED
    BY <1>1, <1>9, <2>1
<1>3. CASE m # 0
  <2>1. m - 1 \in Nat /\ m - 1 \notin T
    BY <1>1, <1>3
  <2>2. PICK f : f = [j \in 0 .. m - 1 |-> IF j = 0 THEN first ELSE Reached(h, j, f[j - 1])]
    BY <1>9, <2>1
  <2> DEFINE e == [j \in 0 .. m |-> IF j = m THEN Reached(h, m, f[m - 1]) ELSE f[j]]
  <2>3. \A j \in 0 .. m : e[j] = IF j = 0 THEN first ELSE Reached(h, j, e[j - 1])
    <3> TAKE j \in 0 .. m
    <3>1. CASE j = m
      BY <1>1, <1>3, <3>1
    <3>2. CASE j # m
      <4>1. j \in 0 .. m - 1
        BY <1>1, <3>2
      <4>2. f[j] = IF j = 0 THEN first ELSE Reached(h, j, f[j - 1])
        BY <2>2, <4>1
      <4> QED
        BY <4>1, <4>2
    <3> QED
      BY <3>1, <3>2
  <2>4. e = [j \in 0 .. m |-> IF j = 0 THEN first ELSE Reached(h, j, e[j - 1])]
    BY <2>3
  <2> HIDE DEF e
  <2> QED
    BY <1>1, <1>9, <2>4
<1> QED
  BY <1>2, <1>3

\* Distances are numbers.
LEMMA DistancesCount ==
  ASSUME NEW m, NEW U, Numbers(m, U), NEW h, DOMAIN h = U, NEW v
  PROVE  Counts(U, distvals(h, v))
<1>1. m \in Nat /\ Cardinality(U) = m /\ Vertices(h) = U
  <2>1. m \in Nat /\ U = 0 .. m - 1 /\ 0 \in Int /\ m - 1 \in Int
    BY DEF Numbers
  <2>2. Cardinality(0 .. m - 1) = IF 0 > m - 1 THEN 0 ELSE m - 1 - 0 + 1
    BY <2>1, FS_Interval
  <2> QED
    BY <2>1, <2>2 DEF Vertices
<1>2. CASE m = 0
  BY <1>2 DEF Counts, Numbers
<1>3. CASE m # 0
  <2>1. PICK k \in Nat : k = m - 1
    BY <1>1, <1>3
  <2> DEFINE G(f) == [j \in 0 .. Cardinality(Vertices(h)) - 1 |->
                        IF j = 0 THEN [u \in Vertices(h) |-> IF u = v THEN 0 ELSE Cardinality(Vertices(h))]
                        ELSE With(f[j - 1], LAMBDA d :
                             [u \in Vertices(h) |->
                                IF d[u] = Cardinality(Vertices(h)) /\ \E w \in Vertices(h) : d[w] = j - 1 /\ u \in h[w]
                                THEN j ELSE d[u]])]
             f == CHOOSE f : f = G(f)
  <2>2. ASSUME NEW e PROVE e = G(e) <=> Rounds(e, h, v, k)
    <3>1. ASSUME NEW j
          PROVE  With(e[j - 1], LAMBDA d :
                     [u \in Vertices(h) |->
                        IF d[u] = Cardinality(Vertices(h)) /\ \E w \in Vertices(h) : d[w] = j - 1 /\ u \in h[w]
                        THEN j ELSE d[u]]) = Reached(h, j, e[j - 1])
      BY <1>1, Zenon DEF With, Reached
    <3>2. G(e) = [j \in 0 .. m - 1 |->
                     IF j = 0 THEN [u \in Vertices(h) |-> IF u = v THEN 0 ELSE Cardinality(Vertices(h))]
                     ELSE Reached(h, j, e[j - 1])]
      BY <1>1, <3>1, Zenon
    <3> HIDE DEF G
    <3> QED
      BY <1>1, <2>1, <3>2, Zenon DEF Rounds
  <2>3. distvals(h, v) = f[m - 1]
    <3>1. distvals(h, v) = f[Cardinality(Vertices(h)) - 1]
      BY DEF distvals
    <3> HIDE DEF f
    <3> QED
      BY <1>1, <3>1
  <2>4. \E e : e = G(e)
    <3>1. PICK e : Rounds(e, h, v, k)
      BY RoundsExist
    <3> QED
      BY <2>2, <3>1
  <2> HIDE DEF G
  <2>5. f = G(f)
    BY <2>4, Zenon
  <2>6. Rounds(f, h, v, k)
    BY <2>2, <2>5
  <2> HIDE DEF f
  <2> DEFINE T == {j \in 0 .. k : ~ Counts(U, f[j])}
  <2>7. T = {}
    <3> SUFFICES ASSUME T # {} PROVE FALSE
      OBVIOUS
    <3>1. PICK j \in T : \A y \in T : j <= y
      <4>1. T \in SUBSET Nat
        OBVIOUS
      <4> HIDE DEF T
      <4> QED
        BY <4>1, Least
    <3>2. f[j] = IF j = 0 THEN [u \in U |-> IF u = v THEN 0 ELSE m]
                 ELSE Reached(h, j, f[j - 1])
      <4>1. j \in 0 .. k
        BY <3>1
      <4> QED
        BY <1>1, <2>6, <4>1, Zenon DEF Rounds
    <3>3. CASE j = 0
      <4>1. Counts(U, f[j])
        BY <1>1, <3>2, <3>3 DEF Counts
      <4> QED
        BY <3>1, <4>1
    <3>4. CASE j # 0
      <4>1. Counts(U, f[j - 1])
        <5>1. j - 1 \in 0 .. k /\ ~ j <= j - 1
          BY <3>1, <3>4
        <5> QED
          BY <3>1, <5>1
      <4>2. PICK d : d = f[j - 1]
        OBVIOUS
      <4>3. f[j] = Reached(h, j, d) /\ Counts(U, d) /\ j \in Int
        BY <3>1, <3>2, <3>4, <4>1, <4>2
      <4>4. Counts(U, f[j])
        BY <1>1, <4>3 DEF Reached, Counts
      <4> QED
        BY <3>1, <4>4
    <3> QED
      BY <3>3, <3>4
  <2>8. m - 1 \in 0 .. k
    BY <2>1
  <2> QED
    BY <2>3, <2>7, <2>8
<1> QED
  BY <1>2, <1>3

-----------------------------------------------------------------------------
(* Refinement splits cells, and does nothing else to a partition. *)

\* The values that cells are split by: whether the vertex of W has no arc to a vertex, or
\* one, and the numbers of arcs to W and from it.
Misses(h, W) == [v \in DOMAIN h |-> IF v \in h[CHOOSE w \in W : TRUE] THEN 0 ELSE 1]
Hit(h, W) == [v \in DOMAIN h |-> IF v \in h[CHOOSE w \in W : TRUE] THEN 1 ELSE 0]
ArcsTo(h, W) == [v \in DOMAIN h |-> Cardinality(h[v] \cap W)]
ArcsFrom(h, W) == [v \in DOMAIN h |-> Cardinality({u \in W : v \in h[u]})]

SplitTo(h, W) == IF Cardinality(W) = 1 THEN Misses(h, W) ELSE ArcsTo(h, W)
SplitFrom(h, W) == IF Cardinality(W) = 1 THEN Hit(h, W) ELSE ArcsFrom(h, W)

\* The partition after a splitting cell, in dense graphs.
LEMMA RefineByIs ==
  ASSUME NEW h, NEW bits, NEW r, NEW split1, NEW W
  PROVE  RefineBy(bits, h, r, split1, W).p
           = Regroup(r.p, Nontrivial(r.p), SplitTo(h, W))
BY DEF RefineBy, SplitTo, Misses, ArcsTo

\* The partition after a splitting cell, in sparse graphs.
LEMMA RefineByIs_sg ==
  ASSUME NEW h, NEW bits, NEW r, NEW taken, NEW W
  PROVE  \E S : RefineBy_sg(bits, h, r, taken, W).p
                  = Regroup(r.p, S, SplitFrom(h, W))
BY DEF RefineBy_sg, SplitFrom, Hit, ArcsFrom

\* What cells are split by are numbers.
LEMMA ValuesCount ==
  ASSUME NEW U, IsFiniteSet(U), NEW h, DOMAIN h = U, NEW W, W \subseteq U
  PROVE  Counts(U, SplitTo(h, W)) /\ Counts(U, SplitFrom(h, W))
<1>1. ASSUME NEW v \in U
      PROVE  Cardinality(h[v] \cap W) \in Int /\ Cardinality({u \in W : v \in h[u]}) \in Int
  <2>1. h[v] \cap W \in SUBSET U /\ {u \in W : v \in h[u]} \in SUBSET U
    OBVIOUS
  <2> QED
    BY <2>1, Smaller
<1>2. Counts(U, Misses(h, W)) /\ Counts(U, Hit(h, W))
  BY DEF Counts, Misses, Hit
<1>3. Counts(U, ArcsTo(h, W))
  BY <1>1 DEF Counts, ArcsTo
<1>4. Counts(U, ArcsFrom(h, W))
  BY <1>1 DEF Counts, ArcsFrom
<1> QED
  BY <1>2, <1>3, <1>4 DEF SplitTo, SplitFrom

\* A step splits all cells of several vertices at once.
LEMMA RefineStepIs ==
  ASSUME NEW h, NEW bits, NEW r
  PROVE  RefineStep(bits, h, r) = RefineBy(bits, h, r, NextActive(r), CellAt(r.p, NextActive(r)))
BY Zenon DEF RefineStep, With

\* A step splits the cells that are hit.
LEMMA RefineStepIs_sg ==
  ASSUME NEW h, NEW bits, NEW r
  PROVE  \E taken, s : RefineStep_sg(bits, h, r) = RefineBy_sg(bits, h, r, taken, CellAt(r.p, s))
<1>1. RefineStep_sg(bits, h, r)
        = RefineBy_sg(bits, h, r, TakeActive(r), CellAt(r.p, TakeActive(r).isplit))
  BY Zenon DEF RefineStep_sg, With
<1> QED
  BY <1>1, Zenon

\* The first step of refine_sg leaves the partition, or splits it by distances.
LEMMA FirstByDistanceIs ==
  ASSUME NEW h, NEW bits, NEW r, NEW lev
  PROVE  \/ FirstByDistance(bits, h, lev, r) = r
         \/ \E v : FirstByDistance(bits, h, lev, r).p = Regroup(r.p, Nontrivial(r.p), distvals(h, v))
<1> DEFINE v == CHOOSE w \in CellAt(r.p, r.queue[1]) : TRUE
<1>1. \/ FirstByDistance(bits, h, lev, r) = r
      \/ FirstByDistance(bits, h, lev, r) = SplitByDistance(bits, r, distvals(h, v))
  BY Zenon DEF FirstByDistance, With
<1>2. SplitByDistance(bits, r, distvals(h, v)).p = Regroup(r.p, Nontrivial(r.p), distvals(h, v))
  BY DEF SplitByDistance
<1> HIDE DEF v
<1> QED
  BY <1>1, <1>2, Zenon

-----------------------------------------------------------------------------
\* A step for dense graphs refines.
LEMMA RefineStepRefines ==
  ASSUME NEW m, NEW U, Numbers(m, U), NEW h, DOMAIN h = U, NEW bits, NEW r, Positional(U, r.p)
  PROVE  Refines(U, RefineStep(bits, h, r).p, r.p)
<1>1. PICK W : W = CellAt(r.p, NextActive(r))
  OBVIOUS
<1>2. RefineStep(bits, h, r).p
        = Regroup(r.p, Nontrivial(r.p), SplitTo(h, W))
  BY <1>1, RefineByIs, RefineStepIs
<1>3. IsFiniteSet(U) /\ W \subseteq U
  <2>1. IsFiniteSet(U) /\ DOMAIN r.p = U
    BY PositionalAt DEF PartitionShape
  <2> QED
    BY <1>1, <2>1 DEF CellAt
<1>4. Counts(U, SplitTo(h, W))
  BY <1>3, ValuesCount
<1> QED
  BY <1>2, <1>4, RegroupRefines

\* A step for sparse graphs refines.
LEMMA RefineStepRefines_sg ==
  ASSUME NEW m, NEW U, Numbers(m, U), NEW h, DOMAIN h = U, NEW bits, NEW r, Positional(U, r.p)
  PROVE  Refines(U, RefineStep_sg(bits, h, r).p, r.p)
<1>1. PICK taken, s, W : /\ W = CellAt(r.p, s)
                         /\ RefineStep_sg(bits, h, r) = RefineBy_sg(bits, h, r, taken, W)
  BY RefineStepIs_sg, Zenon
<1>2. PICK S : RefineStep_sg(bits, h, r).p
                 = Regroup(r.p, S, SplitFrom(h, W))
  BY <1>1, RefineByIs_sg
<1>3. IsFiniteSet(U) /\ W \subseteq U
  <2>1. IsFiniteSet(U) /\ DOMAIN r.p = U
    BY PositionalAt DEF PartitionShape
  <2> QED
    BY <1>1, <2>1 DEF CellAt
<1>4. Counts(U, SplitFrom(h, W))
  BY <1>3, ValuesCount
<1> QED
  BY <1>2, <1>4, RegroupRefines

\* The first step of refine_sg refines.
LEMMA FirstByDistanceRefines ==
  ASSUME NEW m, NEW U, Numbers(m, U), NEW h, DOMAIN h = U, NEW bits, NEW lev,
         NEW r, Positional(U, r.p)
  PROVE  Refines(U, FirstByDistance(bits, h, lev, r).p, r.p)
<1>1. CASE FirstByDistance(bits, h, lev, r) = r
  BY <1>1, RefinesSelf
<1>2. CASE FirstByDistance(bits, h, lev, r) # r
  <2>1. PICK v : FirstByDistance(bits, h, lev, r).p = Regroup(r.p, Nontrivial(r.p), distvals(h, v))
    BY <1>2, FirstByDistanceIs
  <2>2. Counts(U, distvals(h, v))
    BY DistancesCount
  <2> QED
    BY <2>1, <2>2, RegroupRefines
<1> QED
  BY <1>1, <1>2

-----------------------------------------------------------------------------
(* Refinements *)

\* A round of refine or of refine_sg.
Round(rep, bits, h, r) ==
  IF rep = "dense" THEN (IF Discrete(r.p) \/ r.active = {} THEN r ELSE RefineStep(bits, h, r))
  ELSE (IF Discrete(r.p) \/ r.queue = <<>> THEN r ELSE RefineStep_sg(bits, h, r))

\* f is their function Run for the first k rounds.
RefineRun(f, rep, bits, h, start, k) ==
  f = [j \in 0 .. k |-> IF j = 0 THEN start ELSE Round(rep, bits, h, f[j - 1])]

\* The steps of a refinement, one after the other, are a function.
LEMMA RunExists ==
  ASSUME NEW rep, NEW bits, NEW h, NEW start, NEW k \in Nat
  PROVE  \E f : RefineRun(f, rep, bits, h, start, k)
<1> DEFINE T == {j \in Nat : ~ \E f : RefineRun(f, rep, bits, h, start, j)}
<1> SUFFICES ASSUME T # {} PROVE FALSE
  OBVIOUS
<1>1. PICK m \in T : \A y \in T : m <= y
  BY Least
<1>2. CASE m = 0
  <2> DEFINE f == [j \in 0 .. 0 |-> start]
  <2>1. f = [j \in 0 .. m |-> IF j = 0 THEN start ELSE Round(rep, bits, h, f[j - 1])]
    BY <1>2
  <2> QED
    BY <1>1, <2>1, Zenon DEF RefineRun
<1>3. CASE m # 0
  <2>1. m - 1 \in Nat /\ m - 1 \notin T
    BY <1>1, <1>3
  <2>2. PICK f : f = [j \in 0 .. m - 1 |-> IF j = 0 THEN start ELSE Round(rep, bits, h, f[j - 1])]
    BY <2>1, Zenon DEF RefineRun
  <2> DEFINE e == [j \in 0 .. m |-> IF j = m THEN Round(rep, bits, h, f[m - 1]) ELSE f[j]]
  <2>3. \A j \in 0 .. m : e[j] = IF j = 0 THEN start ELSE Round(rep, bits, h, e[j - 1])
    <3> TAKE j \in 0 .. m
    <3>1. CASE j = m
      BY <1>1, <1>3, <3>1
    <3>2. CASE j # m
      <4>1. j \in 0 .. m - 1
        BY <1>1, <3>2
      <4>2. f[j] = IF j = 0 THEN start ELSE Round(rep, bits, h, f[j - 1])
        BY <2>2, <4>1
      <4> QED
        BY <4>1, <4>2
    <3> QED
      BY <3>1, <3>2
  <2>4. e = [j \in 0 .. m |-> IF j = 0 THEN start ELSE Round(rep, bits, h, e[j - 1])]
    BY <2>3
  <2> HIDE DEF e
  <2> QED
    BY <1>1, <2>4, Zenon DEF RefineRun
<1> QED
  BY <1>2, <1>3

\* Every step of a run refines the partition that it started with.
LEMMA RunRefines ==
  ASSUME NEW m, NEW U, Numbers(m, U), NEW h, DOMAIN h = U, NEW bits, NEW rep,
         NEW start, Positional(U, start.p), NEW k \in Nat,
         NEW f, RefineRun(f, rep, bits, h, start, k)
  PROVE  Refines(U, f[k].p, start.p)
<1> DEFINE T == {j \in 0 .. k : ~ Refines(U, f[j].p, start.p)}
<1>1. T = {}
  <2> SUFFICES ASSUME T # {} PROVE FALSE
    OBVIOUS
  <2>1. PICK j \in T : \A y \in T : j <= y
    <3>1. T \in SUBSET Nat
      OBVIOUS
    <3> HIDE DEF T
    <3> QED
      BY <3>1, Least
  <2>2. f[j] = IF j = 0 THEN start ELSE Round(rep, bits, h, f[j - 1])
    <3>1. j \in 0 .. k
      BY <2>1
    <3> QED
      BY <3>1, Zenon DEF RefineRun
  <2>3. CASE j = 0
    BY <2>1, <2>2, <2>3, RefinesSelf
  <2>4. CASE j # 0
    <3>1. Refines(U, f[j - 1].p, start.p)
      <4>1. j - 1 \in 0 .. k /\ ~ j <= j - 1
        BY <2>1, <2>4
      <4> QED
        BY <2>1, <4>1
    <3>2. PICK r : r = f[j - 1]
      OBVIOUS
    <3>3. f[j] = Round(rep, bits, h, r)
      BY <2>2, <2>4, <3>2
    <3>4. Positional(U, r.p) /\ Refines(U, r.p, start.p)
      BY <3>1, <3>2 DEF Refines
    <3>5. Refines(U, Round(rep, bits, h, r).p, r.p)
      BY <3>4, RefinesSelf, RefineStepRefines, RefineStepRefines_sg DEF Round
    <3>6. Refines(U, Round(rep, bits, h, r).p, start.p)
      BY <3>4, <3>5, RefinesOn
    <3> QED
      BY <2>1, <3>3, <3>6
  <2> QED
    BY <2>3, <2>4
<1>2. k \in 0 .. k
  OBVIOUS
<1> QED
  BY <1>1, <1>2

-----------------------------------------------------------------------------
\* refine refines.
LEMMA refineRefines ==
  ASSUME NEW m, NEW U, Numbers(m, U), NEW h, DOMAIN h = U, NEW bits,
         NEW p, Positional(U, p), NEW active
  PROVE  Refines(U, refine(bits, h, p, active).p, p)
<1> DEFINE start == [p |-> p, active |-> active, hint |-> 0, code |-> NumCells(p)]
           G(f) == [k \in 0 .. Cardinality(Vertices(h)) |->
                      IF k = 0 THEN start
                      ELSE With(f[k - 1], LAMBDA r : IF Discrete(r.p) \/ r.active = {} THEN r
                                                     ELSE RefineStep(bits, h, r))]
           f == CHOOSE f : f = G(f)
<1>1. Vertices(h) = U /\ Cardinality(U) = m /\ m \in Nat
  BY PositionalAt DEF PartitionShape, Vertices
<1>2. ASSUME NEW e PROVE e = G(e) <=> RefineRun(e, "dense", bits, h, start, m)
  <2>1. ASSUME NEW k
        PROVE  With(e[k - 1], LAMBDA r : IF Discrete(r.p) \/ r.active = {} THEN r
                                         ELSE RefineStep(bits, h, r))
                 = Round("dense", bits, h, e[k - 1])
    <3>1. PICK r : r = e[k - 1]
      OBVIOUS
    <3> DEFINE D(x) == IF Discrete(x.p) \/ x.active = {} THEN x ELSE RefineStep(bits, h, x)
    <3>2. D(r) = Round("dense", bits, h, r)
      BY DEF Round
    <3>3. With(r, D) = D(r)
      <4> HIDE DEF D
      <4> QED
        BY Zenon DEF With
    <3> QED
      BY <3>1, <3>2, <3>3, Zenon DEF With
  <2>2. G(e) = [k \in 0 .. m |-> IF k = 0 THEN start ELSE Round("dense", bits, h, e[k - 1])]
    BY <1>1, <2>1, Zenon
  <2> HIDE DEF G
  <2> QED
    BY <2>2, Zenon DEF RefineRun
<1>3. refine(bits, h, p, active)
        = [p |-> f[m].p, code |-> CLEANUP(bits, MASH(bits, f[m].code, NumCells(f[m].p)))]
  <2>1. refine(bits, h, p, active)
          = With(f[Cardinality(Vertices(h))], LAMBDA end :
                 [p |-> end.p, code |-> CLEANUP(bits, MASH(bits, end.code, NumCells(end.p)))])
    BY DEF refine
  <2> HIDE DEF f
  <2> QED
    BY <1>1, <2>1, Zenon DEF With
<1>4. \E e : e = G(e)
  <2>1. PICK e : RefineRun(e, "dense", bits, h, start, m)
    BY <1>1, RunExists
  <2> QED
    BY <1>2, <2>1
<1>5. RefineRun(f, "dense", bits, h, start, m)
  <2> HIDE DEF G
  <2>1. f = G(f)
    BY <1>4, Zenon
  <2> QED
    BY <1>2, <2>1
<1>6. start.p = p
  OBVIOUS
<1> HIDE DEF f, start
<1>7. Refines(U, f[m].p, p)
  BY <1>1, <1>5, <1>6, RunRefines
<1>8. refine(bits, h, p, active).p = f[m].p
  BY <1>3
<1> QED
  BY <1>7, <1>8

\* refine_sg refines.
LEMMA refine_sgRefines ==
  ASSUME NEW m, NEW U, Numbers(m, U), NEW h, DOMAIN h = U, NEW bits, NEW lev,
         NEW p, Positional(U, p), NEW active
  PROVE  Refines(U, refine_sg(bits, h, p, lev, active).p, p)
<1> DEFINE start == [p |-> p, queue |-> Ascending(active), code |-> NumCells(p)]
           first == FirstByDistance(bits, h, lev, start)
           G(f) == [k \in 0 .. Cardinality(Vertices(h)) |->
                      IF k = 0 THEN first
                      ELSE With(f[k - 1], LAMBDA r : IF Discrete(r.p) \/ r.queue = <<>> THEN r
                                                     ELSE RefineStep_sg(bits, h, r))]
           f == CHOOSE f : f = G(f)
<1>1. Vertices(h) = U /\ Cardinality(U) = m /\ m \in Nat
  BY PositionalAt DEF PartitionShape, Vertices
<1>2. ASSUME NEW e PROVE e = G(e) <=> RefineRun(e, "sparse", bits, h, first, m)
  <2>1. ASSUME NEW k
        PROVE  With(e[k - 1], LAMBDA r : IF Discrete(r.p) \/ r.queue = <<>> THEN r
                                         ELSE RefineStep_sg(bits, h, r))
                 = Round("sparse", bits, h, e[k - 1])
    <3>1. PICK r : r = e[k - 1]
      OBVIOUS
    <3> DEFINE D(x) == IF Discrete(x.p) \/ x.queue = <<>> THEN x ELSE RefineStep_sg(bits, h, x)
    <3>2. D(r) = Round("sparse", bits, h, r)
      BY DEF Round
    <3>3. With(r, D) = D(r)
      <4> HIDE DEF D
      <4> QED
        BY Zenon DEF With
    <3> QED
      BY <3>1, <3>2, <3>3, Zenon DEF With
  <2>2. G(e) = [k \in 0 .. m |-> IF k = 0 THEN first ELSE Round("sparse", bits, h, e[k - 1])]
    BY <1>1, <2>1, Zenon
  <2> HIDE DEF G
  <2> QED
    BY <2>2, Zenon DEF RefineRun
<1>3. refine_sg(bits, h, p, lev, active).p \in {p, f[m].p}
  <2>1. CASE active = {}
    BY <2>1 DEF refine_sg
  <2>2. CASE active # {}
    <3>1. refine_sg(bits, h, p, lev, active)
            = With(f[Cardinality(Vertices(h))], LAMBDA end :
                   [p |-> end.p, code |-> CLEANUP(bits, MASH(bits, end.code, NumCells(end.p)))])
      BY <2>2 DEF refine_sg
    <3> HIDE DEF f
    <3>2. refine_sg(bits, h, p, lev, active)
            = [p |-> f[m].p, code |-> CLEANUP(bits, MASH(bits, f[m].code, NumCells(f[m].p)))]
      BY <1>1, <3>1, Zenon DEF With
    <3> QED
      BY <3>2
  <2> QED
    BY <2>1, <2>2
<1>4. \E e : e = G(e)
  <2>1. PICK e : RefineRun(e, "sparse", bits, h, first, m)
    BY <1>1, RunExists
  <2> QED
    BY <1>2, <2>1
<1>5. RefineRun(f, "sparse", bits, h, first, m)
  <2> HIDE DEF G
  <2>1. f = G(f)
    BY <1>4, Zenon
  <2> QED
    BY <1>2, <2>1
<1>6. start.p = p
  OBVIOUS
<1> HIDE DEF f, start
<1>7. Refines(U, first.p, p)
  BY <1>6, FirstByDistanceRefines
<1>8. Positional(U, first.p)
  BY <1>7 DEF Refines
<1> HIDE DEF first
<1>9. Refines(U, f[m].p, first.p)
  BY <1>1, <1>5, <1>8, RunRefines
<1> QED
  BY <1>3, <1>7, <1>9, RefinesSelf, RefinesOn

\* So does the refinement that the kind of graph selects.
LEMMA RefinedRefines ==
  ASSUME NEW m, NEW U, Numbers(m, U), NEW h, DOMAIN h = U, NEW rep, NEW bits, NEW lev,
         NEW p, Positional(U, p), NEW active
  PROVE  Refines(U, Refined(rep, bits, h, p, lev, active).p, p)
BY refineRefines, refine_sgRefines DEF Refined

\* With the vertex invariant.
LEMMA dorefRefines ==
  ASSUME NEW m, NEW U, Numbers(m, U), NEW h, DOMAIN h = U, NEW rep, NEW bits \in 1 .. 15, NEW lev,
         NEW p, Positional(U, p), NEW active
  PROVE  Refines(U, doref(rep, bits, h, p, lev, active).p, p)
<1> DEFINE D(once, split) ==
             IF Discrete(once.p) \/ lev > MaxInvarLevel \/ split = once.p THEN once
             ELSE With(Refined(rep, bits, h, split, lev, Starts(split) \ Starts(once.p)),
                       LAMBDA twice :
                       [p |-> twice.p, code |-> CLEANUP(bits, MASH(bits, once.code, twice.code))])
<1>1. PICK once : once = Refined(rep, bits, h, p, lev, active)
  OBVIOUS
<1>2. PICK val : val = adjacencies(bits, h, once.p)
  OBVIOUS
<1>3. PICK split : split = Regroup(once.p, Starts(once.p), val)
  OBVIOUS
<1>4. doref(rep, bits, h, p, lev, active) = D(once, split)
  BY <1>1, <1>2, <1>3, Zenon DEF doref, With
<1>5. Refines(U, once.p, p) /\ Positional(U, once.p)
  BY <1>1, RefinedRefines DEF Refines
<1>6. Counts(U, val)
  BY <1>2, <1>5, AdjacenciesCount
<1>7. Refines(U, split, once.p) /\ Positional(U, split)
  BY <1>3, <1>5, <1>6, RegroupRefines DEF Refines
<1>8. Refines(U, split, p)
  BY <1>5, <1>7, RefinesOn
<1>9. PICK twice : twice = Refined(rep, bits, h, split, lev, Starts(split) \ Starts(once.p))
  OBVIOUS
<1>10. Refines(U, twice.p, split)
  BY <1>7, <1>9, RefinedRefines
<1>11. D(once, split) \in
         {once, [p |-> twice.p, code |-> CLEANUP(bits, MASH(bits, once.code, twice.code))]}
  BY <1>9, Zenon DEF With
<1> HIDE DEF D
<1>12. D(once, split).p \in {once.p, twice.p}
  BY <1>11
<1>13. Refines(U, twice.p, p)
  BY <1>8, <1>10, RefinesOn
<1> QED
  BY <1>4, <1>5, <1>12, <1>13

-----------------------------------------------------------------------------
(* Automorphisms *)

\* A permutation of the vertices in U.
Permutes(U, s) ==
  /\ \A v \in U : s[v] \in U
  /\ \A u, v \in U : s[u] = s[v] => u = v
  /\ \A w \in U : \E v \in U : s[v] = w

\* Arcs are mapped to arcs.
KeepsArcs(h, U, s) == \A v \in U : \A w \in h[v] : s[w] \in h[s[v]]

ArcsAre(h, U, s) == \A v \in U : h[s[v]] = {s[w] : w \in h[v]}

IsGraph(h, U) == \A v \in U : h[v] \subseteq U

\* There are as many arcs as before, so that a permutation that maps arcs to arcs
\* maps no others to them.
LEMMA ArcsMapped ==
  ASSUME NEW U, IsFiniteSet(U), NEW h, IsGraph(h, U), NEW s, Permutes(U, s), KeepsArcs(h, U, s)
  PROVE  ArcsAre(h, U, s)
<1> DEFINE E == {e \in U \X U : e[2] \in h[e[1]]}
           F == [e \in E |-> <<s[e[1]], s[e[2]]>>]
<1>1. IsFiniteSet(E)
  <2>1. IsFiniteSet(U \X U)
    BY FS_Product
  <2> QED
    BY <2>1, FS_Subset
<1>2. \A e \in E : F[e] \in E
  BY DEF Permutes, KeepsArcs
<1>3. \A d, e \in E : F[d] = F[e] => d = e
  <2> TAKE d, e \in E
  <2>1. PICK a \in U, b \in U : d = <<a, b>>
    OBVIOUS
  <2>2. PICK x \in U, y \in U : e = <<x, y>>
    OBVIOUS
  <2>3. F[d] = <<s[a], s[b]>> /\ F[e] = <<s[x], s[y]>>
    BY <2>1, <2>2
  <2> HIDE DEF F
  <2> QED
    BY <2>1, <2>2, <2>3 DEF Permutes
<1>4. F \in Injection(E, E)
  <2>1. F \in [E -> E]
    <3>1. F = [e \in E |-> F[e]]
      OBVIOUS
    <3> HIDE DEF E, F
    <3> QED
      BY <1>2, <3>1
  <2> HIDE DEF E, F
  <2> QED
    BY <1>3, <2>1 DEF Injection, IsInjective
<1>5. F \in Surjection(E, E)
  <2> HIDE DEF E, F
  <2> QED
    BY <1>1, <1>4, FS_Injection
<1>6. ASSUME NEW v \in U, NEW w \in h[s[v]]
      PROVE  \E x \in h[v] : w = s[x]
  <2>1. s[v] \in U /\ w \in U
    BY DEF Permutes, IsGraph
  <2>2. <<s[v], w>> \in E
    BY <2>1
  <2>3. PICK e \in E : F[e] = <<s[v], w>>
    <3> HIDE DEF E, F
    <3> QED
      BY <1>5, <2>2 DEF Surjection
  <2>4. PICK a \in U, b \in U : e = <<a, b>> /\ b \in h[a]
    OBVIOUS
  <2>5. s[a] = s[v] /\ s[b] = w
    BY <2>3, <2>4
  <2>6. a = v
    BY <2>4, <2>5 DEF Permutes
  <2> QED
    BY <2>4, <2>5, <2>6
<1> QED
  BY <1>6 DEF ArcsAre, KeepsArcs

\* What one leaf is mapped to by the other.
LEMMA MappingIs ==
  ASSUME Numbered,
         NEW p, Positional(V, p), Discrete(p), NEW q, Positional(V, q), Discrete(q),
         NEW s, s = Mapping(LabOf(p), LabOf(q))
  PROVE  /\ Permutes(V, s) /\ s \in [V -> V]
         /\ \A v \in V : q[s[v]] = p[v]
<1>1. PICK from, to : from = LabOf(p) /\ to = LabOf(q)
  OBVIOUS
<1>2. /\ \A i \in V : from[i] \in V /\ p[from[i]] = i
      /\ \A v \in V : p[v] \in V /\ from[p[v]] = v
  BY <1>1, LabIs
<1>3. /\ \A i \in V : to[i] \in V /\ q[to[i]] = i
      /\ \A v \in V : q[v] \in V /\ to[q[v]] = v
  BY <1>1, LabIs
<1>4. s = [v \in V |-> to[CHOOSE i \in V : from[i] = v]]
  BY <1>1 DEF Mapping
<1>5. ASSUME NEW v \in V PROVE (CHOOSE i \in V : from[i] = v) = p[v]
  <2>1. \E i \in V : from[i] = v
    BY <1>2
  <2>2. \A i \in V : from[i] = v => i = p[v]
    BY <1>2
  <2> QED
    BY <2>1, <2>2
<1>6. \A v \in V : s[v] = to[p[v]]
  BY <1>4, <1>5
<1>7. s \in [V -> V]
  BY <1>2, <1>3, <1>4, <1>5
<1>8. \A v \in V : q[s[v]] = p[v] /\ s[v] \in V
  BY <1>2, <1>3, <1>6
<1>9. \A u, v \in V : s[u] = s[v] => u = v
  BY <1>2, <1>8
<1>10. \A w \in V : \E v \in V : s[v] = w
  <2> TAKE w \in V
  <2>1. from[q[w]] \in V /\ s[from[q[w]]] = to[q[w]]
    BY <1>2, <1>3, <1>6
  <2> QED
    BY <1>3, <2>1
<1> QED
  BY <1>7, <1>8, <1>9, <1>10 DEF Permutes

\* The rows of a leaf.
LEMMA RowIs ==
  ASSUME Numbered, IsGraph(g, V), NEW p, Positional(V, p), Discrete(p), NEW v \in V
  PROVE  Row(LabOf(p), p[v]) = {p[w] : w \in g[v]}
<1>1. PICK lab : lab = LabOf(p)
  OBVIOUS
<1>2. /\ \A i \in V : lab[i] \in V /\ p[lab[i]] = i
      /\ \A u \in V : p[u] \in V /\ lab[p[u]] = u
  BY <1>1, LabIs
<1>3. Row(lab, p[v]) = {CHOOSE k \in V : lab[k] = w : w \in g[v]}
  BY <1>2 DEF Row
<1>4. ASSUME NEW w \in g[v] PROVE (CHOOSE k \in V : lab[k] = w) = p[w]
  <2>1. w \in V
    BY DEF IsGraph
  <2>2. \A k \in V : lab[k] = w <=> k = p[w]
    BY <1>2, <2>1
  <2>3. p[w] \in V
    BY <1>2, <2>1
  <2> QED
    BY <2>2, <2>3
<1>5. Row(lab, p[v]) = {p[w] : w \in g[v]}
  <2> DEFINE c(w) == CHOOSE k \in V : lab[k] = w
  <2>1. \A w \in g[v] : c(w) = p[w]
    BY <1>4
  <2>2. Row(lab, p[v]) = {c(w) : w \in g[v]}
    BY <1>3
  <2> HIDE DEF c
  <2> QED
    BY <2>1, <2>2
<1> QED
  BY <1>1, <1>5

\* Leaves with the same rows.
LEMMA SameRowsMapped ==
  ASSUME Numbered, IsGraph(g, V),
         NEW p, Positional(V, p), Discrete(p), NEW q, Positional(V, q), Discrete(q),
         \A i \in V : Row(LabOf(q), i) = Row(LabOf(p), i),
         NEW s, s = Mapping(LabOf(p), LabOf(q))
  PROVE  ArcsAre(g, V, s)
<1>1. Permutes(V, s) /\ \A v \in V : q[s[v]] = p[v] /\ s[v] \in V
  <2>1. Permutes(V, s) /\ \A v \in V : q[s[v]] = p[v]
    BY MappingIs
  <2> QED
    BY <2>1 DEF Permutes
<1>2. \A u, v \in V : q[u] = q[v] => u = v
  <2>1. Numbers(n, V)
    BY DEF Numbered, Numbers
  <2> QED
    BY <2>1, DiscreteIs DEF Separates
<1>3. \A v \in V : p[v] \in V
  BY DEF Positional
<1> SUFFICES ASSUME NEW v \in V PROVE g[s[v]] = {s[w] : w \in g[v]}
  BY DEF ArcsAre
<1>4. {q[w] : w \in g[s[v]]} = {p[w] : w \in g[v]}
  <2>1. Row(LabOf(p), p[v]) = {p[w] : w \in g[v]}
    BY RowIs
  <2>2. Row(LabOf(q), q[s[v]]) = {q[w] : w \in g[s[v]]}
    BY <1>1, RowIs
  <2>3. q[s[v]] = p[v] /\ p[v] \in V
    BY <1>1, <1>3
  <2> QED
    BY <2>1, <2>2, <2>3
<1>5. g[v] \subseteq V /\ g[s[v]] \subseteq V
  BY <1>1 DEF IsGraph
<1>6. ASSUME NEW y \in g[s[v]] PROVE \E w \in g[v] : y = s[w]
  <2>1. PICK w \in g[v] : q[y] = p[w]
    BY <1>4
  <2> QED
    BY <1>1, <1>2, <1>5, <2>1
<1>7. ASSUME NEW w \in g[v] PROVE s[w] \in g[s[v]]
  <2>1. PICK y \in g[s[v]] : q[y] = p[w]
    BY <1>4
  <2>2. y = s[w]
    BY <1>1, <1>2, <1>5, <2>1
  <2> QED
    BY <2>2
<1> QED
  BY <1>6, <1>7

\* What an automorphism is in the contract.
LEMMA AutomorphismIs ==
  ASSUME NEW s, Permutes(V, s), ArcsAre(g, V, s),
         \A v \in V : call.colors[s[v]] = call.colors[v]
  PROVE  Contract!IsAutomorphism(Input, s)
<1>1. DOMAIN Input.g = V /\ Input.g = g /\ Input.colors = call.colors
  BY DEF Input, V, Vertices
<1>2. {s[v] : v \in V} = V
  BY DEF Permutes
<1> QED
  BY <1>1, <1>2 DEF Contract!IsAutomorphism, ArcsAre

-----------------------------------------------------------------------------
(* Renamed graphs *)

IsRenaming(U, s) == DOMAIN s = U /\ {s[v] : v \in U} = U

\* d is c renamed.
RenamedTo(d, c, s) == d = [w \in DOMAIN s |-> c[CHOOSE v \in DOMAIN s : s[v] = w]]

\* Renamed, positions are still positions.
LEMMA RenamedColours ==
  ASSUME NEW m, NEW U, Numbers(m, U), NEW c, Positional(U, c),
         NEW s, IsRenaming(U, s), NEW d, RenamedTo(d, c, s)
  PROVE  Positional(U, d)
<1> USE DEF IsRenaming, RenamedTo
<1> DEFINE t == [v \in U |-> s[v]]
           pre == [w \in U |-> CHOOSE v \in U : s[v] = w]
<1>1. IsFiniteSet(U) /\ c \in [U -> U] /\ U \subseteq Nat
  BY PositionalAt DEF PartitionShape
<1>2. \A v \in U : s[v] \in U /\ t[v] = s[v]
  OBVIOUS
<1>3. \A w \in U : \E v \in U : s[v] = w
  OBVIOUS
<1>4. t \in Injection(U, U)
  <2>1. t \in Surjection(U, U)
    <3>1. t \in [U -> U] /\ \A w \in U : \E v \in U : t[v] = w
      BY <1>2, <1>3
    <3> HIDE DEF t
    <3> QED
      BY <3>1 DEF Surjection
  <2> HIDE DEF t
  <2> QED
    BY <1>1, <2>1, FS_Surjection
<1>5. \A u, v \in U : s[u] = s[v] => u = v
  <2>1. \A u, v \in U : t[u] = t[v] => u = v
    <3> HIDE DEF t
    <3> QED
      BY <1>4 DEF Injection, IsInjective
  <2> QED
    BY <1>2, <2>1
<1>6. \A w \in U : pre[w] \in U /\ s[pre[w]] = w
  BY <1>3
<1>7. \A v \in U : pre[s[v]] = v
  <2> HIDE DEF pre
  <2> QED
    BY <1>2, <1>5, <1>6
<1>8. d \in [U -> U] /\ \A w \in U : d[w] = c[pre[w]]
  <2>1. \A w \in U : d[w] = c[pre[w]]
    OBVIOUS
  <2>2. d = [w \in U |-> d[w]]
    OBVIOUS
  <2> HIDE DEF pre
  <2> QED
    BY <1>1, <1>6, <2>1, <2>2
<1> HIDE DEF pre
<1>9. ASSUME NEW w \in U
      PROVE  d[w] = Cardinality({x \in U : d[x] < d[w]})
  <2> DEFINE A == {u \in U : c[u] < c[pre[w]]}
             B == {x \in U : d[x] < d[w]}
             F == [u \in A |-> t[u]]
  <2>1. d[w] = Cardinality(A)
    BY <1>6, <1>8 DEF Positional
  <2>2. \A u \in A : t[u] \in B
    <3> TAKE u \in A
    <3>1. t[u] \in U /\ pre[t[u]] = u
      BY <1>2, <1>7
    <3>2. d[t[u]] = c[u]
      BY <1>8, <3>1
    <3> QED
      BY <1>8, <3>1, <3>2
  <2>3. F \in [A -> B]
    <3> HIDE DEF A, B, t
    <3> QED
      BY <2>2
  <2>4. \A u, v \in A : F[u] = F[v] => u = v
    BY <1>2, <1>5
  <2>5. \A x \in B : \E u \in A : F[u] = x
    <3> TAKE x \in B
    <3>1. pre[x] \in U /\ s[pre[x]] = x /\ d[x] = c[pre[x]] /\ d[w] = c[pre[w]]
      BY <1>6, <1>8
    <3>2. pre[x] \in A
      BY <3>1
    <3> QED
      BY <3>1, <3>2
  <2>6. IsFiniteSet(A)
    BY <1>1, Smaller
  <2>7. ExistsBijection(A, B)
    <3> HIDE DEF A, B, F
    <3> QED
      BY <2>3, <2>4, <2>5 DEF ExistsBijection, Bijection, Injection, IsInjective, Surjection
  <2> HIDE DEF A, B, F
  <2>8. Cardinality(B) = Cardinality(A)
    BY <2>6, <2>7, FS_Bijection
  <2> QED
    BY <2>1, <2>8 DEF B
<1> QED
  BY <1>8, <1>9 DEF Positional

-----------------------------------------------------------------------------
(* Orbits *)

\* v and map[v], for v = k - 1, brought together.
Merge(orb, map, k) ==
  [v \in V |-> IF orb[v] \in {orb[k - 1], orb[map[k - 1]]}
               THEN Min({orb[k - 1], orb[map[k - 1]]}) ELSE orb[v]]

\* f is the function Joined of orbjoin for the first k vertices.
Joins(f, orb, map, k) ==
  f = [j \in 0 .. k |-> IF j = 0 THEN orb ELSE Merge(f[j - 1], map, j)]

\* orbjoin, vertex by vertex, is a function.
LEMMA JoinsExist ==
  ASSUME NEW orb, NEW map, NEW k \in Nat
  PROVE  \E f : Joins(f, orb, map, k)
<1> DEFINE T == {j \in Nat : ~ \E f : Joins(f, orb, map, j)}
<1> SUFFICES ASSUME T # {} PROVE FALSE
  OBVIOUS
<1>1. PICK m \in T : \A y \in T : m <= y
  BY Least
<1>2. CASE m = 0
  <2> DEFINE f == [j \in 0 .. 0 |-> orb]
  <2>1. f = [j \in 0 .. m |-> IF j = 0 THEN orb ELSE Merge(f[j - 1], map, j)]
    BY <1>2
  <2> QED
    BY <1>1, <2>1, Zenon DEF Joins
<1>3. CASE m # 0
  <2>1. m - 1 \in Nat /\ m - 1 \notin T
    BY <1>1, <1>3
  <2>2. PICK f : f = [j \in 0 .. m - 1 |-> IF j = 0 THEN orb ELSE Merge(f[j - 1], map, j)]
    BY <2>1, Zenon DEF Joins
  <2> DEFINE e == [j \in 0 .. m |-> IF j = m THEN Merge(f[m - 1], map, m) ELSE f[j]]
  <2>3. \A j \in 0 .. m : e[j] = IF j = 0 THEN orb ELSE Merge(e[j - 1], map, j)
    <3> TAKE j \in 0 .. m
    <3>1. CASE j = m
      BY <1>1, <1>3, <3>1
    <3>2. CASE j # m
      <4>1. j \in 0 .. m - 1
        BY <1>1, <3>2
      <4>2. f[j] = IF j = 0 THEN orb ELSE Merge(f[j - 1], map, j)
        BY <2>2, <4>1
      <4> QED
        BY <4>1, <4>2
    <3> QED
      BY <3>1, <3>2
  <2>4. e = [j \in 0 .. m |-> IF j = 0 THEN orb ELSE Merge(e[j - 1], map, j)]
    BY <2>3
  <2> HIDE DEF e
  <2> QED
    BY <1>1, <2>4, Zenon DEF Joins
<1> QED
  BY <1>2, <1>3

\* Two orbits joined are represented by a vertex.
LEMMA MergeTyped ==
  ASSUME Numbered, NEW orb \in [V -> V], NEW map \in [V -> V], NEW k, k - 1 \in V
  PROVE  Merge(orb, map, k) \in [V -> V]
<1>1. orb[k - 1] \in V /\ orb[map[k - 1]] \in V /\ V \subseteq Nat
  BY DEF Numbered
<1>2. Min({orb[k - 1], orb[map[k - 1]]}) \in V
  <2>1. {orb[k - 1], orb[map[k - 1]]} \in SUBSET Nat
    BY <1>1
  <2>2. Min({orb[k - 1], orb[map[k - 1]]}) \in {orb[k - 1], orb[map[k - 1]]}
    BY <2>1, MinIn
  <2> QED
    BY <1>1, <2>2
<1>3. \A v \in V : orb[v] \in V
  OBVIOUS
<1> QED
  BY <1>2, <1>3, Zenon DEF Merge

\* orbjoin is the last of its steps.
LEMMA orbjoinRuns ==
  ASSUME Numbered, NEW orb, NEW map
  PROVE  \E f : Joins(f, orb, map, n) /\ orbjoin(orb, map) = f[n]
<1> DEFINE G(f) == [k \in 0 .. n |->
                      IF k = 0 THEN orb
                      ELSE LET o == f[k - 1]
                               a == o[k - 1]
                               b == o[map[k - 1]]
                           IN  [v \in V |-> IF o[v] \in {a, b} THEN Min({a, b}) ELSE o[v]]]
           f == CHOOSE f : f = G(f)
<1>1. n \in Nat
  BY DEF Numbered
<1>2. \A e : e = G(e) <=> Joins(e, orb, map, n)
  BY Zenon DEF Joins, Merge
<1>3. orbjoin(orb, map) = f[n]
  BY DEF orbjoin
<1>4. Joins(f, orb, map, n)
  <2>1. \E e : e = G(e)
    BY <1>1, <1>2, JoinsExist
  <2> HIDE DEF G
  <2>2. f = G(f)
    BY <2>1, Zenon
  <2> QED
    BY <1>2, <2>2
<1> QED
  BY <1>3, <1>4

\* orbjoin represents every orbit by a vertex.
LEMMA orbjoinTyped ==
  ASSUME Numbered, NEW orb \in [V -> V], NEW map \in [V -> V]
  PROVE  orbjoin(orb, map) \in [V -> V]
<1>1. n \in Nat
  BY DEF Numbered
<1>2. PICK f : Joins(f, orb, map, n) /\ orbjoin(orb, map) = f[n]
  BY orbjoinRuns
<1> DEFINE T == {j \in 0 .. n : f[j] \notin [V -> V]}
<1>3. T = {}
  <2> SUFFICES ASSUME T # {} PROVE FALSE
    OBVIOUS
  <2>1. PICK j \in T : \A y \in T : j <= y
    <3>1. T \in SUBSET Nat
      BY <1>1
    <3> HIDE DEF T
    <3> QED
      BY <3>1, Least
  <2>2. f[j] = IF j = 0 THEN orb ELSE Merge(f[j - 1], map, j)
    <3>1. j \in 0 .. n
      BY <2>1
    <3> QED
      BY <1>2, <3>1, Zenon DEF Joins
  <2>3. CASE j = 0
    BY <2>1, <2>2, <2>3
  <2>4. CASE j # 0
    <3>1. PICK k : k = j - 1
      OBVIOUS
    <3>2. k \in V /\ k \in 0 .. n /\ k + 1 = j /\ ~ j <= k
      BY <1>1, <2>1, <2>4, <3>1 DEF Numbered
    <3>3. f[k] \in [V -> V]
      BY <2>1, <3>2
    <3>4. f[j] = Merge(f[k], map, j) /\ j - 1 \in V
      BY <2>2, <2>4, <3>1, <3>2
    <3>5. f[j] \in [V -> V]
      <4> HIDE DEF T
      <4>1. PICK o \in [V -> V] : o = f[k]
        BY <3>3
      <4>2. Merge(o, map, j) \in [V -> V]
        BY <3>4, MergeTyped
      <4> QED
        BY <3>4, <4>1, <4>2
    <3> QED
      BY <2>1, <3>5
  <2> QED
    BY <2>3, <2>4
<1>4. n \in 0 .. n
  BY <1>1
<1> QED
  BY <1>2, <1>3, <1>4

-----------------------------------------------------------------------------
(* The inductive invariant *)

\* The coloured graph of every call.
Coloured == /\ n # 0 /\ IsGraph(g, V) /\ Positional(V, call.colors) /\ call.bits \in 1 .. 15

\* In the first call it is an input.
FirstColours == earlier = <<>> => \E in \in Inputs : g = in.g /\ call.colors = in.colors

Call == Graphs /\ Coloured /\ FirstColours

\* The inputs are coloured graphs.
LEMMA InputColours ==
  ASSUME NEW in \in Inputs, NEW m, m = Cardinality(DOMAIN in.g), NEW U, U = DOMAIN in.g
  PROVE  /\ m # 0 /\ Numbers(m, U) /\ IsGraph(in.g, U) /\ Positional(U, in.colors)
         /\ \A s \in Renamings[m] : DOMAIN s = U /\ {s[v] : v \in U} = U
<1>1. /\ m \in Nat \ {0} /\ in.g \in [0 .. m - 1 -> SUBSET (0 .. m - 1)]
      /\ in.colors \in [0 .. m - 1 -> 0 .. m - 1]
      /\ \A v \in 0 .. m - 1 :
             in.colors[v] = Cardinality({u \in 0 .. m - 1 : in.colors[u] < in.colors[v]})
      /\ \A s \in Renamings[m] : DOMAIN s = 0 .. m - 1 /\ {s[v] : v \in 0 .. m - 1} = 0 .. m - 1
  BY ConstantsAssumption
<1>2. U = 0 .. m - 1
  BY <1>1
<1> QED
  BY <1>1, <1>2 DEF Numbers, IsGraph, Positional

\* The first call's graph is a coloured one.
LEMMA InitCall == Init => Call
<1> SUFFICES ASSUME Init PROVE Call
  OBVIOUS
<1>1. PICK in \in Inputs, rep \in Reps, bits \in HashBits : call = Args(in, rep, bits)
  BY DEF Init
<1>2. g = in.g /\ call.colors = in.colors /\ call.bits = bits
  BY <1>1 DEF Args, g
<1>3. n = Cardinality(DOMAIN in.g) /\ V = DOMAIN in.g
  BY <1>2 DEF n, V, Vertices
<1>4. n # 0 /\ IsGraph(in.g, V) /\ Positional(V, in.colors)
  BY <1>3, InputColours
<1>5. bits \in 1 .. 15
  BY ConstantsAssumption
<1> QED
  BY <1>2, <1>4, <1>5, InitGraphs DEF Call, Coloured, FirstColours

\* All steps but the next call leave the graph alone.
LEMMA CallStays ==
  ASSUME [Next]_vars, ~ CallAgain
  PROVE  /\ UNCHANGED <<call, earlier>> /\ UNCHANGED g /\ UNCHANGED V /\ UNCHANGED n
<1>1. UNCHANGED <<call, earlier>>
  BY DEF Next, FirstPathNode, firstterminal, othernode, InternalNode, FirstLeafAgain,
         BestLeafAgain, BetterLeaf, BadLeaf, ReturnFurther, NextOfFirst, EndOfFirst,
         NextOfOther, EndOfOther, Finish, Terminated, callVars, vars
<1> QED
  BY <1>1 DEF g, V, Vertices, n

\* A renamed graph is one, and its colours are the renamed ones.
LEMMA CallAgainKeeps ==
  ASSUME Call, CallAgain
  PROVE  /\ UNCHANGED V /\ UNCHANGED n /\ Coloured' /\ FirstColours'
         /\ call'.rep = call.rep
<1>1. PICK in \in Inputs : g = in.g /\ call.colors = in.colors
  BY DEF CallAgain, Call, FirstColours
<1>2. n = Cardinality(DOMAIN in.g) /\ V = DOMAIN in.g
  BY <1>1 DEF n, V, Vertices
<1>3. /\ n # 0 /\ Numbers(n, V) /\ IsGraph(in.g, V) /\ Positional(V, in.colors)
      /\ \A s \in Renamings[n] : DOMAIN s = V /\ {s[v] : v \in V} = V
  BY <1>2, InputColours
<1>4. PICK s \in Renamings[n] :
        call' = Args(Renamed([g |-> g, colors |-> call.colors], s), call.rep, call.bits)
  BY DEF CallAgain
<1>5. DOMAIN s = V /\ {s[v] : v \in V} = V
  BY <1>3, <1>4
<1> DEFINE pre(w) == CHOOSE v \in DOMAIN s : s[v] = w
<1>6. /\ g' = [w \in DOMAIN s |-> {s[u] : u \in g[pre(w)]}]
      /\ call'.colors = [w \in DOMAIN s |-> call.colors[pre(w)]]
      /\ call'.bits = call.bits /\ call'.rep = call.rep
  BY <1>4 DEF Args, Renamed, g
<1>7. V' = V /\ n' = n
  BY <1>5, <1>6 DEF V, Vertices, n
<1>8. Positional(V, call'.colors)
  <2>1. RenamedTo(call'.colors, call.colors, s)
    BY <1>6 DEF RenamedTo
  <2>2. IsRenaming(V, s)
    BY <1>5 DEF IsRenaming
  <2> QED
    BY <1>1, <1>3, <2>1, <2>2, RenamedColours
<1>9. IsGraph(g', V)
  <2> SUFFICES ASSUME NEW w \in V PROVE g'[w] \subseteq V
    BY DEF IsGraph
  <2>1. pre(w) \in V
    BY <1>5
  <2>2. g[pre(w)] \subseteq V
    BY <1>1, <1>3, <2>1 DEF IsGraph
  <2> HIDE DEF pre
  <2> QED
    BY <1>5, <1>6, <2>2
<1>10. earlier' # <<>>
  BY DEF CallAgain
<1> QED
  BY <1>3, <1>6, <1>7, <1>8, <1>9, <1>10 DEF Call, Coloured, FirstColours

\* The graph of the next call is a coloured one.
LEMMA NextKeepsCall == Call /\ [Next]_vars => Call'
<1> SUFFICES ASSUME Call, [Next]_vars PROVE Call'
  OBVIOUS
<1>1. Graphs'
  BY NextKeepsGraphs DEF Call
<1>2. CASE CallAgain
  BY <1>1, <1>2, CallAgainKeeps DEF Call
<1>3. CASE ~ CallAgain
  BY <1>1, <1>3, CallStays DEF Call, Coloured, FirstColours
<1> QED
  BY <1>2, <1>3

-----------------------------------------------------------------------------
(* The nodes of the search tree: their partitions refine the colours, with at least as *)
(* many cells as the level says, and the vertices that are fixed come from cells that  *)
(* have others.                                                                        *)

GoodNode(U, c, k, p) == Refines(U, p, c) /\ NumCells(p) >= k

GoodFrame(U, c, k, f) ==
  /\ GoodNode(U, c, k, f.p)
  /\ f.tc \in Nontrivial(f.p) /\ f.tcell \subseteq CellAt(f.p, f.tc) /\ f.tv \in U

FramesFine == \A i \in DOMAIN stack : GoodFrame(V, call.colors, i, stack[i])

NodeFine ==
  /\ Refines(V, node.p, call.colors)
  /\ mode \in {"first", "other", "classify"} => NumCells(node.p) >= level
  /\ mode = "classify" /\ ~ Discrete(node.p) /\ ~ NothingBetterBelow =>
       node.tc \in Nontrivial(node.p)

\* There are at most as many cells as vertices.
LEMMA CellsCounted ==
  ASSUME NEW m, NEW U, Numbers(m, U), NEW c, NEW p, Refines(U, p, c)
  PROVE  NumCells(p) \in Nat /\ NumCells(p) <= m /\ Positional(U, p)
<1>1. Positional(U, p)
  BY DEF Refines
<1> QED
  BY <1>1, PositionalAt DEF PartitionShape

\* A vertex fixed.
LEMMA ChildFine ==
  ASSUME NEW m, NEW U, Numbers(m, U), NEW c, NEW k \in Int, NEW p, GoodNode(U, c, k, p),
         NEW tc \in Nontrivial(p), NEW tv \in CellAt(p, tc)
  PROVE  /\ GoodNode(U, c, k + 1, Child(p, tc, tv).p)
         /\ k < m /\ tv \in U
<1>1. PICK q : q = breakout(p, tc, tv)
  OBVIOUS
<1>2. Positional(U, p) /\ Refines(U, p, c) /\ NumCells(p) >= k
  BY DEF GoodNode, Refines
<1>3. Refines(U, q, p) /\ NumCells(p) + 1 <= NumCells(q) /\ NumCells(p) < m
  BY <1>1, <1>2, Breakout
<1>4. Refines(U, q, c)
  BY <1>2, <1>3, RefinesOn
<1>5. NumCells(p) \in Nat /\ NumCells(q) \in Nat /\ m \in Nat
  BY <1>2, <1>4, CellsCounted DEF Numbers
<1>6. Child(p, tc, tv).p = q
  BY <1>1 DEF Child
<1>7. tv \in U
  BY <1>2, NontrivialIs
<1> QED
  BY <1>2, <1>3, <1>4, <1>5, <1>6, <1>7 DEF GoodNode

\* The refinement at a node keeps what the level promises.
LEMMA VisitedFine ==
  ASSUME Call, NEW k \in Int, GoodNode(V, call.colors, k, node.p)
  PROVE  GoodNode(V, call.colors, k, Visited.p) /\ Positional(V, Visited.p)
<1>1. Numbers(n, V) /\ DOMAIN g = V /\ call.bits \in 1 .. 15
  BY DEF Call, Graphs, Numbered, Numbers, Coloured, V, Vertices
<1>2. Refines(V, node.p, call.colors) /\ Positional(V, node.p) /\ NumCells(node.p) >= k
  BY DEF GoodNode, Refines
<1>3. Refines(V, Visited.p, node.p)
  BY <1>1, <1>2, dorefRefines DEF Visited
<1>4. Refines(V, Visited.p, call.colors)
  BY <1>2, <1>3, RefinesOn
<1>5. NumCells(node.p) <= NumCells(Visited.p)
  BY <1>1, <1>2, <1>3, StartsStay
<1>6. NumCells(node.p) \in Nat /\ NumCells(Visited.p) \in Nat
  BY <1>1, <1>2, <1>4, CellsCounted
<1> QED
  BY <1>2, <1>4, <1>5, <1>6 DEF GoodNode, Refines

-----------------------------------------------------------------------------
(* A frame more, one less, and another on top *)

\* A frame more.
LEMMA PushFine ==
  ASSUME Path, FramesFine, UNCHANGED call,
         NEW kind \in {"first", "other"}, NEW p, NEW tc, NEW tcell, NEW tv1, NEW tv, NEW index,
         NEW f, f = [kind |-> kind, p |-> p, tc |-> tc, tcell |-> tcell, tv1 |-> tv1, tv |-> tv,
                     index |-> index],
         GoodFrame(V, call.colors, level, f), stack' = Append(stack, f)
  PROVE  FramesFine' /\ level' = level + 1
<1>1. PICK U : stack \in Seq(Frames(U))
  BY DEF Path, LevelTypes
<1>2. /\ DOMAIN stack' = 1 .. Len(stack) + 1
      /\ Len(stack') = Len(stack) + 1 /\ Len(stack) \in Nat
      /\ DOMAIN stack = 1 .. Len(stack)
      /\ \A i \in DOMAIN stack : stack'[i] = stack[i]
      /\ stack'[Len(stack) + 1] = f
  BY <1>1, Push
<1>3. V' = V /\ call' = call
  BY DEF V, Vertices, g
<1>4. ASSUME NEW i \in DOMAIN stack' PROVE GoodFrame(V, call.colors, i, stack'[i])
  <2>1. CASE i \in DOMAIN stack
    BY <1>2, <2>1 DEF FramesFine
  <2>2. CASE i \notin DOMAIN stack
    <3>1. i = Len(stack) + 1
      BY <1>2, <2>2
    <3> QED
      BY <1>2, <3>1 DEF level
  <2> QED
    BY <2>1, <2>2
<1> QED
  BY <1>2, <1>3, <1>4 DEF FramesFine, level

\* A frame less.
LEMMA PopFine ==
  ASSUME Path, FramesFine, UNCHANGED call, stack # <<>>,
         stack' = SubSeq(stack, 1, Len(stack) - 1)
  PROVE  FramesFine'
<1>1. PICK U : stack \in Seq(Frames(U))
  BY DEF Path, LevelTypes
<1>2. PICK k \in Nat : Len(stack) = k + 1 /\ k = Len(stack) - 1
  <2>1. Len(stack) \in Nat \ {0}
    BY <1>1, EmptySeq
  <2>2. Len(stack) - 1 \in Nat /\ Len(stack) = Len(stack) - 1 + 1
    BY <2>1
  <2> QED
    BY <2>2
<1>3. stack' = SubSeq(stack, 1, k)
  BY <1>2
<1>4. DOMAIN stack' = 1 .. k /\ \A i \in 1 .. k : stack'[i] = stack[i]
  BY <1>1, <1>2, <1>3, Pop
<1>5. DOMAIN stack = 1 .. k + 1
  BY <1>1, <1>2, LenProperties
<1>6. V' = V /\ call' = call
  BY DEF V, Vertices, g
<1>7. \A i \in 1 .. k : i \in DOMAIN stack
  BY <1>5
<1> QED
  BY <1>4, <1>6, <1>7 DEF FramesFine

\* Another frame in the place of the top one.
LEMMA TopFine ==
  ASSUME Path, FramesFine, UNCHANGED call, stack # <<>>,
         NEW f, GoodFrame(V, call.colors, Len(stack), f),
         stack' = [stack EXCEPT ![Len(stack)] = f]
  PROVE  FramesFine' /\ level' = level
<1>1. PICK U : stack \in Seq(Frames(U))
  BY DEF Path, LevelTypes
<1>2. V' = V /\ call' = call
  BY DEF V, Vertices, g
<1>3. /\ DOMAIN stack' = DOMAIN stack
      /\ \A i \in DOMAIN stack : stack'[i] = IF i = Len(stack) THEN f ELSE stack[i]
  OBVIOUS
<1>4. Len(stack') = Len(stack)
  <2>1. PICK l \in Nat : l = Len(stack)
    BY <1>1, LenProperties
  <2>2. DOMAIN stack' = 1 .. l
    BY <1>1, <1>3, <2>1, LenProperties
  <2>3. PICK W : W = Frames(U) \cup {f}
    OBVIOUS
  <2>4. stack' \in [1 .. l -> W]
    BY <1>1, <1>3, <2>1, <2>2, <2>3, LenProperties
  <2>5. stack' \in Seq(W)
    BY <2>4, SeqDef
  <2> QED
    BY <2>1, <2>2, <2>5, LenProperties
<1> QED
  BY <1>2, <1>3, <1>4 DEF FramesFine, level

\* A graph with vertices has a cell.
LEMMA SomeCell ==
  ASSUME NEW m, NEW U, Numbers(m, U), m # 0, NEW p, Positional(U, p)
  PROVE  NumCells(p) >= 1
<1>1. m \in Nat /\ 0 \in U
  BY DEF Numbers
<1>2. DOMAIN p = U /\ IsFiniteSet(Starts(p)) /\ NumCells(p) \in Nat
  BY PositionalAt DEF PartitionShape
<1>3. p[0] \in Starts(p)
  BY <1>1, <1>2 DEF Starts
<1>4. NumCells(p) # 0
  BY <1>2, <1>3, FS_EmptySet DEF NumCells
<1> QED
  BY <1>2, <1>4

\* At the root.
LEMMA RootFine ==
  ASSUME NEW m, NEW U, Numbers(m, U), m # 0, NEW c, Positional(U, c)
  PROVE  GoodNode(U, c, 1, c)
BY RefinesSelf, SomeCell DEF GoodNode

\* The root of the first search.
LEMMA InitNodes == Init => NodeFine /\ FramesFine
<1> SUFFICES ASSUME Init PROVE NodeFine /\ FramesFine
  OBVIOUS
<1>1. Numbers(n, V) /\ n # 0 /\ Positional(V, call.colors)
  BY InitCall DEF Call, Graphs, Numbered, Numbers, Coloured
<1>2. node.p = call.colors /\ mode = "first" /\ stack = <<>>
  BY DEF Init, Begin
<1>3. level = 1 /\ DOMAIN stack = {}
  BY <1>2, EmptySeq DEF level
<1>4. GoodNode(V, call.colors, 1, call.colors)
  BY <1>1, RootFine
<1> QED
  BY <1>2, <1>3, <1>4 DEF NodeFine, FramesFine, GoodNode

\* The root of the second search.
LEMMA CallAgainFine ==
  ASSUME Call, Path, CallAgain
  PROVE  NodeFine' /\ FramesFine'
<1>1. V' = V /\ n' = n /\ Coloured'
  BY CallAgainKeeps
<1>2. Numbers(n, V) /\ n # 0 /\ Positional(V, call'.colors)
  BY <1>1 DEF Call, Graphs, Numbered, Numbers, Coloured
<1>3. stack' = <<>> /\ mode' = "first" /\ node'.p = call'.colors
  BY DEF CallAgain, Path, EmptyAtEnd, Begin
<1>4. level' = 1 /\ DOMAIN stack' = {}
  BY <1>3, EmptySeq DEF level
<1>5. GoodNode(V, call'.colors, 1, call'.colors)
  BY <1>2, RootFine
<1> QED
  BY <1>1, <1>3, <1>4, <1>5 DEF NodeFine, FramesFine, GoodNode

\* The node at hand, and the cell that the next vertex is fixed in.
LEMMA NodeNumbers ==
  ASSUME Call, Path, NodeFine
  PROVE  /\ Numbers(n, V) /\ n \in Nat /\ level \in Nat /\ level >= 1 /\ Len(stack) \in Nat
         /\ mode \in {"first", "other", "classify"} => GoodNode(V, call.colors, level, node.p)
         /\ Positional(V, node.p)
<1>1. PICK U : stack \in Seq(Frames(U))
  BY DEF Path, LevelTypes
<1>2. Len(stack) \in Nat /\ level \in Nat /\ level >= 1
  BY <1>1, LenProperties DEF level
<1>3. Numbers(n, V) /\ n \in Nat
  BY DEF Call, Graphs, Numbered, Numbers
<1>4. Refines(V, node.p, call.colors)
  BY DEF NodeFine
<1> QED
  BY <1>2, <1>3, <1>4 DEF GoodNode, NodeFine, Refines

\* The vertex fixed first is in its cell.
LEMMA CellMin ==
  ASSUME NEW m, NEW U, Numbers(m, U), NEW T, T \subseteq U, T # {}
  PROVE  Min(T) \in T
<1>1. T \in SUBSET Nat
  BY DEF Numbers
<1> QED
  BY <1>1, MinIn

\* A node of the leftmost path.
LEMMA FirstPathNodeFine ==
  ASSUME Call, Path, NodeFine, FramesFine, FirstPathNode
  PROVE  NodeFine' /\ FramesFine'
<1>1. PICK r : r = Visited
  OBVIOUS
<1>2. PICK tc : tc = targetcell(r.p, -1)
  OBVIOUS
<1>3. PICK tv : tv = Min(CellAt(r.p, tc))
  OBVIOUS
<1>4. /\ mode = "first" /\ mode' = "first" /\ ~ Discrete(r.p)
      /\ stack' = Append(stack, Frame("first", r.p, tc, tv))
      /\ node' = Child(r.p, tc, tv) /\ UNCHANGED call
  BY <1>1, <1>2, <1>3 DEF FirstPathNode, callVars
<1>5. /\ Numbers(n, V) /\ level \in Int /\ GoodNode(V, call.colors, level, node.p)
  BY <1>4, NodeNumbers
<1>6. GoodNode(V, call.colors, level, r.p) /\ Positional(V, r.p)
  BY <1>1, <1>5, VisitedFine
<1>7. tc \in Nontrivial(r.p)
  BY <1>2, <1>4, <1>5, <1>6, TargetCell
<1>8. tv \in CellAt(r.p, tc)
  <2>1. CellAt(r.p, tc) # {} /\ CellAt(r.p, tc) \subseteq V
    BY <1>5, <1>6, <1>7, NontrivialIs
  <2> QED
    BY <1>3, <1>5, <2>1, CellMin
<1>9. GoodNode(V, call.colors, level + 1, node'.p) /\ tv \in V
  BY <1>4, <1>5, <1>6, <1>7, <1>8, ChildFine
<1>10. PICK f : f = Frame("first", r.p, tc, tv)
  OBVIOUS
<1>11. f = [kind |-> "first", p |-> r.p, tc |-> tc, tcell |-> CellAt(r.p, tc), tv1 |-> tv,
            tv |-> tv, index |-> 0]
  BY <1>10 DEF Frame
<1>12. GoodFrame(V, call.colors, level, f)
  BY <1>6, <1>7, <1>9, <1>11 DEF GoodFrame
<1>13. FramesFine' /\ level' = level + 1
  BY <1>4, <1>10, <1>11, <1>12, PushFine
<1>14. V' = V /\ call' = call
  BY <1>4 DEF V, Vertices, g
<1> QED
  BY <1>4, <1>9, <1>13, <1>14 DEF NodeFine, GoodNode

\* A node off the leftmost path: it has a target cell if it will be used.
LEMMA othernodeFine ==
  ASSUME Call, Path, NodeFine, FramesFine, comp_canon \in Int, othernode
  PROVE  NodeFine' /\ FramesFine'
<1>1. PICK r : r = Visited
  OBVIOUS
<1> DEFINE ef == IF eqlev_first = level - 1 /\ r.code = firstcode[level]
                 THEN level ELSE eqlev_first
           compare == eqlev_canon = level - 1
           cc == IF ~compare THEN comp_canon
                 ELSE IF r.code < canoncode[level] THEN -1
                 ELSE IF r.code > canoncode[level] THEN 1 ELSE 0
           children == ~Discrete(r.p) /\ (ef = level \/ cc >= 0)
           tc == IF ~children THEN -1
                 ELSE targetcell(r.p, IF cc < 0 THEN firsttc[level] ELSE -1)
<1>2. /\ node' = [p |-> r.p, tc |-> tc]
      /\ eqlev_first' = (IF children /\ cc < 0 /\ tc # firsttc[level] THEN level - 1 ELSE ef)
      /\ comp_canon' = cc
  BY <1>1 DEF othernode
<1>3. /\ mode = "other" /\ mode' = "classify" /\ UNCHANGED <<call, stack>>
  BY DEF othernode, callVars
<1>4. /\ Numbers(n, V) /\ level \in Int /\ GoodNode(V, call.colors, level, node.p)
  BY <1>3, NodeNumbers
<1>5. GoodNode(V, call.colors, level, r.p) /\ Positional(V, r.p)
  BY <1>1, <1>4, VisitedFine
<1>6. V' = V /\ call' = call /\ level' = level
  BY <1>3 DEF V, Vertices, g, level
<1>7. cc \in Int
  OBVIOUS
<1>8. children => tc \in Nontrivial(r.p)
  <2>1. ASSUME NEW h, ~ Discrete(r.p) PROVE targetcell(r.p, h) \in Nontrivial(r.p)
    BY <1>4, <1>5, <2>1, TargetCell
  <2> QED
    BY <2>1
<1>9. ~ Discrete(r.p) /\ ~ (eqlev_first' # level /\ comp_canon' < 0) => children
  <2> HIDE DEF cc, tc
  <2>1. ASSUME ~ Discrete(r.p), eqlev_first' = level PROVE ef = level
    BY <1>2, <1>4, <2>1
  <2> HIDE DEF ef
  <2> QED
    BY <1>2, <1>7, <2>1
<1>10. node'.p = r.p /\ node'.tc = tc
  <2> HIDE DEF tc
  <2> QED
    BY <1>2
<1> HIDE DEF tc, children, ef, cc
<1>11. FramesFine'
  BY <1>3, <1>6 DEF FramesFine
<1>12. NodeFine'
  BY <1>3, <1>5, <1>6, <1>8, <1>9, <1>10 DEF NodeFine, GoodNode, NothingBetterBelow
<1> QED
  BY <1>11, <1>12

\* On to the first child.
LEMMA InternalNodeFine ==
  ASSUME Call, Path, NodeFine, FramesFine, InternalNode
  PROVE  NodeFine' /\ FramesFine'
<1>1. PICK tcell : tcell = IF needshortprune THEN CellAt(node.p, node.tc) \cap LastMcr
                           ELSE CellAt(node.p, node.tc)
  OBVIOUS
<1>2. PICK tv : tv = Min(tcell)
  OBVIOUS
<1>3. /\ mode = "classify" /\ ~ NothingBetterBelow /\ ~ IsLeaf /\ UNCHANGED call
      /\ IF tcell = {} THEN Return(level - 1) /\ UNCHANGED <<stack, node>>
         ELSE /\ stack' = Append(stack, [Frame("other", node.p, node.tc, tv) EXCEPT !.tcell = tcell])
              /\ node' = Child(node.p, node.tc, tv)
              /\ mode' = "other"
  BY <1>1, <1>2 DEF InternalNode, callVars
<1>4. V' = V /\ call' = call
  BY <1>3 DEF V, Vertices, g
<1>5. CASE tcell = {}
  <2>1. mode' = "back" /\ UNCHANGED <<stack, node>>
    BY <1>3, <1>5 DEF Return
  <2> QED
    BY <1>4, <2>1 DEF NodeFine, FramesFine
<1>6. CASE tcell # {}
  <2>1. /\ Numbers(n, V) /\ level \in Int /\ GoodNode(V, call.colors, level, node.p)
        /\ Positional(V, node.p)
    BY <1>3, NodeNumbers
  <2>2. node.tc \in Nontrivial(node.p)
    BY <1>3 DEF NodeFine, IsLeaf
  <2>3. tcell \subseteq CellAt(node.p, node.tc)
    BY <1>1
  <2>4. tv \in CellAt(node.p, node.tc)
    <3>1. tcell \subseteq V
      BY <2>1, <2>2, <2>3, NontrivialIs
    <3> QED
      BY <1>2, <1>6, <2>1, <2>3, <3>1, CellMin
  <2>5. GoodNode(V, call.colors, level + 1, node'.p) /\ tv \in V
    BY <1>3, <1>6, <2>1, <2>2, <2>4, ChildFine
  <2>6. PICK f : f = [Frame("other", node.p, node.tc, tv) EXCEPT !.tcell = tcell]
    OBVIOUS
  <2>7. f = [kind |-> "other", p |-> node.p, tc |-> node.tc, tcell |-> tcell, tv1 |-> tv,
             tv |-> tv, index |-> 0]
    BY <2>6 DEF Frame
  <2>8. GoodFrame(V, call.colors, level, f)
    BY <2>1, <2>2, <2>3, <2>5, <2>7 DEF GoodFrame
  <2>9. stack' = Append(stack, f) /\ mode' = "other" /\ UNCHANGED call
    BY <1>3, <1>6, <2>6
  <2>10. FramesFine' /\ level' = level + 1
    BY <2>7, <2>8, <2>9, PushFine
  <2> QED
    BY <1>4, <2>5, <2>9, <2>10 DEF NodeFine, GoodNode
<1> QED
  BY <1>5, <1>6

\* The frame on top, and the next of its children.
LEMMA NextChildFine ==
  ASSUME Call, Path, FramesFine, stack # <<>>, UNCHANGED call,
         NEW T, T \subseteq top.tcell, NEW tv \in T, NEW W, W \subseteq top.tcell,
         NEW f, f.p = top.p, f.tc = top.tc, f.tcell = W, f.tv = tv,
         stack' = [stack EXCEPT ![Len(stack)] = f],
         node' = Child(top.p, top.tc, tv), mode' = "other"
  PROVE  NodeFine' /\ FramesFine'
<1>1. PICK U : stack \in Seq(Frames(U))
  BY DEF Path, LevelTypes
<1>2. Len(stack) \in Nat \ {0} /\ Len(stack) \in DOMAIN stack
  BY <1>1, EmptySeq, LenProperties
<1>3. Numbers(n, V)
  BY DEF Call, Graphs, Numbered, Numbers
<1>4. GoodFrame(V, call.colors, Len(stack), top)
  BY <1>2 DEF FramesFine, top
<1>5. tv \in CellAt(top.p, top.tc)
  BY <1>4 DEF GoodFrame
<1>6. GoodNode(V, call.colors, Len(stack), top.p) /\ top.tc \in Nontrivial(top.p)
  BY <1>4 DEF GoodFrame
<1>7. GoodNode(V, call.colors, Len(stack) + 1, node'.p) /\ tv \in V
  BY <1>2, <1>3, <1>5, <1>6, ChildFine
<1>8. GoodFrame(V, call.colors, Len(stack), f)
  BY <1>4, <1>7 DEF GoodFrame
<1>9. FramesFine' /\ level' = level
  BY <1>8, TopFine
<1>10. V' = V /\ call' = call
  BY DEF V, Vertices, g
<1> QED
  BY <1>7, <1>9, <1>10 DEF NodeFine, GoodNode, level

\* The vertices left in the target cell come from it.
LEMMA PrunedIn ==
  ShortPruned \subseteq top.tcell /\ OtherPruned \subseteq top.tcell
BY DEF ShortPruned, OtherPruned, longprune

\* The frame on top is a record of which some fields are replaced.
LEMMA TopRecord ==
  ASSUME Path, stack # <<>>
  PROVE  \E U : top \in Frames(U)
<1>1. PICK U : stack \in Seq(Frames(U))
  BY DEF Path, LevelTypes
<1>2. Len(stack) \in Nat \ {0} /\ stack \in [1 .. Len(stack) -> Frames(U)]
  BY <1>1, EmptySeq, LenProperties
<1> QED
  BY <1>2 DEF top

\* On to another child, on the leftmost path.
LEMMA NextOfFirstFine ==
  ASSUME Call, Path, FramesFine, NextOfFirst
  PROVE  NodeFine' /\ FramesFine'
<1>1. PICK tv, f : /\ tv = Min(FirstLeft)
                   /\ f = [top EXCEPT !.tcell = ShortPruned, !.tv = tv, !.index = IndexUpTo(tv)]
  OBVIOUS
<1>2. /\ stack # <<>> /\ UNCHANGED call /\ FirstLeft # {}
      /\ stack' = [stack EXCEPT ![Len(stack)] = f]
      /\ node' = Child(top.p, top.tc, tv) /\ mode' = "other"
  BY <1>1 DEF NextOfFirst, Back, callVars, top
<1>3. PICK U, r : r = top /\ r \in Frames(U)
  BY <1>2, TopRecord
<1>4. f.p = top.p /\ f.tc = top.tc /\ f.tcell = ShortPruned /\ f.tv = tv
  <2>1. PICK x, y : x = ShortPruned /\ y = IndexUpTo(tv)
    OBVIOUS
  <2>2. f = [r EXCEPT !.tcell = x, !.tv = tv, !.index = y]
    BY <1>1, <1>3, <2>1
  <2>3. f.p = r.p /\ f.tc = r.tc /\ f.tcell = x /\ f.tv = tv
    BY <1>3, <2>2 DEF Frames
  <2> QED
    BY <1>3, <2>1, <2>3
<1>5. FirstLeft \subseteq top.tcell
  BY PrunedIn DEF FirstLeft
<1>6. tv \in FirstLeft
  <2>1. Numbers(n, V)
    BY DEF Call, Graphs, Numbered, Numbers
  <2>2. top.tcell \subseteq V
    <3>1. PICK X : stack \in Seq(Frames(X))
      BY DEF Path, LevelTypes
    <3>2. Len(stack) \in DOMAIN stack
      BY <1>2, <3>1, EmptySeq, LenProperties
    <3>3. GoodFrame(V, call.colors, Len(stack), top)
      BY <3>2 DEF FramesFine, top
    <3>4. Positional(V, top.p) /\ top.tc \in Nontrivial(top.p) /\ top.tcell \subseteq CellAt(top.p, top.tc)
      BY <3>3 DEF GoodFrame, GoodNode, Refines
    <3> QED
      BY <2>1, <3>4, NontrivialIs
  <2> QED
    BY <1>1, <1>2, <1>5, <2>1, <2>2, CellMin
<1> QED
  BY <1>2, <1>4, <1>5, <1>6, PrunedIn, NextChildFine

\* On to another child, off the leftmost path.
LEMMA NextOfOtherFine ==
  ASSUME Call, Path, FramesFine, NextOfOther
  PROVE  NodeFine' /\ FramesFine'
<1>1. PICK tv, f : /\ tv = Min(OtherLeft)
                   /\ f = [top EXCEPT !.tcell = OtherPruned, !.tv = tv]
  OBVIOUS
<1>2. /\ stack # <<>> /\ UNCHANGED call /\ OtherLeft # {}
      /\ stack' = [stack EXCEPT ![Len(stack)] = f]
      /\ node' = Child(top.p, top.tc, tv) /\ mode' = "other"
  BY <1>1 DEF NextOfOther, Back, callVars, top
<1>3. PICK U, r : r = top /\ r \in Frames(U)
  BY <1>2, TopRecord
<1>4. f.p = top.p /\ f.tc = top.tc /\ f.tcell = OtherPruned /\ f.tv = tv
  <2>1. PICK x : x = OtherPruned
    OBVIOUS
  <2>2. f = [r EXCEPT !.tcell = x, !.tv = tv]
    BY <1>1, <1>3, <2>1
  <2>3. f.p = r.p /\ f.tc = r.tc /\ f.tcell = x /\ f.tv = tv
    BY <1>3, <2>2 DEF Frames
  <2> QED
    BY <1>3, <2>1, <2>3
<1>5. OtherLeft \subseteq top.tcell
  BY PrunedIn DEF OtherLeft
<1>6. tv \in OtherLeft
  <2>1. Numbers(n, V)
    BY DEF Call, Graphs, Numbered, Numbers
  <2>2. top.tcell \subseteq V
    <3>1. PICK X : stack \in Seq(Frames(X))
      BY DEF Path, LevelTypes
    <3>2. Len(stack) \in DOMAIN stack
      BY <1>2, <3>1, EmptySeq, LenProperties
    <3>3. GoodFrame(V, call.colors, Len(stack), top)
      BY <3>2 DEF FramesFine, top
    <3>4. Positional(V, top.p) /\ top.tc \in Nontrivial(top.p) /\ top.tcell \subseteq CellAt(top.p, top.tc)
      BY <3>3 DEF GoodFrame, GoodNode, Refines
    <3> QED
      BY <2>1, <3>4, NontrivialIs
  <2> QED
    BY <1>1, <1>2, <1>5, <2>1, <2>2, CellMin
<1> QED
  BY <1>2, <1>4, <1>5, <1>6, PrunedIn, NextChildFine

\* Every node that is visited refines the colours and has as many cells as its level says.
LEMMA NextKeepsNodes ==
  Call /\ Path /\ NodeFine /\ FramesFine /\ comp_canon \in Int /\ [Next]_vars
    => NodeFine' /\ FramesFine'
<1> SUFFICES ASSUME Call, Path, NodeFine, FramesFine, comp_canon \in Int, [Next]_vars
             PROVE  NodeFine' /\ FramesFine'
  OBVIOUS
<1>1. CASE CallAgain
  BY <1>1, CallAgainFine
<1>2. ASSUME UNCHANGED <<call, node, stack>>,
             UNCHANGED vars \/ mode' \in {"back", "done"}
      PROVE  NodeFine' /\ FramesFine'
  BY <1>2 DEF NodeFine, FramesFine, V, Vertices, g, level, vars, NothingBetterBelow, levelVars
<1>3. ASSUME UNCHANGED <<call, node>>, mode' = "back", stack # <<>>,
             stack' = SubSeq(stack, 1, Len(stack) - 1)
      PROVE  NodeFine' /\ FramesFine'
  <2>1. FramesFine'
    BY <1>3, PopFine
  <2> QED
    BY <1>3, <2>1 DEF NodeFine, V, Vertices, g
<1>4. CASE firstterminal
  BY <1>2, <1>4 DEF firstterminal, callVars
<1>5. CASE FirstLeafAgain \/ BestLeafAgain
  BY <1>2, <1>5 DEF FirstLeafAgain, BestLeafAgain, callVars, Return
<1>6. CASE BetterLeaf \/ BadLeaf
  BY <1>2, <1>6 DEF BetterLeaf, BadLeaf, LeaveLeaf, callVars, Return
<1>7. CASE ReturnFurther \/ EndOfFirst \/ EndOfOther
  BY <1>3, <1>7 DEF ReturnFurther, EndOfFirst, EndOfOther, Back, callVars, Return
<1>8. CASE Finish \/ UNCHANGED vars
  BY <1>2, <1>8 DEF Finish, callVars, vars
<1> QED
  BY <1>1, <1>4, <1>5, <1>6, <1>7, <1>8, FirstPathNodeFine, othernodeFine, InternalNodeFine,
     NextOfFirstFine, NextOfOtherFine DEF Next, Terminated

-----------------------------------------------------------------------------
(* The leftmost path.  Its nodes on the stack, down to the one that is gca_first, are at   *)
(* their first child but for that one, and the rest of the stack is off the leftmost path. *)

AllFirst(st) == \A i \in DOMAIN st : st[i].kind = "first" /\ st[i].tv = st[i].tv1

FirstUpTo(st, f) ==
  \A i \in DOMAIN st :
    IF i <= f THEN st[i].kind = "first" /\ (i < f => st[i].tv = st[i].tv1)
    ELSE st[i].kind = "other"

Between(st, f) == f \in DOMAIN st /\ FirstUpTo(st, f)

Leftmost ==
  /\ mode = "first" => AllFirst(stack)
  /\ mode \in {"other", "classify"} => Between(stack, gca_first)
  /\ mode = "back" => Between(stack, gca_first) \/ AllFirst(stack)

\* What remains of the stack without the top frame.
LEMMA Popped ==
  ASSUME Path, stack # <<>>
  PROVE  \E k \in Nat :
           /\ Len(stack) = k + 1 /\ DOMAIN stack = 1 .. k + 1
           /\ \A i \in 1 .. k + 1 : stack[i].kind \in {"first", "other"}
           /\ stack' = SubSeq(stack, 1, Len(stack) - 1) =>
                DOMAIN stack' = 1 .. k /\ \A i \in 1 .. k : stack'[i] = stack[i]
<1>1. PICK U : stack \in Seq(Frames(U))
  BY DEF Path, LevelTypes
<1>2. PICK k \in Nat : Len(stack) = k + 1 /\ k = Len(stack) - 1
  <2>1. Len(stack) \in Nat \ {0}
    BY <1>1, EmptySeq
  <2>2. Len(stack) - 1 \in Nat /\ Len(stack) = Len(stack) - 1 + 1
    BY <2>1
  <2> QED
    BY <2>2
<1>3. stack' = SubSeq(stack, 1, Len(stack) - 1) =>
        DOMAIN stack' = 1 .. k /\ \A i \in 1 .. k : stack'[i] = stack[i]
  BY <1>1, <1>2, Pop
<1>4. DOMAIN stack = 1 .. k + 1 /\ stack \in [1 .. k + 1 -> Frames(U)]
  BY <1>1, <1>2, LenProperties
<1>5. \A i \in 1 .. k + 1 : stack[i].kind \in {"first", "other"}
  BY <1>4 DEF Frames
<1> QED
  BY <1>2, <1>3, <1>4, <1>5

\* A frame more: on the leftmost path at its first child, or off it.
LEMMA PushLeftmost ==
  ASSUME Path, Leftmost, FirstPathNode \/ InternalNode, ~ UNCHANGED stack
  PROVE  Leftmost'
<1>1. PICK U : stack \in Seq(Frames(U))
  BY DEF Path, LevelTypes
<1>2. CASE FirstPathNode
  <2>1. PICK p, tc, tv : stack' = Append(stack, Frame("first", p, tc, tv))
    BY <1>2 DEF FirstPathNode
  <2>2. PICK f : f = Frame("first", p, tc, tv)
    OBVIOUS
  <2>3. f = [kind |-> "first", p |-> p, tc |-> tc, tcell |-> CellAt(p, tc), tv1 |-> tv,
             tv |-> tv, index |-> 0]
    BY <2>2 DEF Frame
  <2>4. /\ DOMAIN stack' = 1 .. Len(stack) + 1 /\ Len(stack) \in Nat
        /\ DOMAIN stack = 1 .. Len(stack)
        /\ \A i \in DOMAIN stack : stack'[i] = stack[i]
        /\ stack'[Len(stack) + 1] = f
    BY <1>1, <2>1, <2>2, <2>3, Push
  <2>5. f.kind = "first" /\ f.tv = f.tv1
    BY <2>3
  <2>6. AllFirst(stack) /\ mode' = "first"
    BY <1>2 DEF FirstPathNode, Leftmost
  <2>7. \A i \in DOMAIN stack' : i \in DOMAIN stack \/ i = Len(stack) + 1
    BY <2>4
  <2>8. AllFirst(stack')
    BY <2>4, <2>5, <2>6, <2>7 DEF AllFirst
  <2> QED
    BY <2>6, <2>8 DEF Leftmost
<1>3. CASE InternalNode
  <2>1. PICK tcell, tv : stack' = Append(stack, [Frame("other", node.p, node.tc, tv)
                                                   EXCEPT !.tcell = tcell])
    BY <1>3 DEF InternalNode
  <2>2. PICK f : f = [Frame("other", node.p, node.tc, tv) EXCEPT !.tcell = tcell]
    OBVIOUS
  <2>3. f = [kind |-> "other", p |-> node.p, tc |-> node.tc, tcell |-> tcell, tv1 |-> tv,
             tv |-> tv, index |-> 0]
    BY <2>2 DEF Frame
  <2>4. /\ DOMAIN stack' = 1 .. Len(stack) + 1 /\ Len(stack) \in Nat
        /\ DOMAIN stack = 1 .. Len(stack)
        /\ \A i \in DOMAIN stack : stack'[i] = stack[i]
        /\ stack'[Len(stack) + 1] = f
    BY <1>1, <2>1, <2>2, <2>3, Push
  <2>5. f.kind = "other"
    BY <2>3
  <2>6. Between(stack, gca_first) /\ mode' = "other" /\ UNCHANGED gca_first
    BY <1>3 DEF InternalNode, Leftmost
  <2>7. \A i \in DOMAIN stack' : i \in DOMAIN stack \/ (i = Len(stack) + 1 /\ ~ i <= gca_first)
    BY <2>4, <2>6 DEF Between
  <2>8. gca_first \in DOMAIN stack' /\ FirstUpTo(stack', gca_first)
    BY <2>4, <2>5, <2>6, <2>7 DEF Between, FirstUpTo
  <2> QED
    BY <2>6, <2>8 DEF Leftmost, Between
<1> QED
  BY <1>2, <1>3

\* Steps back: only a node of the leftmost path that all is said about is taken off.
LEMMA BackLeftmost ==
  ASSUME Path, Leftmost, rtnlevel \in Int,
         ReturnFurther \/ NextOfFirst \/ EndOfFirst \/ NextOfOther \/ EndOfOther
  PROVE  Leftmost'
<1>1. stack # <<>> /\ mode = "back"
  BY DEF ReturnFurther, NextOfFirst, EndOfFirst, NextOfOther, EndOfOther, Back
<1>2. PICK k \in Nat :
        /\ Len(stack) = k + 1 /\ DOMAIN stack = 1 .. k + 1
        /\ \A i \in 1 .. k + 1 : stack[i].kind \in {"first", "other"}
        /\ stack' = SubSeq(stack, 1, Len(stack) - 1) =>
             DOMAIN stack' = 1 .. k /\ \A i \in 1 .. k : stack'[i] = stack[i]
  BY <1>1, Popped
<1>3. Between(stack, gca_first) \/ AllFirst(stack)
  BY <1>1 DEF Leftmost
<1>4. top = stack[k + 1] /\ k + 1 \in DOMAIN stack
  BY <1>2 DEF top
\* A node of the leftmost path on top is gca_first, or all nodes are at their first child.
<1>5. ASSUME top.kind = "first"
      PROVE  /\ \A i \in 1 .. k : stack[i].kind = "first" /\ stack[i].tv = stack[i].tv1
             /\ gca_first = k + 1 \/ top.tv = top.tv1
  <2>1. CASE Between(stack, gca_first)
    <3>1. gca_first \in 1 .. k + 1 /\ FirstUpTo(stack, gca_first)
      BY <1>2, <2>1 DEF Between
    <3>2. k + 1 <= gca_first
      BY <1>4, <1>5, <3>1 DEF FirstUpTo
    <3>3. gca_first = k + 1
      BY <3>1, <3>2
    <3>4. \A i \in 1 .. k : i \in DOMAIN stack /\ i <= gca_first /\ i < gca_first
      BY <1>2, <3>3
    <3> QED
      BY <3>1, <3>3, <3>4 DEF FirstUpTo
  <2>2. CASE AllFirst(stack)
    <3>1. \A i \in 1 .. k : i \in DOMAIN stack
      BY <1>2
    <3> QED
      BY <1>4, <2>2, <3>1 DEF AllFirst
  <2> QED
    BY <1>3, <2>1, <2>2
<1>6. ASSUME top.kind = "other"
      PROVE  gca_first \in 1 .. k /\ FirstUpTo(stack, gca_first)
  <2>1. ~ AllFirst(stack)
    BY <1>4, <1>6 DEF AllFirst
  <2>2. gca_first \in 1 .. k + 1 /\ FirstUpTo(stack, gca_first)
    BY <1>2, <1>3, <2>1 DEF Between
  <2>3. ~ k + 1 <= gca_first
    BY <1>4, <1>6, <2>2 DEF FirstUpTo
  <2> QED
    BY <2>2, <2>3
<1>7. ASSUME stack' = SubSeq(stack, 1, Len(stack) - 1), mode' = "back",
             top.kind = "other", UNCHANGED gca_first
      PROVE  Leftmost'
  <2>1. DOMAIN stack' = 1 .. k /\ \A i \in 1 .. k : stack'[i] = stack[i] /\ i \in DOMAIN stack
    BY <1>2, <1>7
  <2>2. Between(stack', gca_first)
    BY <1>6, <1>7, <2>1 DEF Between, FirstUpTo
  <2> QED
    BY <1>7, <2>2 DEF Leftmost
<1>8. CASE ReturnFurther
  <2>1. top.kind = "other"
    <3>1. ASSUME top.kind = "first" PROVE FALSE
      <4>1. k + 1 <= rtnlevel
        BY <1>1, <1>4, <3>1 DEF Path, NeverPastFirstPath
      <4>2. rtnlevel < k + 1
        BY <1>2, <1>8 DEF ReturnFurther
      <4> QED
        BY <4>1, <4>2
    <3>2. top.kind \in {"first", "other"}
      BY <1>2, <1>4
    <3> QED
      BY <3>1, <3>2
  <2>2. UNCHANGED gca_first /\ mode' = "back" /\ stack' = SubSeq(stack, 1, Len(stack) - 1)
    BY <1>1, <1>8 DEF ReturnFurther, levelVars
  <2> QED
    BY <1>7, <2>1, <2>2
<1>9. CASE EndOfOther
  BY <1>7, <1>9 DEF EndOfOther, Back, Return
<1>10. CASE EndOfFirst
  <2>1. top.kind = "first" /\ mode' = "back" /\ stack' = SubSeq(stack, 1, Len(stack) - 1)
    BY <1>10 DEF EndOfFirst, Back, Return
  <2>2. DOMAIN stack' = 1 .. k /\ \A i \in 1 .. k : stack'[i] = stack[i]
    BY <1>2, <2>1
  <2>3. AllFirst(stack')
    BY <1>5, <2>1, <2>2 DEF AllFirst
  <2> QED
    BY <2>1, <2>3 DEF Leftmost
<1>11. ASSUME NEW f, f.kind = top.kind, stack' = [stack EXCEPT ![Len(stack)] = f]
       PROVE  /\ DOMAIN stack' = 1 .. k + 1 /\ stack'[k + 1].kind = top.kind
              /\ \A i \in 1 .. k : stack'[i] = stack[i]
              /\ \A i \in 1 .. k + 1 : i \in 1 .. k \/ i = k + 1
              /\ \A i \in 1 .. k : i \in DOMAIN stack
  <2>1. stack' = [stack EXCEPT ![k + 1] = f]
    BY <1>2, <1>11
  <2>2. DOMAIN stack' = 1 .. k + 1 /\ stack'[k + 1] = f
    BY <1>2, <2>1
  <2>3. \A i \in 1 .. k : stack'[i] = stack[i] /\ i \in DOMAIN stack
    BY <1>2, <2>1
  <2>4. \A i \in 1 .. k + 1 : i \in 1 .. k \/ i = k + 1
    OBVIOUS
  <2> QED
    BY <1>11, <2>2, <2>3, <2>4
<1>12. CASE NextOfFirst
  <2>1. PICK tv, x, y, f : /\ f = [top EXCEPT !.tcell = x, !.tv = tv, !.index = y]
                           /\ stack' = [stack EXCEPT ![Len(stack)] = f]
    BY <1>12 DEF NextOfFirst, top
  <2>2. PICK U, r : r = top /\ r \in Frames(U)
    BY <1>1, TopRecord
  <2>3. f.kind = r.kind
    <3>1. f = [r EXCEPT !.tcell = x, !.tv = tv, !.index = y]
      BY <2>1, <2>2
    <3> QED
      BY <2>2, <3>1 DEF Frames
  <2>4. /\ DOMAIN stack' = 1 .. k + 1 /\ stack'[k + 1].kind = top.kind
        /\ \A i \in 1 .. k : stack'[i] = stack[i]
        /\ \A i \in 1 .. k + 1 : i \in 1 .. k \/ i = k + 1
    BY <1>11, <2>1, <2>2, <2>3
  <2>5. top.kind = "first" /\ mode' = "other"
    BY <1>12 DEF NextOfFirst, Back
  <2>6. gca_first' = k + 1
    BY <1>2, <1>5, <1>12, <2>5 DEF NextOfFirst, ReachedFirst
  <2>7. Between(stack', k + 1)
    <3>1. \A i \in 1 .. k : i <= k + 1
      OBVIOUS
    <3>2. k + 1 \in 1 .. k + 1 /\ k + 1 <= k + 1 /\ ~ k + 1 < k + 1
      OBVIOUS
    <3> QED
      BY <1>5, <2>4, <2>5, <3>1, <3>2 DEF Between, FirstUpTo
  <2> QED
    BY <2>5, <2>6, <2>7 DEF Leftmost
<1>13. CASE NextOfOther
  <2>1. PICK tv, x, f : /\ f = [top EXCEPT !.tcell = x, !.tv = tv]
                        /\ stack' = [stack EXCEPT ![Len(stack)] = f]
    BY <1>13 DEF NextOfOther, top
  <2>2. PICK U, r : r = top /\ r \in Frames(U)
    BY <1>1, TopRecord
  <2>3. f.kind = r.kind
    <3>1. f = [r EXCEPT !.tcell = x, !.tv = tv]
      BY <2>1, <2>2
    <3> QED
      BY <2>2, <3>1 DEF Frames
  <2>4. /\ DOMAIN stack' = 1 .. k + 1 /\ stack'[k + 1].kind = top.kind
        /\ \A i \in 1 .. k : stack'[i] = stack[i]
        /\ \A i \in 1 .. k + 1 : i \in 1 .. k \/ i = k + 1
        /\ \A i \in 1 .. k : i \in DOMAIN stack
    BY <1>11, <2>1, <2>2, <2>3
  <2>5. top.kind = "other" /\ mode' = "other" /\ UNCHANGED gca_first
    BY <1>13 DEF NextOfOther, Back
  <2>6. gca_first \in 1 .. k /\ FirstUpTo(stack, gca_first)
    BY <1>6, <2>5
  <2>7. Between(stack', gca_first)
    <3>1. gca_first \in 1 .. k + 1 /\ ~ k + 1 <= gca_first
      BY <2>6
    <3> QED
      BY <2>4, <2>5, <2>6, <3>1 DEF Between, FirstUpTo
  <2> QED
    BY <2>5, <2>7 DEF Leftmost
<1> QED
  BY <1>8, <1>9, <1>10, <1>12, <1>13

\* No frame yet.
LEMMA InitLeftmost == Init => Leftmost
<1> SUFFICES ASSUME Init PROVE Leftmost
  OBVIOUS
<1>1. mode = "first" /\ DOMAIN stack = {}
  BY EmptySeq DEF Init, Begin
<1> QED
  BY <1>1 DEF Leftmost, AllFirst

\* The stack is the leftmost path down to the level of gca_first, and then leaves it.
LEMMA NextKeepsLeftmost ==
  Path /\ Leftmost /\ rtnlevel \in Int /\ [Next]_vars => Leftmost'
<1> SUFFICES ASSUME Path, Leftmost, rtnlevel \in Int, [Next]_vars PROVE Leftmost'
  OBVIOUS
<1>1. CASE CallAgain
  <2>1. mode' = "first" /\ stack' = <<>>
    BY <1>1 DEF CallAgain, Begin, Path, EmptyAtEnd
  <2>2. DOMAIN stack' = {}
    BY <2>1, EmptySeq
  <2> QED
    BY <2>1, <2>2 DEF Leftmost, AllFirst
<1>2. CASE firstterminal
  <2>1. mode = "first" /\ mode' = "back" /\ UNCHANGED stack
    BY <1>2 DEF firstterminal
  <2> QED
    BY <2>1 DEF Leftmost, AllFirst
<1>3. ASSUME mode \in {"other", "classify"}, mode' \in {"classify", "back"},
             UNCHANGED <<stack, gca_first>>
      PROVE  Leftmost'
  <2>1. Between(stack, gca_first)
    BY <1>3 DEF Leftmost
  <2>2. Between(stack', gca_first')
    BY <1>3, <2>1
  <2> QED
    BY <1>3, <2>2 DEF Leftmost
<1>4. CASE othernode
  BY <1>3, <1>4 DEF othernode
<1>5. CASE FirstLeafAgain \/ BestLeafAgain
  BY <1>3, <1>5 DEF FirstLeafAgain, BestLeafAgain, Return, levelVars
<1>6. CASE BetterLeaf \/ BadLeaf
  BY <1>3, <1>6 DEF BetterLeaf, BadLeaf, LeaveLeaf, Return
<1>7. CASE FirstPathNode \/ InternalNode
  <2>1. CASE UNCHANGED stack
    <3>1. ~ FirstPathNode
      <4>1. PICK U : stack \in Seq(Frames(U))
        BY DEF Path, LevelTypes
      <4>2. ASSUME NEW f PROVE Append(stack, f) # stack
        BY <4>1, AppendProperties
      <4> QED
        BY <2>1, <4>2 DEF FirstPathNode
    <3>2. mode = "classify" /\ UNCHANGED gca_first /\ mode' \in {"back", "other"}
      BY <1>7, <3>1 DEF InternalNode, Return
    <3>3. Between(stack', gca_first')
      BY <2>1, <3>2 DEF Leftmost
    <3> QED
      BY <3>2, <3>3 DEF Leftmost
  <2> QED
    BY <1>7, <2>1, PushLeftmost
<1>8. CASE ReturnFurther \/ NextOfFirst \/ EndOfFirst \/ NextOfOther \/ EndOfOther
  BY <1>8, BackLeftmost
<1>9. CASE Finish
  BY <1>9 DEF Finish, Leftmost
<1>10. CASE UNCHANGED vars
  <2>1. UNCHANGED <<mode, stack, gca_first>>
    BY <1>10 DEF vars, levelVars
  <2> QED
    BY <2>1 DEF Leftmost, AllFirst, Between, FirstUpTo
<1> QED
  BY <1>1, <1>2, <1>4, <1>5, <1>6, <1>7, <1>8, <1>9, <1>10 DEF Next, Terminated

-----------------------------------------------------------------------------
(* The first and the best leaf *)

LeafLab(U, c, lab) ==
  \E q : Refines(U, q, c) /\ Discrete(q) /\ lab = [i \in U |-> CHOOSE v \in U : q[v] = i]

LeavesFine ==
  mode # "first" => LeafLab(V, call.colors, firstlab) /\ LeafLab(V, call.colors, canonlab)

\* No leaf yet.
LEMMA InitLeaves == Init => LeavesFine
BY DEF Init, Begin, LeavesFine

\* The labellings kept are those of leaves.
LEMMA NextKeepsLeaves ==
  Call /\ Path /\ NodeFine /\ LeavesFine /\ [Next]_vars => LeavesFine'
<1> SUFFICES ASSUME Call, Path, NodeFine, LeavesFine, [Next]_vars PROVE LeavesFine'
  OBVIOUS
<1>1. CASE CallAgain
  BY <1>1 DEF CallAgain, Begin, LeavesFine
<1>2. ASSUME ~ CallAgain PROVE V' = V /\ call' = call
  BY <1>2, CallStays
<1>3. CASE firstterminal
  <2>1. PICK p : p = Visited.p
    OBVIOUS
  <2>2. mode = "first" /\ Discrete(p) /\ firstlab' = LabOf(p) /\ canonlab' = LabOf(p)
    BY <1>3, <2>1 DEF firstterminal
  <2>3. level \in Int /\ GoodNode(V, call.colors, level, node.p)
    BY <2>2, NodeNumbers
  <2>4. Refines(V, p, call.colors)
    BY <2>1, <2>3, VisitedFine DEF GoodNode
  <2>5. LabOf(p) = [i \in V |-> CHOOSE v \in V : p[v] = i]
    BY DEF LabOf
  <2>6. LeafLab(V, call.colors, LabOf(p))
    BY <2>2, <2>4, <2>5, Zenon DEF LeafLab
  <2>7. V' = V /\ call' = call
    BY <1>3, <2>2, <1>2 DEF CallAgain
  <2> QED
    BY <2>2, <2>6, <2>7 DEF LeavesFine
<1>4. CASE BetterLeaf
  <2>1. PICK p : p = node.p
    OBVIOUS
  <2>2. mode = "classify" /\ Discrete(p) /\ canonlab' = LabOf(p) /\ UNCHANGED firstlab
    BY <1>4, <2>1 DEF BetterLeaf, IsLeaf, Lab, firstVars
  <2>4. Refines(V, p, call.colors)
    BY <2>1 DEF NodeFine
  <2>5. LabOf(p) = [i \in V |-> CHOOSE v \in V : p[v] = i]
    BY DEF LabOf
  <2>6. LeafLab(V, call.colors, LabOf(p))
    BY <2>2, <2>4, <2>5, Zenon DEF LeafLab
  <2>7. V' = V /\ call' = call
    BY <2>2, <1>2 DEF CallAgain
  <2> QED
    BY <2>2, <2>6, <2>7 DEF LeavesFine
<1>5. ASSUME mode' = "first" \/ mode # "first", UNCHANGED <<firstlab, canonlab>>, ~ CallAgain
      PROVE  LeavesFine'
  BY <1>2, <1>5 DEF LeavesFine
<1>6. CASE FirstPathNode
  BY <1>6 DEF FirstPathNode, LeavesFine
<1>7. CASE othernode \/ InternalNode \/ FirstLeafAgain \/ BestLeafAgain \/ BadLeaf
  BY <1>5, <1>7 DEF othernode, InternalNode, FirstLeafAgain, BestLeafAgain, BadLeaf, firstVars,
                    canonVars, CallAgain
<1>8. CASE ReturnFurther \/ NextOfFirst \/ EndOfFirst \/ NextOfOther \/ EndOfOther \/ Finish
  BY <1>5, <1>8 DEF ReturnFurther, NextOfFirst, EndOfFirst, NextOfOther, EndOfOther, Finish,
                    Back, firstVars, canonVars, CallAgain
<1>9. CASE UNCHANGED vars
  BY <1>1, <1>2, <1>9 DEF vars, firstVars, canonVars, LeavesFine
<1> QED
  BY <1>1, <1>3, <1>4, <1>6, <1>7, <1>8, <1>9 DEF Next, Terminated

-----------------------------------------------------------------------------
(* The levels *)

Bounded == gca_first <= n /\ gca_canon <= n /\ eqlev_canon <= n /\ allsamelevel <= n

Returns == rtnlevel \in 0 .. n

\* There are at most as many levels as vertices.
LEMMA LevelsBound ==
  ASSUME Call, Path, FramesFine
  PROVE  /\ n \in Nat /\ n >= 1 /\ Len(stack) \in Nat /\ Len(stack) < n
         /\ level \in Nat /\ level >= 1 /\ level <= n
<1>1. PICK U : stack \in Seq(Frames(U))
  BY DEF Path, LevelTypes
<1>2. Len(stack) \in Nat /\ DOMAIN stack = 1 .. Len(stack)
  BY <1>1, LenProperties
<1>3. Numbers(n, V) /\ n \in Nat /\ n >= 1
  BY DEF Call, Graphs, Numbered, Numbers, Coloured
<1>4. Len(stack) < n
  <2>1. CASE Len(stack) = 0
    BY <1>3, <2>1
  <2>2. CASE Len(stack) # 0
    <3>1. Len(stack) \in DOMAIN stack
      BY <1>2, <2>2
    <3>2. PICK f : f = stack[Len(stack)]
      OBVIOUS
    <3>3. GoodNode(V, call.colors, Len(stack), f.p) /\ f.tc \in Nontrivial(f.p)
      BY <3>1, <3>2 DEF FramesFine, GoodFrame
    <3>4. Positional(V, f.p)
      BY <3>3 DEF GoodNode, Refines
    <3>5. PICK tv : tv \in CellAt(f.p, f.tc)
      BY <1>3, <3>3, <3>4, NontrivialIs
    <3>6. PICK k \in Nat : k = Len(stack)
      BY <1>2
    <3>7. k \in Int /\ GoodNode(V, call.colors, k, f.p)
      BY <3>3, <3>6
    <3>8. k < n
      BY <1>3, <3>3, <3>5, <3>7, ChildFine
    <3> QED
      BY <3>6, <3>8
  <2> QED
    BY <2>1, <2>2
<1> QED
  BY <1>2, <1>3, <1>4 DEF level

\* The levels at the start.
LEMMA InitBounds == Init => Bounded /\ Returns
<1> SUFFICES ASSUME Init PROVE Bounded /\ Returns
  OBVIOUS
<1>1. n \in Nat
  BY InitCall DEF Call, Graphs, Numbered
<1>2. /\ gca_first = 0 /\ gca_canon = 0 /\ eqlev_canon = -1 /\ allsamelevel = 0
      /\ rtnlevel = 0
  BY DEF Init
<1> QED
  BY <1>1, <1>2 DEF Bounded, Returns

\* recover lowers levels only.
LEMMA RecoverBounds ==
  ASSUME LevelTypes, Bounded, n \in Nat, NEW l \in Nat, l <= n, Recover(l)
  PROVE  gca_canon' <= n /\ eqlev_canon' <= n
<1>1. gca_canon \in Int /\ eqlev_canon \in Int /\ gca_canon <= n /\ eqlev_canon <= n
  BY DEF LevelTypes, Bounded
<1>2. gca_canon' = IF l <= gca_canon THEN l ELSE gca_canon
  BY <1>1, MinOfTwo DEF Recover
<1>3. eqlev_canon' = IF l <= eqlev_canon THEN l ELSE eqlev_canon
  BY DEF Recover
<1> QED
  BY <1>1, <1>2, <1>3

\* No level exceeds the number of vertices.
LEMMA NextKeepsBounds ==
  Call /\ Path /\ FramesFine /\ Bounded /\ [Next]_vars => Bounded'
<1> SUFFICES ASSUME Call, Path, FramesFine, Bounded, [Next]_vars PROVE Bounded'
  OBVIOUS
<1>1. /\ n \in Nat /\ n >= 1 /\ Len(stack) \in Nat /\ Len(stack) <= n
      /\ level \in Nat /\ level <= n
  BY LevelsBound
<1>2. LevelTypes
  BY DEF Path
<1>3. /\ gca_first \in Int /\ gca_canon \in Int /\ eqlev_canon \in Int /\ allsamelevel \in Int
      /\ gca_first <= n /\ gca_canon <= n /\ eqlev_canon <= n /\ allsamelevel <= n
  BY <1>2 DEF LevelTypes, Bounded
<1>4. n' = n
  <2>1. CASE CallAgain
    BY <2>1, CallAgainKeeps
  <2>2. CASE ~ CallAgain
    BY <2>2, CallStays
  <2> QED
    BY <2>1, <2>2
<1>5. CASE CallAgain
  <2>1. UNCHANGED <<gca_first, gca_canon, allsamelevel>> /\ eqlev_canon' = -1
    BY <1>5 DEF CallAgain
  <2> QED
    BY <1>1, <1>3, <1>4, <2>1 DEF Bounded
<1>6. ASSUME gca_first' \in {gca_first, level}, gca_canon' \in {gca_canon, level},
             eqlev_canon' \in {eqlev_canon, level}, allsamelevel' \in {allsamelevel, level}
      PROVE  Bounded'
  BY <1>1, <1>3, <1>4, <1>6 DEF Bounded
<1>7. CASE firstterminal \/ othernode \/ FirstPathNode \/ InternalNode
  <2>1. /\ gca_first' \in {gca_first, level} /\ gca_canon' \in {gca_canon, level}
        /\ allsamelevel' \in {allsamelevel, level}
    BY <1>7 DEF firstterminal, othernode, FirstPathNode, InternalNode
  <2>2. eqlev_canon' \in {eqlev_canon, level}
    <3>1. CASE othernode
      BY <3>1 DEF othernode
    <3>2. CASE firstterminal \/ FirstPathNode \/ InternalNode
      BY <3>2 DEF firstterminal, FirstPathNode, InternalNode
    <3> QED
      BY <1>7, <3>1, <3>2
  <2> QED
    BY <1>6, <2>1, <2>2
<1>8. CASE FirstLeafAgain \/ BestLeafAgain \/ BetterLeaf \/ BadLeaf \/ ReturnFurther \/ Finish
  <2>1. /\ gca_first' = gca_first /\ gca_canon' \in {gca_canon, level}
        /\ eqlev_canon' \in {eqlev_canon, level} /\ allsamelevel' = allsamelevel
    BY <1>8 DEF FirstLeafAgain, BestLeafAgain, BetterLeaf, BadLeaf, ReturnFurther, Finish, levelVars
  <2> QED
    BY <1>6, <2>1
<1>9. CASE NextOfFirst \/ EndOfFirst \/ NextOfOther \/ EndOfOther
  <2>1. Recover(Len(stack))
    BY <1>9 DEF NextOfFirst, EndOfFirst, NextOfOther, EndOfOther, Back
  <2>2. gca_canon' <= n /\ eqlev_canon' <= n
    BY <1>1, <1>2, <2>1, RecoverBounds
  <2>3. gca_first' \in {gca_first, Len(stack)}
    BY <1>9 DEF NextOfFirst, EndOfFirst, NextOfOther, EndOfOther, ReachedFirst
  <2>4. allsamelevel' \in {allsamelevel, allsamelevel - 1}
    BY <1>9 DEF NextOfFirst, EndOfFirst, NextOfOther, EndOfOther
  <2> QED
    BY <1>1, <1>3, <1>4, <2>2, <2>3, <2>4 DEF Bounded
<1>10. CASE UNCHANGED vars
  BY <1>6, <1>10 DEF vars, levelVars
<1> QED
  BY <1>5, <1>7, <1>8, <1>9, <1>10 DEF Next, Terminated

\* Off the leftmost path there is a node of it on the stack: the root.
LEMMA RootKept ==
  ASSUME Path, Leftmost, mode \in {"other", "classify"}
  PROVE  /\ gca_first \in Int /\ gca_canon \in Int /\ eqlev_canon \in Int /\ allsamelevel \in Int
         /\ noncheaplevel \in Int
         /\ 1 <= gca_first /\ 1 <= gca_canon /\ 1 <= eqlev_canon /\ 1 < noncheaplevel
         /\ gca_first < noncheaplevel
<1>1. PICK U : stack \in Seq(Frames(U))
  BY DEF Path, LevelTypes
<1>2. Len(stack) \in Nat /\ DOMAIN stack = 1 .. Len(stack)
  BY <1>1, LenProperties
<1>3. gca_first \in DOMAIN stack /\ FirstUpTo(stack, gca_first)
  BY DEF Leftmost, Between
<1>4. 1 \in DOMAIN stack /\ 1 <= gca_first /\ gca_first <= gca_first
  BY <1>2, <1>3
<1>5. stack[1].kind = "first" /\ stack[gca_first].kind = "first"
  BY <1>3, <1>4 DEF FirstUpTo
<1> QED
  BY <1>3, <1>4, <1>5 DEF Path, PathKept, LevelTypes

\* A leaf is left for a level, or for the end.
LEMMA LeaveLeafTo ==
  ASSUME LevelTypes, Bounded, n \in Nat, NEW eq \in Int, 1 <= eq, eq <= n, 1 < noncheaplevel,
         LeaveLeaf(eq)
  PROVE  rtnlevel' \in 0 .. n
<1> DEFINE save == IF allsamelevel > eq THEN allsamelevel - 1 ELSE eq
           newlevel == IF noncheaplevel <= save THEN noncheaplevel - 1 ELSE save
<1>1. rtnlevel' = newlevel
  BY DEF LeaveLeaf, Return
<1>2. allsamelevel \in Int /\ noncheaplevel \in Int /\ allsamelevel <= n
  BY DEF LevelTypes, Bounded
<1>3. save \in Int /\ 1 <= save /\ save <= n
  BY <1>2
<1>4. newlevel \in Int /\ 0 <= newlevel /\ newlevel <= n
  <2> HIDE DEF save
  <2> QED
    BY <1>2, <1>3
<1> HIDE DEF newlevel
<1> QED
  BY <1>1, <1>4

\* The search returns to levels, or to its end.
LEMMA NextKeepsReturns ==
  Call /\ Path /\ FramesFine /\ Leftmost /\ Bounded /\ Returns /\ [Next]_vars => Returns'
<1> SUFFICES ASSUME Call, Path, FramesFine, Leftmost, Bounded, Returns, [Next]_vars
             PROVE  Returns'
  OBVIOUS
<1>1. /\ n \in Nat /\ n >= 1 /\ Len(stack) \in Nat /\ Len(stack) < n
      /\ level \in Nat /\ 1 <= level /\ level <= n
  BY LevelsBound
<1>2. LevelTypes /\ rtnlevel \in 0 .. n
  BY DEF Path, Returns
<1>4. n' = n
  <2>1. CASE CallAgain
    BY <2>1, CallAgainKeeps
  <2>2. CASE ~ CallAgain
    BY <2>2, CallStays
  <2> QED
    BY <2>1, <2>2
<1>5. ASSUME rtnlevel' \in {rtnlevel, level - 1} PROVE Returns'
  <2>1. level - 1 = Len(stack)
    BY <1>1 DEF level
  <2> QED
    BY <1>1, <1>2, <1>4, <1>5, <2>1 DEF Returns
<1>6. CASE CallAgain \/ FirstPathNode \/ firstterminal \/ othernode \/ InternalNode
           \/ ReturnFurther \/ NextOfFirst \/ NextOfOther \/ Finish
  BY <1>5, <1>6 DEF CallAgain, FirstPathNode, firstterminal, othernode, InternalNode,
                    ReturnFurther, NextOfFirst, NextOfOther, Finish, Return
<1>7. CASE FirstLeafAgain \/ BestLeafAgain
  <2>1. mode = "classify" /\ rtnlevel' \in {gca_first, gca_canon}
    BY <1>7 DEF FirstLeafAgain, BestLeafAgain, Return
  <2>2. gca_first \in Int /\ gca_canon \in Int /\ 1 <= gca_first /\ 1 <= gca_canon
    BY <2>1, RootKept
  <2>3. gca_first <= n /\ gca_canon <= n
    BY DEF Bounded
  <2> QED
    BY <1>1, <1>4, <2>1, <2>2, <2>3 DEF Returns
<1>8. CASE BetterLeaf
  <2>1. mode = "classify" /\ LeaveLeaf(level)
    BY <1>8 DEF BetterLeaf
  <2>2. 1 < noncheaplevel
    BY <2>1, RootKept
  <2> QED
    BY <1>1, <1>2, <1>4, <2>1, <2>2, LeaveLeafTo DEF Returns
<1>9. CASE BadLeaf
  <2>1. mode = "classify" /\ LeaveLeaf(eqlev_canon)
    BY <1>9 DEF BadLeaf
  <2>2. 1 < noncheaplevel /\ eqlev_canon \in Int /\ 1 <= eqlev_canon /\ eqlev_canon <= n
    BY <2>1, RootKept DEF Bounded
  <2> QED
    BY <1>1, <1>2, <1>4, <2>1, <2>2, LeaveLeafTo DEF Returns
<1>10. CASE EndOfFirst \/ EndOfOther
  <2>1. stack # <<>> /\ rtnlevel' = Len(stack) - 1
    BY <1>10 DEF EndOfFirst, EndOfOther, Back, Return
  <2>2. Len(stack) # 0
    <3>1. PICK U : stack \in Seq(Frames(U))
      BY DEF Path, LevelTypes
    <3> QED
      BY <2>1, <3>1, EmptySeq
  <2> QED
    BY <1>1, <1>4, <2>1, <2>2 DEF Returns
<1>11. CASE UNCHANGED vars
  BY <1>5, <1>11 DEF vars
<1> QED
  BY <1>6, <1>7, <1>8, <1>9, <1>10, <1>11 DEF Next, Terminated

-----------------------------------------------------------------------------
(* The rows, the orbits and the workspace *)

RowsTyped == canong \in [V -> SUBSET V] /\ samerows \in 0 .. n

Compared == comp_canon \in {-1, 0, 1}

Joined == orbits \in [V -> V]

Workspace == \E U : fixmcr \in Seq(U) /\ Len(fixmcr) <= WorkPairs

\* The leaf that a stored labelling comes from.
LEMMA LeafOf ==
  ASSUME Call, NEW lab, LeafLab(V, call.colors, lab)
  PROVE  \E q : /\ Refines(V, q, call.colors) /\ Positional(V, q) /\ Discrete(q)
                /\ lab = LabOf(q)
<1>1. PICK q : /\ Refines(V, q, call.colors) /\ Discrete(q)
               /\ lab = [i \in V |-> CHOOSE v \in V : q[v] = i]
  BY Zenon DEF LeafLab
<1>2. lab = LabOf(q)
  BY <1>1 DEF LabOf
<1>3. Positional(V, q)
  BY <1>1 DEF Refines
<1> QED
  BY <1>1, <1>2, <1>3

\* The rows of a leaf hold vertices.
LEMMA RowIn ==
  ASSUME Call, NEW q, Positional(V, q), Discrete(q), NEW i \in V
  PROVE  Row(LabOf(q), i) \subseteq V
<1>1. Numbered /\ IsGraph(g, V)
  BY DEF Call, Graphs, Coloured
<1>2. PICK v \in V : q[v] = i
  <2>1. Numbers(n, V)
    BY <1>1 DEF Numbered, Numbers
  <2> QED
    BY <2>1, DiscreteIs DEF Fills
<1>3. Row(LabOf(q), i) = {q[w] : w \in g[v]}
  BY <1>1, <1>2, RowIs
<1>4. \A w \in g[v] : w \in V
  BY <1>1 DEF IsGraph
<1>5. \A w \in V : q[w] \in V
  BY DEF Positional
<1> QED
  BY <1>3, <1>4, <1>5

\* So do the rows brought up to date.
LEMMA BestRowsTyped ==
  ASSUME Call, LeavesFine, mode # "first", RowsTyped
  PROVE  BestRows \in [V -> SUBSET V]
<1>1. PICK q : Positional(V, q) /\ Discrete(q) /\ canonlab = LabOf(q)
  BY LeafOf DEF LeavesFine
<1>2. \A i \in V : Row(canonlab, i) \subseteq V
  BY <1>1, RowIn
<1>3. \A i \in V : canong[i] \subseteq V
  BY DEF RowsTyped
<1>4. BestRows = [i \in V |-> IF i < samerows THEN canong[i] ELSE Row(canonlab, i)]
  BY DEF BestRows, updatecan
<1> QED
  BY <1>2, <1>3, <1>4

\* The number of equal rows is one.
LEMMA SamerowsTyped ==
  ASSUME Call, Compared
  PROVE  CompareWithBest.samerows \in 0 .. n
<1>1. n \in Nat /\ V = 0 .. n - 1
  BY DEF Call, Graphs, Numbered
<1>2. CASE ~ Tested
  BY <1>1, <1>2 DEF CompareWithBest
<1>3. CASE Tested
  <2>1. PICK can, lab : can = BestRows /\ lab = Lab
    OBVIOUS
  <2>2. CompareWithBest = testcanlab(can, lab)
    BY <1>3, <2>1 DEF CompareWithBest
  <2> DEFINE differ == {i \in V : Row(lab, i) # can[i]}
  <2>3. CASE differ = {}
    BY <1>1, <2>2, <2>3 DEF testcanlab
  <2>4. CASE differ # {}
    <3>1. CompareWithBest.samerows = Min(differ)
      BY <2>2, <2>4 DEF testcanlab
    <3>2. differ \in SUBSET Nat /\ differ \subseteq 0 .. n - 1
      BY <1>1
    <3> HIDE DEF differ
    <3>3. Min(differ) \in differ
      BY <2>4, <3>2, MinIn
    <3>4. PICK x : x = Min(differ)
      OBVIOUS
    <3>5. x \in 0 .. n - 1
      BY <3>2, <3>3, <3>4
    <3>6. x \in 0 .. n
      BY <1>1, <3>5
    <3> QED
      BY <3>1, <3>4, <3>6
  <2> QED
    BY <2>3, <2>4
<1> QED
  BY <1>2, <1>3

\* The variables at the start.
LEMMA InitTyped == Init => RowsTyped /\ Compared /\ Joined /\ Workspace
<1> SUFFICES ASSUME Init PROVE RowsTyped /\ Compared /\ Joined /\ Workspace
  OBVIOUS
<1>1. n \in Nat
  BY InitCall DEF Call, Graphs, Numbered
<1>2. PICK in \in Inputs, rep \in Reps, bits \in HashBits :
        /\ call = Args(in, rep, bits) /\ orbits = Begin(Args(in, rep, bits)).orbits
        /\ canong = [v \in DOMAIN in.g |-> {}]
  BY DEF Init
<1>3. g = in.g /\ V = DOMAIN in.g
  BY <1>2 DEF Args, g, V, Vertices
<1>4. canong \in [V -> SUBSET V]
  BY <1>2, <1>3
<1>5. orbits \in [V -> V]
  BY <1>2, <1>3 DEF Begin, Args
<1>6. samerows = 0 /\ comp_canon = 0 /\ fixmcr = <<>>
  BY DEF Init
<1>7. fixmcr \in Seq({}) /\ Len(fixmcr) <= WorkPairs
  <2>1. Len(fixmcr) = 0 /\ WorkPairs \in Nat
    BY <1>6, EmptySeq, ConstantsAssumption
  <2> QED
    BY <1>6, <2>1, EmptySeq
<1> QED
  BY <1>1, <1>4, <1>5, <1>6, <1>7 DEF RowsTyped, Compared, Joined, Workspace

\* The rows kept hold vertices, whatever leaf or call wrote them.
LEMMA NextKeepsRowsTyped ==
  Call /\ LeavesFine /\ RowsTyped /\ Compared /\ [Next]_vars => RowsTyped'
<1> SUFFICES ASSUME Call, LeavesFine, RowsTyped, Compared, [Next]_vars PROVE RowsTyped'
  OBVIOUS
<1>1. n \in Nat
  BY DEF Call, Graphs, Numbered
<1>2. V' = V /\ n' = n
  <2>1. CASE CallAgain
    BY <2>1, CallAgainKeeps
  <2>2. CASE ~ CallAgain
    BY <2>2, CallStays
  <2> QED
    BY <2>1, <2>2
<1>3. canong \in [V -> SUBSET V] /\ samerows \in 0 .. n
  BY DEF RowsTyped
<1>4. CASE CallAgain
  <2>1. samerows' = samerows /\ canong' \in {canong, [v \in V |-> {}]}
    BY <1>4 DEF CallAgain
  <2>2. [v \in V |-> {}] \in [V -> SUBSET V]
    OBVIOUS
  <2> QED
    BY <1>2, <1>3, <2>1, <2>2 DEF RowsTyped
<1>5. ASSUME mode # "first", canong' \in {canong, BestRows}, samerows' \in 0 .. n
      PROVE  RowsTyped'
  BY <1>2, <1>3, <1>5, BestRowsTyped DEF RowsTyped
<1>6. ASSUME canong' = canong, samerows' \in {samerows, 0}
      PROVE  RowsTyped'
  BY <1>1, <1>2, <1>3, <1>6 DEF RowsTyped
<1>7. CASE BetterLeaf
  <2>1. /\ mode = "classify" /\ canong' \in {canong, BestRows}
        /\ samerows' = CompareWithBest.samerows
    BY <1>7 DEF BetterLeaf
  <2> QED
    BY <1>5, <2>1, SamerowsTyped
<1>8. CASE BadLeaf
  <2>1. /\ mode = "classify" /\ canong' \in {canong, BestRows}
        /\ samerows' \in {samerows, n}
    BY <1>8 DEF BadLeaf
  <2> QED
    BY <1>1, <1>3, <1>5, <2>1
<1>9. CASE BestLeafAgain
  <2>1. mode = "classify" /\ canong' = BestRows /\ samerows' = n
    BY <1>9 DEF BestLeafAgain
  <2> QED
    BY <1>1, <1>5, <2>1
<1>10. CASE Finish
  <2>1. mode = "back" /\ canong' = BestRows /\ samerows' = samerows
    BY <1>10 DEF Finish
  <2> QED
    BY <1>3, <1>5, <2>1
<1>11. CASE FirstPathNode \/ firstterminal \/ othernode \/ InternalNode \/ FirstLeafAgain
  BY <1>6, <1>11 DEF FirstPathNode, firstterminal, othernode, InternalNode, FirstLeafAgain,
                     canonVars
<1>12. CASE ReturnFurther \/ NextOfFirst \/ EndOfFirst \/ NextOfOther \/ EndOfOther
  BY <1>6, <1>12 DEF ReturnFurther, NextOfFirst, EndOfFirst, NextOfOther, EndOfOther, canonVars
<1>13. CASE UNCHANGED vars
  BY <1>6, <1>13 DEF vars, canonVars
<1> QED
  BY <1>4, <1>7, <1>8, <1>9, <1>10, <1>11, <1>12, <1>13 DEF Next, Terminated

\* A comparison has three outcomes.
LEMMA NextKeepsCompared == Compared /\ [Next]_vars => Compared'
<1> SUFFICES ASSUME Compared, [Next]_vars PROVE Compared'
  OBVIOUS
<1>1. ASSUME comp_canon' \in {comp_canon, -1, 0, 1} PROVE Compared'
  BY <1>1 DEF Compared
<1>2. CASE othernode
  <2>1. PICK r, d : comp_canon' = IF ~ d THEN comp_canon
                 ELSE IF r.code < canoncode[level] THEN -1
                 ELSE IF r.code > canoncode[level] THEN 1 ELSE 0
    BY <1>2 DEF othernode
  <2> QED
    BY <1>1, <2>1
<1>3. CASE firstterminal \/ BetterLeaf \/ BadLeaf
  BY <1>1, <1>3 DEF firstterminal, BetterLeaf, BadLeaf
<1>4. CASE NextOfFirst \/ EndOfFirst \/ NextOfOther \/ EndOfOther
  BY <1>1, <1>4 DEF NextOfFirst, EndOfFirst, NextOfOther, EndOfOther, Back, Recover
<1>5. CASE CallAgain \/ FirstPathNode \/ InternalNode \/ FirstLeafAgain \/ BestLeafAgain
           \/ ReturnFurther \/ Finish
  BY <1>1, <1>5 DEF CallAgain, FirstPathNode, InternalNode, FirstLeafAgain, BestLeafAgain,
                    ReturnFurther, Finish, levelVars
<1>6. CASE UNCHANGED vars
  BY <1>1, <1>6 DEF vars, levelVars
<1> QED
  BY <1>2, <1>3, <1>4, <1>5, <1>6 DEF Next, Terminated

\* What maps the first or the best leaf to the leaf at hand.
LEMMA LeafMapping ==
  ASSUME Call, NodeFine, IsLeaf, NEW lab, LeafLab(V, call.colors, lab),
         NEW s, s = Mapping(lab, Lab)
  PROVE  /\ Permutes(V, s) /\ s \in [V -> V]
         /\ \A v \in V : call.colors[s[v]] = call.colors[v]
<1>1. PICK p : Refines(V, p, call.colors) /\ Positional(V, p) /\ Discrete(p) /\ lab = LabOf(p)
  BY LeafOf
<1>2. PICK q : q = node.p
  OBVIOUS
<1>3. Refines(V, q, call.colors) /\ Positional(V, q) /\ Discrete(q) /\ Lab = LabOf(q)
  BY <1>2 DEF NodeFine, IsLeaf, Lab, Refines
<1>4. Numbered /\ Numbers(n, V) /\ Positional(V, call.colors)
  BY DEF Call, Graphs, Numbered, Numbers, Coloured
<1>5. s = Mapping(LabOf(p), LabOf(q))
  BY <1>1, <1>3
<1>6. Permutes(V, s) /\ s \in [V -> V] /\ \A v \in V : q[s[v]] = p[v]
  BY <1>1, <1>3, <1>4, <1>5, MappingIs
<1>7. ASSUME NEW v \in V PROVE call.colors[s[v]] = call.colors[v]
  <2>1. PICK w \in V : w = s[v]
    BY <1>6
  <2>2. p[v] = q[w]
    BY <1>6, <2>1
  <2>3. call.colors[v] = call.colors[w]
    BY <1>1, <1>3, <1>4, <2>2, SameColours
  <2> QED
    BY <2>1, <2>3
<1> QED
  BY <1>6, <1>7

\* Orbits are represented by vertices.
LEMMA NextKeepsJoined ==
  Call /\ NodeFine /\ LeavesFine /\ Joined /\ [Next]_vars => Joined'
<1> SUFFICES ASSUME Call, NodeFine, LeavesFine, Joined, [Next]_vars PROVE Joined'
  OBVIOUS
<1>1. Numbered
  BY DEF Call, Graphs
<1>2. CASE CallAgain
  <2>1. PICK s : LET a == Args(Renamed([g |-> g, colors |-> call.colors], s), call.rep, call.bits)
                 IN  call' = a /\ orbits' = Begin(a).orbits
    BY <1>2 DEF CallAgain
  <2>2. V' = DOMAIN call'.g
    BY DEF V, Vertices, g
  <2>3. orbits' = [v \in DOMAIN call'.g |-> v]
    BY <2>1 DEF Begin
  <2> QED
    BY <2>2, <2>3 DEF Joined
<1>3. ASSUME ~ CallAgain PROVE V' = V
  BY <1>3, CallStays
<1>4. CASE FirstLeafAgain \/ BestLeafAgain
  <2>1. PICK lab \in {firstlab, canonlab} : Join(Mapping(lab, Lab))
    BY <1>4 DEF FirstLeafAgain, BestLeafAgain
  <2>2. mode = "classify" /\ IsLeaf
    BY <1>4 DEF FirstLeafAgain, BestLeafAgain
  <2>3. LeafLab(V, call.colors, lab)
    BY <2>1, <2>2 DEF LeavesFine
  <2>4. PICK s : s = Mapping(lab, Lab)
    OBVIOUS
  <2>5. s \in [V -> V]
    BY <2>2, <2>3, <2>4, LeafMapping
  <2>6. orbits' = orbjoin(orbits, s)
    BY <2>1, <2>4 DEF Join
  <2>7. V' = V
    BY <1>3, <2>2 DEF CallAgain
  <2> QED
    BY <1>1, <2>5, <2>6, <2>7, orbjoinTyped DEF Joined
<1>5. ASSUME ~ CallAgain, UNCHANGED orbits PROVE Joined'
  BY <1>3, <1>5 DEF Joined
<1>6. CASE FirstPathNode \/ firstterminal \/ othernode \/ InternalNode \/ BetterLeaf \/ BadLeaf
  BY <1>5, <1>6 DEF FirstPathNode, firstterminal, othernode, InternalNode, BetterLeaf, BadLeaf,
                    autVars, CallAgain
<1>7. CASE ReturnFurther \/ NextOfFirst \/ EndOfFirst \/ NextOfOther \/ EndOfOther \/ Finish
  BY <1>5, <1>7 DEF ReturnFurther, NextOfFirst, EndOfFirst, NextOfOther, EndOfOther, Finish,
                    Back, autVars, CallAgain
<1>8. CASE UNCHANGED vars
  BY <1>2, <1>5, <1>8 DEF vars, autVars
<1> QED
  BY <1>2, <1>4, <1>6, <1>7, <1>8 DEF Next, Terminated

\* A full workspace takes the next pair, and does not grow.
LEMMA PairAdded ==
  ASSUME Workspace, NEW pair, fixmcr' = AddPair(pair)
  PROVE  Workspace'
<1>1. PICK U : fixmcr \in Seq(U) /\ Len(fixmcr) <= WorkPairs
  BY DEF Workspace
<1>2. PICK W : W = U \cup {pair}
  OBVIOUS
<1>3. fixmcr \in Seq(W)
  BY <1>1, <1>2, SeqMonotonic
<1>4. PICK l \in Nat : l = Len(fixmcr) /\ DOMAIN fixmcr = 1 .. l
  BY <1>3, LenProperties
<1>5. WorkPairs \in Nat \ {0}
  BY ConstantsAssumption
<1>6. CASE Len(fixmcr) = WorkPairs
  <2>1. fixmcr' = [fixmcr EXCEPT ![WorkPairs] = pair]
    BY <1>6 DEF AddPair
  <2>2. fixmcr \in [1 .. l -> W]
    BY <1>3, <1>4, LenProperties
  <2>3. fixmcr' \in [1 .. l -> W]
    BY <1>2, <2>1, <2>2
  <2>4. fixmcr' \in Seq(W)
    BY <2>3, SeqDef
  <2>5. Len(fixmcr') = l
    BY <1>4, <2>3, <2>4, LenProperties
  <2> QED
    BY <1>1, <1>4, <2>4, <2>5 DEF Workspace
<1>7. CASE Len(fixmcr) # WorkPairs
  <2>1. fixmcr' = Append(fixmcr, pair)
    BY <1>7 DEF AddPair
  <2>2. fixmcr' \in Seq(W) /\ Len(fixmcr') = l + 1
    BY <1>2, <1>3, <1>4, <2>1, AppendProperties
  <2>3. l + 1 <= WorkPairs
    BY <1>1, <1>4, <1>5, <1>7
  <2> QED
    BY <2>2, <2>3 DEF Workspace
<1> QED
  BY <1>6, <1>7

\* The workspace never holds more pairs than it has room for.
LEMMA NextKeepsWorkspace == Workspace /\ [Next]_vars => Workspace'
<1> SUFFICES ASSUME Workspace, [Next]_vars PROVE Workspace'
  OBVIOUS
<1>1. CASE CallAgain
  <2>1. fixmcr' = <<>>
    BY <1>1 DEF CallAgain
  <2>2. fixmcr' \in Seq({}) /\ Len(fixmcr') <= WorkPairs
    <3>1. Len(fixmcr') = 0 /\ WorkPairs \in Nat
      BY <2>1, EmptySeq, ConstantsAssumption
    <3> QED
      BY <2>1, <3>1, EmptySeq
  <2> QED
    BY <2>2 DEF Workspace
<1>2. CASE UNCHANGED fixmcr
  BY <1>2 DEF Workspace
<1>3. CASE FirstLeafAgain \/ BestLeafAgain
  <2>1. PICK perm : Join(perm)
    BY <1>3 DEF FirstLeafAgain, BestLeafAgain
  <2> QED
    BY <2>1, PairAdded DEF Join
<1>4. CASE BetterLeaf \/ BadLeaf
  <2>1. PICK eq : LeaveLeaf(eq)
    BY <1>4 DEF BetterLeaf, BadLeaf
  <2>2. PICK cheap, pair : fixmcr' = IF cheap THEN AddPair(pair) ELSE fixmcr
    BY <2>1 DEF LeaveLeaf
  <2> QED
    BY <1>2, <2>2, PairAdded
<1>5. CASE FirstPathNode \/ firstterminal \/ othernode \/ InternalNode \/ UNCHANGED vars
  BY <1>2, <1>5 DEF FirstPathNode, firstterminal, othernode, InternalNode, autVars, vars
<1>6. CASE ReturnFurther \/ NextOfFirst \/ EndOfFirst \/ NextOfOther \/ EndOfOther \/ Finish
  BY <1>2, <1>6 DEF ReturnFurther, NextOfFirst, EndOfFirst, NextOfOther, EndOfOther, Finish,
                    Back, autVars
<1> QED
  BY <1>1, <1>3, <1>4, <1>5, <1>6 DEF Next, Terminated

-----------------------------------------------------------------------------
(* The generators *)

\* A permutation that keeps arcs and colours.
Keeps(h, U, c, s) == Permutes(U, s) /\ ArcsAre(h, U, s) /\ \A v \in U : c[s[v]] = c[v]

Gens == \A s \in generators : Keeps(g, V, call.colors, s)

\* No node is cheap: that a leaf is equivalent to the first is always tested.
LEMMA FirstLeafAutomorphism ==
  ASSUME Call, Path, NodeFine, LeavesFine, Leftmost, FirstLeafAgain
  PROVE  Keeps(g, V, call.colors, Mapping(firstlab, Lab))
<1>1. mode = "classify" /\ IsLeaf /\ EquivalentToFirst
  BY DEF FirstLeafAgain
<1>2. PICK s : s = Mapping(firstlab, Lab)
  OBVIOUS
<1>3. Permutes(V, s) /\ \A v \in V : call.colors[s[v]] = call.colors[v]
  <2>1. LeafLab(V, call.colors, firstlab)
    BY <1>1 DEF LeavesFine
  <2> QED
    BY <1>1, <1>2, <2>1, LeafMapping
<1>4. gca_first \in Int /\ noncheaplevel \in Int /\ gca_first < noncheaplevel
  BY <1>1, RootKept
<1>5. ~ gca_first >= noncheaplevel
  BY <1>4
<1>6. IsAutom(s)
  BY <1>1, <1>2, <1>5 DEF EquivalentToFirst
<1>7. KeepsArcs(g, V, s)
  BY <1>6 DEF IsAutom, KeepsArcs
<1>8. IsFiniteSet(V) /\ IsGraph(g, V)
  <2>1. Numbers(n, V) /\ Positional(V, call.colors)
    BY DEF Call, Graphs, Numbered, Numbers, Coloured
  <2>2. IsFiniteSet(V)
    BY <2>1, PositionalAt DEF PartitionShape
  <2> QED
    BY <2>2 DEF Call, Coloured
<1>9. ArcsAre(g, V, s)
  BY <1>3, <1>7, <1>8, ArcsMapped
<1> QED
  BY <1>2, <1>3, <1>9 DEF Keeps

\* A leaf as good as the best one has its rows.
LEMMA EqualRows ==
  ASSUME NEW can, NEW lab, testcanlab(can, lab).cmp = 0
  PROVE  \A i \in V : Row(lab, i) = can[i]
<1> DEFINE differ == {i \in V : Row(lab, i) # can[i]}
<1> SUFFICES ASSUME differ # {} PROVE FALSE
  OBVIOUS
<1>1. PICK a, b : testcanlab(can, lab).cmp = CompareRows(a, b)
  BY DEF testcanlab
<1>2. CompareRows(a, b) \in {1, -1}
  BY DEF CompareRows
<1> QED
  BY <1>1, <1>2

\* A leaf with the code and the rows of the best one: their rows are compared completely, and
\* the rows kept are those of the best leaf.
LEMMA BestLeafAutomorphism ==
  ASSUME Call, NodeFine, LeavesFine, RowsOfBestLeaf, BestLeafAgain
  PROVE  Keeps(g, V, call.colors, Mapping(canonlab, Lab))
<1>1. mode = "classify" /\ IsLeaf /\ CompareWithBest.cmp = 0
  BY DEF BestLeafAgain
<1>2. PICK s : s = Mapping(canonlab, Lab)
  OBVIOUS
<1>3. LeafLab(V, call.colors, canonlab)
  BY <1>1 DEF LeavesFine
<1>4. Permutes(V, s) /\ \A v \in V : call.colors[s[v]] = call.colors[v]
  BY <1>1, <1>2, <1>3, LeafMapping
<1>5. Tested
  <2>1. ASSUME ~ Tested PROVE FALSE
    <3>1. CompareWithBest.cmp = IF comp_canon = 0 THEN 1 ELSE comp_canon
      BY <2>1 DEF CompareWithBest
    <3> QED
      BY <1>1, <3>1
  <2> QED
    BY <2>1
<1>6. PICK can, lab : can = BestRows /\ lab = Lab
  OBVIOUS
<1>7. testcanlab(can, lab).cmp = 0
  BY <1>1, <1>5, <1>6 DEF CompareWithBest
<1>8. \A i \in V : Row(lab, i) = can[i]
  BY <1>7, EqualRows
<1>9. \A i \in V : can[i] = Row(canonlab, i)
  BY <1>1, <1>6, BestRowsComplete
<1>10. PICK p : Positional(V, p) /\ Discrete(p) /\ canonlab = LabOf(p)
  BY <1>3, LeafOf
<1>11. PICK q : q = node.p
  OBVIOUS
<1>12. Positional(V, q) /\ Discrete(q) /\ lab = LabOf(q)
  BY <1>1, <1>6, <1>11 DEF NodeFine, IsLeaf, Lab, Refines
<1>13. \A i \in V : Row(LabOf(q), i) = Row(LabOf(p), i)
  BY <1>8, <1>9, <1>10, <1>12
<1>14. s = Mapping(LabOf(p), LabOf(q))
  BY <1>2, <1>6, <1>10, <1>12
<1>15. Numbered /\ IsGraph(g, V)
  BY DEF Call, Graphs, Coloured
<1>16. ArcsAre(g, V, s)
  BY <1>10, <1>12, <1>13, <1>14, <1>15, SameRowsMapped
<1> QED
  BY <1>2, <1>4, <1>16 DEF Keeps

\* Only automorphisms are reported.
LEMMA NextKeepsGens ==
  ASSUME Call, Path, NodeFine, LeavesFine, Leftmost, RowsOfBestLeaf, Gens, [Next]_vars
  PROVE  Gens'
<1>1. CASE CallAgain
  BY <1>1 DEF CallAgain, Gens
<1>2. ASSUME ~ CallAgain, NEW s, generators' \subseteq generators \cup {s},
             generators' = generators \/ Keeps(g, V, call.colors, s)
      PROVE  Gens'
  <2>1. g' = g /\ V' = V /\ call' = call
    BY <1>2, CallStays
  <2>2. \A t \in generators' : Keeps(g, V, call.colors, t)
    BY <1>2 DEF Gens
  <2> QED
    BY <2>1, <2>2 DEF Gens
<1>3. CASE FirstLeafAgain
  <2>1. mode = "classify" /\ generators' = generators \cup {Mapping(firstlab, Lab)}
    BY <1>3 DEF FirstLeafAgain, Report
  <2>2. Keeps(g, V, call.colors, Mapping(firstlab, Lab))
    BY <1>3, FirstLeafAutomorphism
  <2>3. ~ CallAgain
    BY <2>1 DEF CallAgain
  <2> QED
    BY <1>2, <2>1, <2>2, <2>3
<1>4. CASE BestLeafAgain
  <2>1. mode = "classify" /\ generators' \in {generators, generators \cup {Mapping(canonlab, Lab)}}
    BY <1>4 DEF BestLeafAgain, Report
  <2>2. Keeps(g, V, call.colors, Mapping(canonlab, Lab))
    BY <1>4, BestLeafAutomorphism
  <2>3. ~ CallAgain
    BY <2>1 DEF CallAgain
  <2> QED
    BY <1>2, <2>1, <2>2, <2>3
<1>5. CASE ~ CallAgain /\ UNCHANGED generators
  BY <1>2, <1>5
<1>6. CASE FirstPathNode \/ firstterminal \/ othernode \/ InternalNode \/ BetterLeaf \/ BadLeaf
  BY <1>5, <1>6 DEF FirstPathNode, firstterminal, othernode, InternalNode, BetterLeaf, BadLeaf,
                    autVars, CallAgain
<1>7. CASE ReturnFurther \/ NextOfFirst \/ EndOfFirst \/ NextOfOther \/ EndOfOther \/ Finish
  BY <1>5, <1>7 DEF ReturnFurther, NextOfFirst, EndOfFirst, NextOfOther, EndOfOther, Finish,
                    Back, autVars, CallAgain
<1>8. CASE UNCHANGED vars
  BY <1>1, <1>5, <1>8 DEF vars, autVars
<1> QED
  BY <1>1, <1>3, <1>4, <1>6, <1>7, <1>8 DEF Next, Terminated

-----------------------------------------------------------------------------
(* The theorem *)

Modes == mode \in {"first", "other", "classify", "back", "done"}

Nodes == NodeFine /\ FramesFine /\ Leftmost /\ LeavesFine

Typed == Modes /\ Bounded /\ Returns /\ RowsTyped /\ Compared /\ Joined /\ Workspace

SearchInv == Call /\ Path /\ RowsOfBestLeaf /\ Nodes /\ Typed /\ Gens

\* The invariant holds at the start of the first call.
LEMMA InitSearch == Init => SearchInv
<1> SUFFICES ASSUME Init PROVE SearchInv
  OBVIOUS
<1>1. RowsOfBestLeaf /\ Gens /\ Modes
  BY DEF Init, Begin, RowsOfBestLeaf, Gens, Modes
<1> QED
  BY <1>1, InitCall, InitPath, InitNodes, InitLeftmost, InitLeaves, InitBounds, InitTyped
     DEF SearchInv, Nodes, Typed

\* Every step keeps it.
LEMMA NextKeepsSearch == SearchInv /\ [Next]_vars => SearchInv'
<1> SUFFICES ASSUME SearchInv, [Next]_vars PROVE SearchInv'
  OBVIOUS
<1>1. /\ Call /\ Path /\ RowsOfBestLeaf /\ Gens
      /\ NodeFine /\ FramesFine /\ Leftmost /\ LeavesFine
      /\ Modes /\ Bounded /\ Returns /\ RowsTyped /\ Compared /\ Joined /\ Workspace
  BY DEF SearchInv, Nodes, Typed
<1>2. Graphs /\ comp_canon \in Int /\ rtnlevel \in Int
  BY <1>1 DEF Call, Compared, Returns
<1>3. Call' /\ Path' /\ RowsOfBestLeaf'
  BY <1>1, <1>2, NextKeepsCall, NextKeepsPath, NextKeepsRows
<1>4. NodeFine' /\ FramesFine'
  BY <1>1, <1>2, NextKeepsNodes
<1>5. Leftmost' /\ LeavesFine'
  BY <1>1, <1>2, NextKeepsLeftmost, NextKeepsLeaves
<1>6. Bounded' /\ Returns'
  BY <1>1, NextKeepsBounds, NextKeepsReturns
<1>7. RowsTyped' /\ Compared' /\ Joined' /\ Workspace'
  BY <1>1, NextKeepsRowsTyped, NextKeepsCompared, NextKeepsJoined, NextKeepsWorkspace
<1>8. Gens'
  BY <1>1, NextKeepsGens
<1>9. Modes'
  BY <1>1 DEF Modes, Next, CallAgain, Begin, FirstPathNode, firstterminal, othernode,
         InternalNode, FirstLeafAgain, BestLeafAgain, BetterLeaf, BadLeaf, LeaveLeaf, Return,
         ReturnFurther, NextOfFirst, EndOfFirst, NextOfOther, EndOfOther, Finish, Terminated, vars
<1> QED
  BY <1>3, <1>4, <1>5, <1>6, <1>7, <1>8, <1>9 DEF SearchInv, Nodes, Typed

\* The types of the variables, and the bounds of the stack and of the workspace.
LEMMA SearchIsTyped == SearchInv => TypeOK
<1> SUFFICES ASSUME SearchInv PROVE TypeOK
  OBVIOUS
<1>1. /\ Call /\ Path /\ NodeFine /\ FramesFine
      /\ Modes /\ Returns /\ RowsTyped /\ Compared /\ Joined /\ Workspace
  BY DEF SearchInv, Nodes, Typed
<1>2. node.p \in [V -> V]
  BY <1>1 DEF NodeFine, Refines, Positional
<1>3. Len(stack) < n
  BY <1>1, LevelsBound
<1>4. ASSUME NEW i \in DOMAIN stack
      PROVE  stack[i].tcell \subseteq V /\ stack[i].tv \in V
  <2>1. PICK f : f = stack[i]
    OBVIOUS
  <2>2. /\ Positional(V, f.p) /\ f.tc \in Nontrivial(f.p)
        /\ f.tcell \subseteq CellAt(f.p, f.tc) /\ f.tv \in V
    BY <1>1, <2>1 DEF FramesFine, GoodFrame, GoodNode, Refines
  <2>3. Numbers(n, V)
    BY <1>1 DEF Call, Graphs, Numbered, Numbers
  <2>4. CellAt(f.p, f.tc) \subseteq V
    BY <2>2, <2>3, NontrivialIs
  <2> QED
    BY <2>1, <2>2, <2>4
<1>5. Len(fixmcr) <= WorkPairs
  BY <1>1 DEF Workspace
<1> QED
  BY <1>1, <1>2, <1>3, <1>4, <1>5 DEF TypeOK, Modes, Returns, RowsTyped, Compared, Joined

\* What nauty reports as a generator is an automorphism of the coloured graph, for graphs of
\* any size, any width of the refinement code and any size of the workspace, also in a call that
\* finds what an earlier one left in the statics; and the variables have their types.  isautom
\* sees to it for leaves equivalent to the first, and for those equivalent to the best leaf
\* that their graphs are equal row by row; that colours are kept needs that all partitions
\* refine them.
THEOREM GeneratorsTheorem == Spec => []GeneratorsAreAutomorphisms
<1>1. SearchInv => GeneratorsAreAutomorphisms
  <2> SUFFICES ASSUME SearchInv PROVE GeneratorsAreAutomorphisms
    OBVIOUS
  <2>1. ASSUME NEW s \in generators PROVE Contract!IsAutomorphism(Input, s)
    BY AutomorphismIs DEF SearchInv, Gens, Keeps
  <2> QED
    BY <2>1, SearchIsTyped DEF GeneratorsAreAutomorphisms
<1> QED
  BY <1>1, InitSearch, NextKeepsSearch, PTL DEF Spec

\* The labelling returned.
LabellingReturned == mode = "done" => Contract!IsLabelling(Input, Positions)

\* nauty returns a permutation of the vertices that keeps the order of their colours.
THEOREM LabellingTheorem == Spec => []LabellingReturned
<1>1. SearchInv => LabellingReturned
  <2> SUFFICES ASSUME SearchInv, mode = "done" PROVE Contract!IsLabelling(Input, Positions)
    BY DEF LabellingReturned
  <2>1. Call /\ LeavesFine
    BY DEF SearchInv, Nodes
  <2>2. PICK q : /\ Refines(V, q, call.colors) /\ Positional(V, q) /\ Discrete(q)
                 /\ canonlab = LabOf(q)
    BY <2>1, LeafOf DEF LeavesFine
  <2>3. Numbered /\ Numbers(n, V)
    BY <2>1 DEF Call, Graphs, Numbered, Numbers
  <2>4. PICK lab : lab = LabOf(q)
    OBVIOUS
  <2>5. /\ \A i \in V : lab[i] \in V /\ q[lab[i]] = i
        /\ \A v \in V : q[v] \in V /\ lab[q[v]] = v
    BY <2>2, <2>3, <2>4, LabIs
  <2>6. PICK s : s = Positions
    OBVIOUS
  <2>7. s = [v \in V |-> CHOOSE i \in V : lab[i] = v]
    BY <2>2, <2>4, <2>6 DEF Positions
  <2>8. ASSUME NEW v \in V PROVE (CHOOSE i \in V : lab[i] = v) = q[v]
    <3>1. \E i \in V : lab[i] = v
      BY <2>5
    <3>2. \A i \in V : lab[i] = v => i = q[v]
      BY <2>5
    <3> QED
      BY <3>1, <3>2
  <2>9. DOMAIN s = V /\ \A v \in V : s[v] = q[v]
    BY <2>7, <2>8
  <2>10. {s[v] : v \in V} = V
    <3>1. \A v \in V : s[v] \in V
      BY <2>5, <2>9
    <3>2. \A i \in V : \E v \in V : s[v] = i
      BY <2>5, <2>9
    <3> QED
      BY <3>1, <3>2
  <2>11. \A v, w \in V : call.colors[v] < call.colors[w] => s[v] < s[w]
    BY <2>2, <2>9 DEF Refines, KeepsOrder
  <2>12. DOMAIN Input.g = V /\ Input.colors = call.colors
    BY DEF Input, V, Vertices
  <2> QED
    BY <2>6, <2>9, <2>10, <2>11, <2>12 DEF Contract!IsLabelling
<1> QED
  BY <1>1, InitSearch, NextKeepsSearch, PTL DEF Spec

-----------------------------------------------------------------------------
(* The orbits *)

\* f does not tell a vertex from its image.
KeptBy(f, s) == \A v \in V : f[s[v]] = f[v]

\* What one step of orbjoin makes of the orbits: they only grow, by one pair and by no more than
\* what everything that keeps the old orbits and the pair together keeps together.
LEMMA MergeJoins ==
  ASSUME Numbered, NEW orb \in [V -> V], NEW map \in [V -> V], NEW k, k - 1 \in V,
         NEW q, q = Merge(orb, map, k)
  PROVE  /\ \A u, v \in V : orb[u] = orb[v] => q[u] = q[v]
         /\ q[map[k - 1]] = q[k - 1]
         /\ (\A v \in V : orb[v] <= v) => \A v \in V : q[v] <= v
         /\ \A f : KeptBy(f, orb) /\ f[map[k - 1]] = f[k - 1] => KeptBy(f, q)
<1>1. PICK u \in V, w \in V : u = k - 1 /\ w = map[k - 1]
  OBVIOUS
<1>2. PICK a \in V, b \in V : a = orb[u] /\ b = orb[w]
  OBVIOUS
<1>3. PICK c : c = Min({a, b})
  OBVIOUS
<1>4. V \subseteq Nat
  BY DEF Numbered
<1>5. c \in {a, b} /\ c <= a /\ c <= b
  <2>1. {a, b} \in SUBSET Nat
    BY <1>4
  <2> QED
    BY <1>3, <2>1, MinIn
<1>6. q = [v \in V |-> IF orb[v] \in {a, b} THEN c ELSE orb[v]]
  BY <1>1, <1>2, <1>3, Zenon DEF Merge
<1>7. \A v \in V : orb[v] \in V /\ q[v] = IF orb[v] \in {a, b} THEN c ELSE orb[v]
  BY <1>6
<1>8. \A x, v \in V : orb[x] = orb[v] => q[x] = q[v]
  BY <1>7
<1>9. q[w] = q[u]
  BY <1>2, <1>7
<1>10. ASSUME \A v \in V : orb[v] <= v, NEW v \in V PROVE q[v] <= v
  <2>1. orb[v] \in Nat /\ v \in Nat /\ c \in Nat
    BY <1>4, <1>5
  <2> QED
    BY <1>5, <1>7, <1>10, <2>1
<1>11. ASSUME NEW f, KeptBy(f, orb), f[w] = f[u], NEW v \in V PROVE f[q[v]] = f[v]
  BY <1>2, <1>5, <1>7, <1>11 DEF KeptBy
<1> QED
  BY <1>1, <1>8, <1>9, <1>10, <1>11 DEF KeptBy

\* orbjoin: the orbits grow to what has every vertex together with its image, and to no more.
LEMMA orbjoinJoins ==
  ASSUME Numbered, NEW orb \in [V -> V], NEW map \in [V -> V], NEW q, q = orbjoin(orb, map)
  PROVE  /\ \A u, v \in V : orb[u] = orb[v] => q[u] = q[v]
         /\ KeptBy(q, map)
         /\ (\A v \in V : orb[v] <= v) => \A v \in V : q[v] <= v
         /\ \A f : KeptBy(f, orb) /\ KeptBy(f, map) => KeptBy(f, q)
<1> DEFINE Good(h, j) ==
             /\ h \in [V -> V]
             /\ \A u, v \in V : orb[u] = orb[v] => h[u] = h[v]
             /\ \A v \in V : v < j => h[map[v]] = h[v]
             /\ (\A v \in V : orb[v] <= v) => \A v \in V : h[v] <= v
             /\ \A f : KeptBy(f, orb) /\ KeptBy(f, map) => KeptBy(f, h)
<1>1. n \in Nat /\ V = 0 .. n - 1
  BY DEF Numbered
<1>2. PICK e : Joins(e, orb, map, n) /\ q = e[n]
  BY orbjoinRuns
<1>3. \A j \in 0 .. n : e[j] = IF j = 0 THEN orb ELSE Merge(e[j - 1], map, j)
  BY <1>2, Zenon DEF Joins
<1>4. Good(orb, 0)
  <2>1. \A v \in V : ~ v < 0
    BY <1>1
  <2> QED
    BY <2>1
<1>5. ASSUME NEW j \in 0 .. n, j # 0, NEW o, Good(o, j - 1)
      PROVE  Good(Merge(o, map, j), j)
  <2>1. j - 1 \in V
    BY <1>1, <1>5
  <2>2. PICK h : h = Merge(o, map, j)
    OBVIOUS
  <2>3. h \in [V -> V]
    BY <1>5, <2>1, <2>2, MergeTyped
  <2>4. /\ \A u, v \in V : o[u] = o[v] => h[u] = h[v]
        /\ h[map[j - 1]] = h[j - 1]
        /\ (\A v \in V : o[v] <= v) => \A v \in V : h[v] <= v
        /\ \A f : KeptBy(f, o) /\ f[map[j - 1]] = f[j - 1] => KeptBy(f, h)
    BY <1>5, <2>1, <2>2, MergeJoins
  <2>5. \A u, v \in V : orb[u] = orb[v] => h[u] = h[v]
    BY <1>5, <2>4
  <2>6. ASSUME NEW v \in V, v < j PROVE h[map[v]] = h[v]
    <3>1. map[v] \in V
      OBVIOUS
    <3>2. v = j - 1 \/ v < j - 1
      BY <1>1, <2>6
    <3>3. CASE v = j - 1
      BY <2>4, <3>3
    <3>4. CASE v < j - 1
      <4>1. o[map[v]] = o[v]
        BY <1>5, <3>4
      <4> QED
        BY <2>4, <3>1, <4>1
    <3> QED
      BY <3>2, <3>3, <3>4
  <2>7. (\A v \in V : orb[v] <= v) => \A v \in V : h[v] <= v
    BY <1>5, <2>4
  <2>8. ASSUME NEW f, KeptBy(f, orb), KeptBy(f, map) PROVE KeptBy(f, h)
    <3>1. KeptBy(f, o)
      BY <1>5, <2>8
    <3>2. f[map[j - 1]] = f[j - 1]
      BY <2>1, <2>8 DEF KeptBy
    <3> QED
      BY <2>4, <3>1, <3>2
  <2>9. Good(h, j)
    BY <2>3, <2>5, <2>6, <2>7, <2>8
  <2> QED
    BY <2>2, <2>9
<1> DEFINE T == {j \in 0 .. n : ~ Good(e[j], j)}
<1>6. T = {}
  <2> SUFFICES ASSUME T # {} PROVE FALSE
    OBVIOUS
  <2>1. PICK j \in T : \A y \in T : j <= y
    <3>1. T \in SUBSET Nat
      BY <1>1
    <3> HIDE DEF T
    <3> QED
      BY <3>1, Least
  <2>2. j \in 0 .. n /\ ~ Good(e[j], j)
    BY <2>1
  <2>3. j # 0
    BY <1>3, <1>4, <2>2
  <2>4. j - 1 \in 0 .. n /\ ~ j <= j - 1
    <3> HIDE DEF T
    <3> QED
      BY <1>1, <2>2, <2>3
  <2>5. Good(e[j - 1], j - 1)
    BY <2>1, <2>4
  <2>6. e[j] = Merge(e[j - 1], map, j)
    BY <1>3, <2>2, <2>3
  <2> HIDE DEF Good
  <2>7. Good(e[j], j)
    BY <1>5, <2>2, <2>3, <2>5, <2>6
  <2> QED
    BY <2>2, <2>7
<1>7. Good(q, n)
  <2>1. n \in 0 .. n
    BY <1>1
  <2> HIDE DEF Good
  <2> QED
    BY <1>2, <1>6, <2>1
<1>8. \A v \in V : v < n
  BY <1>1
<1> QED
  BY <1>7, <1>8 DEF KeptBy

\* Orbits that grow and stay as many are the same: a permutation that joins nothing had its
\* vertices together before.
LEMMA SameNumber ==
  ASSUME Numbered, NEW orb \in [V -> V], NEW q \in [V -> V],
         \A u, v \in V : orb[u] = orb[v] => q[u] = q[v],
         NumOrbits(q) = NumOrbits(orb)
  PROVE  \A u, v \in V : q[u] = q[v] => orb[u] = orb[v]
<1> DEFINE S == {orb[v] : v \in V}
           T == {q[v] : v \in V}
           F == [x \in S |-> q[CHOOSE v \in V : orb[v] = x]]
<1>1. IsFiniteSet(V)
  BY FS_Interval DEF Numbered
<1>2. IsFiniteSet(S)
  <2>1. orb \in Surjection(V, S)
    BY DEF Surjection
  <2> HIDE DEF S
  <2> QED
    BY <1>1, <2>1, FS_Surjection
<1>3. Cardinality(T) = Cardinality(S)
  BY DEF NumOrbits
<1>4. ASSUME NEW v \in V PROVE orb[v] \in S /\ q[v] \in T /\ F[orb[v]] = q[v]
  <2>1. orb[v] \in S /\ q[v] \in T
    OBVIOUS
  <2>2. PICK u : u = CHOOSE w \in V : orb[w] = orb[v]
    OBVIOUS
  <2>3. u \in V /\ orb[u] = orb[v]
    BY <2>2
  <2>4. F[orb[v]] = q[u]
    BY <2>1, <2>2
  <2> QED
    BY <2>1, <2>3, <2>4
<1>5. F \in Surjection(S, T)
  <2>1. \A x \in S : F[x] \in T
    BY <1>4
  <2>2. F \in [S -> T]
    <3>1. F = [x \in S |-> F[x]]
      OBVIOUS
    <3> HIDE DEF F, S, T
    <3> QED
      BY <2>1, <3>1
  <2>3. \A y \in T : \E x \in S : F[x] = y
    <3> SUFFICES ASSUME NEW y \in T PROVE \E x \in S : F[x] = y
      OBVIOUS
    <3>1. PICK v \in V : y = q[v]
      OBVIOUS
    <3>2. orb[v] \in S /\ F[orb[v]] = y
      BY <1>4, <3>1
    <3> QED
      BY <3>2
  <2> HIDE DEF F, S, T
  <2> QED
    BY <2>2, <2>3 DEF Surjection
<1>6. F \in Injection(S, T)
  <2> HIDE DEF F, S, T
  <2> QED
    BY <1>2, <1>3, <1>5, FS_SurjSameCardinalityImpliesInj
<1> SUFFICES ASSUME NEW u \in V, NEW v \in V, q[u] = q[v] PROVE orb[u] = orb[v]
  OBVIOUS
<1>7. F[orb[u]] = F[orb[v]] /\ orb[u] \in S /\ orb[v] \in S
  BY <1>4
<1> HIDE DEF F, S, T
<1> QED
  BY <1>6, <1>7 DEF Injection, IsInjective

\* The orbits of what is reported: every orbit has its least vertex for a representative, all
\* generators keep the orbits, and whatever all of them keep, the orbits do.
OrbitsAre(orb, gens) ==
  /\ \A v \in V : orb[v] <= v
  /\ \A s \in gens : KeptBy(orb, s)
  /\ \A f : (\A s \in gens : KeptBy(f, s)) => KeptBy(f, orb)

OrbitsOfGenerators ==
  /\ OrbitsAre(orbits, generators)
  /\ stats.numorbits = NumOrbits(orbits)

Counters == "numorbits" \in DOMAIN stats

\* An automorphism that is reported is joined.
LEMMA JoinReported ==
  ASSUME Numbered, NEW orb \in [V -> V], NEW gens, \A t \in gens : Permutes(V, t),
         OrbitsAre(orb, gens), NEW s \in [V -> V]
  PROVE  OrbitsAre(orbjoin(orb, s), gens \cup {s})
<1>1. PICK q : q = orbjoin(orb, s)
  OBVIOUS
<1>2. /\ \A u, v \in V : orb[u] = orb[v] => q[u] = q[v]
      /\ KeptBy(q, s)
      /\ (\A v \in V : orb[v] <= v) => \A v \in V : q[v] <= v
      /\ \A f : KeptBy(f, orb) /\ KeptBy(f, s) => KeptBy(f, q)
  BY <1>1, orbjoinJoins
<1>3. ASSUME NEW t \in gens PROVE KeptBy(q, t)
  BY <1>2 DEF OrbitsAre, KeptBy, Permutes
<1>4. ASSUME NEW f, \A t \in gens \cup {s} : KeptBy(f, t) PROVE KeptBy(f, q)
  BY <1>2, <1>4 DEF OrbitsAre
<1> QED
  BY <1>1, <1>2, <1>3, <1>4 DEF OrbitsAre

\* One that is left out, because as many orbits are left, keeps them as they were.
LEMMA JoinLeftOut ==
  ASSUME Numbered, NEW orb \in [V -> V], NEW gens, \A t \in gens : Permutes(V, t),
         OrbitsAre(orb, gens), NEW s \in [V -> V],
         NumOrbits(orbjoin(orb, s)) = NumOrbits(orb)
  PROVE  OrbitsAre(orbjoin(orb, s), gens)
<1>1. PICK q : q = orbjoin(orb, s)
  OBVIOUS
<1>2. /\ \A u, v \in V : orb[u] = orb[v] => q[u] = q[v]
      /\ KeptBy(q, s)
      /\ \A f : KeptBy(f, orb) /\ KeptBy(f, s) => KeptBy(f, q)
  BY <1>1, orbjoinJoins
<1>3. \A u, v \in V : q[u] = q[v] => orb[u] = orb[v]
  <2>1. q \in [V -> V] /\ NumOrbits(q) = NumOrbits(orb)
    BY <1>1, orbjoinTyped
  <2> QED
    BY <1>2, <2>1, SameNumber
<1>4. OrbitsAre(q, gens \cup {s})
  BY <1>1, JoinReported
<1>5. KeptBy(orb, s)
  BY <1>2, <1>3 DEF KeptBy
<1>6. ASSUME NEW f, \A t \in gens : KeptBy(f, t) PROVE KeptBy(f, q)
  <2>1. KeptBy(f, orb)
    BY <1>6 DEF OrbitsAre
  <2>2. KeptBy(f, s)
    <3> SUFFICES ASSUME NEW v \in V PROVE f[s[v]] = f[v]
      BY DEF KeptBy
    <3>1. PICK w \in V : w = s[v]
      OBVIOUS
    <3>2. orb[w] = orb[v] /\ f[orb[w]] = f[w] /\ f[orb[v]] = f[v]
      BY <1>5, <2>1, <3>1 DEF KeptBy
    <3> QED
      BY <3>1, <3>2
  <2> QED
    BY <1>2, <2>1, <2>2
<1>7. \A v \in V : q[v] <= v
  BY <1>4 DEF OrbitsAre
<1>8. \A t \in gens : KeptBy(q, t)
  BY <1>4 DEF OrbitsAre
<1> QED
  BY <1>1, <1>6, <1>7, <1>8 DEF OrbitsAre

\* With nothing reported every vertex is its orbit.
LEMMA SingleOrbits ==
  ASSUME Numbered, NEW orb, orb = [v \in V |-> v]
  PROVE  OrbitsAre(orb, {}) /\ NumOrbits(orb) = n
<1>1. \A v \in V : orb[v] = v /\ v <= v
  BY DEF Numbered
<1>2. {orb[v] : v \in V} = V
  BY <1>1
<1>3. NumOrbits(orb) = n
  BY <1>2 DEF NumOrbits, n
<1>4. \A f : KeptBy(f, orb)
  BY <1>1 DEF KeptBy
<1> QED
  BY <1>1, <1>3, <1>4 DEF OrbitsAre

\* The first call begins with single vertices.
LEMMA InitOrbits == Init => OrbitsOfGenerators /\ Counters
<1> SUFFICES ASSUME Init PROVE OrbitsOfGenerators /\ Counters
  OBVIOUS
<1>1. PICK in \in Inputs, rep \in Reps, bits \in HashBits :
        LET a == Args(in, rep, bits)
        IN  call = a /\ orbits = Begin(a).orbits /\ stats = Begin(a).stats
  BY DEF Init
<1>2. PICK a : a = Args(in, rep, bits)
  OBVIOUS
<1>3. generators = {}
  BY DEF Init
<1>4. V = DOMAIN a.g
  BY <1>1, <1>2 DEF V, Vertices, g
<1>5. Numbered
  BY InitCall DEF Call, Graphs
<1>6. orbits = [v \in V |-> v] /\ stats.numorbits = n /\ Counters
  BY <1>1, <1>2, <1>4 DEF Begin, Counters, n
<1> QED
  BY <1>3, <1>5, <1>6, SingleOrbits DEF OrbitsOfGenerators

\* Every step keeps the orbits those of the generators: an automorphism of the best leaf is not
\* reported only when the number of orbits stays.
LEMMA NextKeepsOrbits ==
  ASSUME SearchInv, OrbitsOfGenerators, Counters, [Next]_vars
  PROVE  OrbitsOfGenerators' /\ Counters'
<1>1. /\ Call /\ Path /\ NodeFine /\ LeavesFine /\ Leftmost /\ Numbered
      /\ orbits \in [V -> V] /\ \A t \in generators : Permutes(V, t)
  BY DEF SearchInv, Nodes, Typed, Call, Graphs, Joined, Gens, Keeps
<1>2. Call'
  BY NextKeepsCall DEF SearchInv
<1>3. CASE CallAgain
  <2>1. PICK s : LET a == Args(Renamed([g |-> g, colors |-> call.colors], s), call.rep, call.bits)
                 IN  call' = a /\ orbits' = Begin(a).orbits /\ stats' = Begin(a).stats
    BY <1>3 DEF CallAgain
  <2>2. PICK a : a = call'
    OBVIOUS
  <2>3. generators' = {}
    BY <1>3 DEF CallAgain
  <2>4. V' = DOMAIN a.g
    BY <2>2 DEF V, Vertices, g
  <2>5. V' = V /\ n' = n
    BY <1>1, <1>3, CallAgainKeeps
  <2>6. orbits' = [v \in V |-> v]
    BY <2>1, <2>2, <2>4, <2>5 DEF Begin
  <2>7. OrbitsAre(orbits', {}) /\ NumOrbits(orbits') = n
    BY <1>1, <2>6, SingleOrbits
  <2>8. stats'.numorbits = n /\ Counters'
    BY <2>1, <2>2, <2>4, <2>5 DEF Begin, Counters, n
  <2> QED
    BY <2>3, <2>5, <2>7, <2>8 DEF OrbitsOfGenerators, OrbitsAre, KeptBy, NumOrbits
<1>4. ASSUME ~ CallAgain, OrbitsAre(orbits', generators'), Counters',
             stats'.numorbits = NumOrbits(orbits')
      PROVE  OrbitsOfGenerators' /\ Counters'
  <2>1. V' = V
    BY <1>4, CallStays
  <2> QED
    BY <1>4, <2>1 DEF OrbitsOfGenerators, OrbitsAre, KeptBy, NumOrbits
<1>5. ASSUME ~ CallAgain, NEW s \in [V -> V], Join(s), Report(s)
      PROVE  OrbitsOfGenerators' /\ Counters'
  <2>1. orbits' = orbjoin(orbits, s) /\ generators' = generators \cup {s}
    BY <1>5 DEF Join, Report
  <2>2. OrbitsAre(orbits', generators')
    BY <1>1, <2>1, JoinReported DEF OrbitsOfGenerators
  <2>3. stats'.numorbits = NumOrbits(orbits') /\ Counters'
    BY <1>5 DEF Report, Counters
  <2> QED
    BY <1>4, <1>5, <2>2, <2>3
<1>6. CASE FirstLeafAgain
  <2>1. ~ CallAgain /\ IsLeaf /\ Join(Mapping(firstlab, Lab)) /\ Report(Mapping(firstlab, Lab))
    BY <1>6 DEF FirstLeafAgain, CallAgain
  <2>2. Mapping(firstlab, Lab) \in [V -> V]
    BY <1>1, <1>6, LeafMapping DEF FirstLeafAgain, LeavesFine
  <2> QED
    BY <1>5, <2>1, <2>2
<1>7. CASE BestLeafAgain
  <2>1. PICK s : s = Mapping(canonlab, Lab)
    OBVIOUS
  <2>2. /\ ~ CallAgain /\ IsLeaf /\ Join(s)
        /\ IF JoinsNothing THEN UNCHANGED <<generators, stats>> ELSE Report(s)
    BY <1>7, <2>1 DEF BestLeafAgain, CallAgain
  <2>3. s \in [V -> V]
    BY <1>1, <1>7, <2>1, LeafMapping DEF BestLeafAgain, LeavesFine
  <2>4. CASE JoinsNothing
    <3>1. orbits' = orbjoin(orbits, s) /\ UNCHANGED <<generators, stats>>
      BY <2>2, <2>4 DEF Join
    <3>2. NumOrbits(orbits') = NumOrbits(orbits)
      BY <2>4 DEF JoinsNothing, OrbitsOfGenerators
    <3>3. OrbitsAre(orbits', generators')
      BY <1>1, <2>3, <3>1, <3>2, JoinLeftOut DEF OrbitsOfGenerators
    <3>4. stats'.numorbits = NumOrbits(orbits') /\ Counters'
      BY <3>1, <3>2 DEF OrbitsOfGenerators, Counters
    <3> QED
      BY <1>4, <2>2, <3>3, <3>4
  <2>5. CASE ~ JoinsNothing
    BY <1>5, <2>2, <2>3, <2>5
  <2> QED
    BY <2>4, <2>5
<1>8. ASSUME ~ CallAgain, UNCHANGED <<orbits, generators>>, Counters',
             stats'.numorbits = stats.numorbits
      PROVE  OrbitsOfGenerators' /\ Counters'
  BY <1>4, <1>8 DEF OrbitsOfGenerators
<1>9. CASE FirstPathNode \/ firstterminal \/ othernode \/ InternalNode \/ BetterLeaf \/ BadLeaf
  BY <1>8, <1>9 DEF FirstPathNode, firstterminal, othernode, InternalNode, BetterLeaf, BadLeaf,
                    autVars, CallAgain, Counters
<1>10. CASE ReturnFurther \/ NextOfFirst \/ NextOfOther \/ EndOfOther \/ Finish
  BY <1>8, <1>10 DEF ReturnFurther, NextOfFirst, NextOfOther, EndOfOther, Finish,
                     Back, autVars, CallAgain, Counters
<1>11. CASE EndOfFirst
  <2>1. PICK x : stats' = [stats EXCEPT !.grpsize = x]
    BY <1>11 DEF EndOfFirst
  <2>2. stats'.numorbits = stats.numorbits /\ Counters'
    BY <2>1 DEF Counters
  <2>3. ~ CallAgain /\ UNCHANGED <<orbits, generators>>
    BY <1>11 DEF EndOfFirst, Back, CallAgain, autVars
  <2> QED
    BY <1>8, <2>2, <2>3
<1>12. CASE UNCHANGED vars
  BY <1>3, <1>8, <1>12 DEF vars, autVars, Counters
<1> QED
  BY <1>3, <1>6, <1>7, <1>9, <1>10, <1>11, <1>12 DEF Next, Terminated

\* The orbits that the search prunes with, at every point of it, are exactly those of the
\* generators reported so far, with their least vertices, and stats counts them: no equivalence
\* is lost by leaving out an automorphism that joins nothing, and none is claimed that
\* the generators do not give.
THEOREM OrbitsTheorem == Spec => []OrbitsOfGenerators
<1>1. Init => SearchInv /\ OrbitsOfGenerators /\ Counters
  BY InitSearch, InitOrbits
<1>2. /\ SearchInv /\ OrbitsOfGenerators /\ Counters /\ [Next]_vars
      => SearchInv' /\ OrbitsOfGenerators' /\ Counters'
  BY NextKeepsSearch, NextKeepsOrbits
<1> QED
  BY <1>1, <1>2, PTL DEF Spec

-----------------------------------------------------------------------------
(* The orbits are those of automorphisms *)

\* Arcs are mapped to arcs, and only arcs.
LEMMA ArcsBoth ==
  ASSUME NEW U, NEW h, IsGraph(h, U), NEW s, Permutes(U, s), ArcsAre(h, U, s)
  PROVE  \A v, w \in U : w \in h[v] <=> s[w] \in h[s[v]]
<1> SUFFICES ASSUME NEW v \in U, NEW w \in U PROVE w \in h[v] <=> s[w] \in h[s[v]]
  OBVIOUS
<1>1. h[s[v]] = {s[x] : x \in h[v]} /\ h[v] \subseteq U
  BY DEF ArcsAre, IsGraph
<1>2. \A x \in U : s[x] = s[w] => x = w
  BY DEF Permutes
<1> QED
  BY <1>1, <1>2

\* The automorphisms are a group: what moves nothing.
LEMMA Identity ==
  ASSUME NEW U, NEW h, IsGraph(h, U), NEW c, NEW s, s = [v \in U |-> v]
  PROVE  Keeps(h, U, c, s)
<1>1. \A v \in U : s[v] = v
  OBVIOUS
<1>2. ASSUME NEW v \in U PROVE h[s[v]] = {s[w] : w \in h[v]}
  <2>1. \A w \in h[v] : s[w] = w
    BY <1>1 DEF IsGraph
  <2>2. {s[w] : w \in h[v]} = h[v]
    BY <2>1
  <2> QED
    BY <1>1, <2>2
<1> QED
  BY <1>1, <1>2 DEF Keeps, Permutes, ArcsAre

\* What two automorphisms give one after the other.
LEMMA Composition ==
  ASSUME NEW U, NEW h, IsGraph(h, U), NEW c, NEW s, Keeps(h, U, c, s), NEW t, Keeps(h, U, c, t),
         NEW r, r = [v \in U |-> s[t[v]]]
  PROVE  Keeps(h, U, c, r)
<1>1. Permutes(U, s) /\ ArcsAre(h, U, s) /\ \A v \in U : c[s[v]] = c[v]
  BY DEF Keeps
<1>2. Permutes(U, t) /\ ArcsAre(h, U, t) /\ \A v \in U : c[t[v]] = c[v]
  BY DEF Keeps
<1>3. \A v \in U : t[v] \in U /\ s[v] \in U /\ r[v] = s[t[v]]
  BY <1>1, <1>2 DEF Permutes
<1>4. Permutes(U, r)
  <2>1. \A v \in U : r[v] \in U
    BY <1>3
  <2>2. \A u, v \in U : r[u] = r[v] => u = v
    BY <1>1, <1>2, <1>3 DEF Permutes
  <2>3. ASSUME NEW w \in U PROVE \E v \in U : r[v] = w
    <3>1. PICK x \in U : s[x] = w
      BY <1>1 DEF Permutes
    <3>2. PICK v \in U : t[v] = x
      BY <1>2 DEF Permutes
    <3> QED
      BY <1>3, <3>1, <3>2
  <2> QED
    BY <2>1, <2>2, <2>3 DEF Permutes
<1>5. ASSUME NEW v \in U PROVE h[r[v]] = {r[w] : w \in h[v]}
  <2>1. PICK u \in U : u = t[v]
    BY <1>3
  <2>2. h[u] = {t[w] : w \in h[v]} /\ h[s[u]] = {s[x] : x \in h[u]}
    BY <1>1, <1>2, <2>1 DEF ArcsAre
  <2>3. \A w \in h[v] : r[w] = s[t[w]]
    BY <1>3 DEF IsGraph
  <2>4. {s[x] : x \in h[u]} = {r[w] : w \in h[v]}
    BY <2>2, <2>3
  <2> QED
    BY <1>3, <2>1, <2>2, <2>4
<1>6. \A v \in U : c[r[v]] = c[v]
  BY <1>1, <1>2, <1>3
<1> QED
  BY <1>4, <1>5, <1>6 DEF Keeps, ArcsAre

\* What undoes one.
LEMMA Reversal ==
  ASSUME NEW U, NEW h, IsGraph(h, U), NEW c, NEW t, Keeps(h, U, c, t)
  PROVE  \E r \in [U -> U] : Keeps(h, U, c, r) /\ \A v \in U : r[t[v]] = v /\ t[r[v]] = v
<1>1. Permutes(U, t) /\ ArcsAre(h, U, t) /\ \A v \in U : c[t[v]] = c[v]
  BY DEF Keeps
<1>2. PICK r : r = [w \in U |-> CHOOSE v \in U : t[v] = w]
  OBVIOUS
<1>3. ASSUME NEW w \in U PROVE r[w] \in U /\ t[r[w]] = w
  <2>1. \E v \in U : t[v] = w
    BY <1>1 DEF Permutes
  <2>2. r[w] = CHOOSE v \in U : t[v] = w
    BY <1>2
  <2> QED
    BY <2>1, <2>2
<1>4. ASSUME NEW v \in U PROVE t[v] \in U /\ r[t[v]] = v
  <2>1. t[v] \in U /\ \A x \in U : t[x] = t[v] => x = v
    BY <1>1 DEF Permutes
  <2> QED
    BY <1>3, <2>1
<1>5. r \in [U -> U]
  BY <1>2, <1>3
<1>6. Permutes(U, r)
  <2>1. \A u, v \in U : r[u] = r[v] => u = v
    BY <1>3
  <2>2. \A w \in U : \E v \in U : r[v] = w
    BY <1>4
  <2> QED
    BY <1>3, <2>1, <2>2 DEF Permutes
<1>7. ASSUME NEW v \in U PROVE h[r[v]] = {r[w] : w \in h[v]}
  <2>1. PICK u \in U : u = r[v] /\ t[u] = v
    BY <1>3
  <2>2. h[v] = {t[w] : w \in h[u]} /\ h[u] \subseteq U
    BY <1>1, <2>1 DEF ArcsAre, IsGraph
  <2>3. \A w \in h[u] : r[t[w]] = w
    BY <1>4, <2>2
  <2>4. {r[w] : w \in h[v]} = h[u]
    BY <2>2, <2>3
  <2> QED
    BY <2>1, <2>4
<1>8. \A v \in U : c[r[v]] = c[v]
  <2> TAKE v \in U
  <2>1. c[t[r[v]]] = c[r[v]]
    BY <1>1, <1>3
  <2> QED
    BY <1>3, <2>1
<1>9. Keeps(h, U, c, r)
  BY <1>6, <1>7, <1>8 DEF Keeps, ArcsAre
<1> QED
  BY <1>3, <1>4, <1>5, <1>9

-----------------------------------------------------------------------------
(* The automorphisms of the contract *)

\* w may be the image of v, when s has those of the vertices before v.
MayMap(a, s, v, w) ==
  /\ a.colors[v] = a.colors[w]
  /\ v \in a.g[v] <=> w \in a.g[w]
  /\ \A u \in 0 .. v - 1 :
         /\ s[u + 1] # w
         /\ u \in a.g[v] <=> s[u + 1] \in a.g[w]
         /\ v \in a.g[u] <=> w \in a.g[s[u + 1]]

\* The sequences of P with the image of one more vertex.
OneMore(a, P, k) ==
  UNION {{Append(s, w) : w \in {x \in DOMAIN a.g : MayMap(a, s, k - 1, x)}} : s \in P}

\* f is the function Partial of Isomorphisms for the first k vertices.
Images(f, a, k) == f = [j \in 0 .. k |-> IF j = 0 THEN {<<>>} ELSE OneMore(a, f[j - 1], j)]

\* Partial, vertex by vertex, is a function.
LEMMA ImagesExist ==
  ASSUME NEW a, NEW k \in Nat
  PROVE  \E f : Images(f, a, k)
<1> DEFINE T == {j \in Nat : ~ \E f : Images(f, a, j)}
<1> SUFFICES ASSUME T # {} PROVE FALSE
  OBVIOUS
<1>1. PICK m \in T : \A y \in T : m <= y
  BY Least
<1>2. CASE m = 0
  <2> DEFINE f == [j \in 0 .. 0 |-> {<<>>}]
  <2>1. f = [j \in 0 .. m |-> IF j = 0 THEN {<<>>} ELSE OneMore(a, f[j - 1], j)]
    BY <1>2
  <2> QED
    BY <1>1, <2>1, Zenon DEF Images
<1>3. CASE m # 0
  <2>1. m - 1 \in Nat /\ m - 1 \notin T
    BY <1>1, <1>3
  <2>2. PICK f : f = [j \in 0 .. m - 1 |-> IF j = 0 THEN {<<>>} ELSE OneMore(a, f[j - 1], j)]
    BY <2>1, Zenon DEF Images
  <2> DEFINE e == [j \in 0 .. m |-> IF j = m THEN OneMore(a, f[m - 1], m) ELSE f[j]]
  <2>3. \A j \in 0 .. m : e[j] = IF j = 0 THEN {<<>>} ELSE OneMore(a, e[j - 1], j)
    <3> TAKE j \in 0 .. m
    <3>1. CASE j = m
      BY <1>1, <1>3, <3>1
    <3>2. CASE j # m
      <4>1. j \in 0 .. m - 1
        BY <1>1, <3>2
      <4>2. f[j] = IF j = 0 THEN {<<>>} ELSE OneMore(a, f[j - 1], j)
        BY <2>2, <4>1
      <4> QED
        BY <4>1, <4>2
    <3> QED
      BY <3>1, <3>2
  <2>4. e = [j \in 0 .. m |-> IF j = 0 THEN {<<>>} ELSE OneMore(a, e[j - 1], j)]
    BY <2>3
  <2> HIDE DEF e
  <2> QED
    BY <1>1, <2>4, Zenon DEF Images
<1> QED
  BY <1>2, <1>3

\* The automorphisms of the contract are its last value.
LEMMA AutomorphismsAre ==
  ASSUME NEW a, Cardinality(DOMAIN a.g) \in Nat
  PROVE  \E f : /\ Images(f, a, Cardinality(DOMAIN a.g))
                /\ Contract!Automorphisms(a) = f[Cardinality(DOMAIN a.g)]
<1> DEFINE m == Cardinality(DOMAIN a.g)
           Fits(s, v, w) ==
             /\ a.colors[v] = a.colors[w]
             /\ v \in a.g[v] <=> w \in a.g[w]
             /\ \A u \in 0 .. v - 1 :
                    /\ s[u + 1] # w
                    /\ u \in a.g[v] <=> s[u + 1] \in a.g[w]
                    /\ v \in a.g[u] <=> w \in a.g[s[u + 1]]
           G(f) == [k \in 0 .. m |->
                      IF k = 0 THEN {<<>>}
                      ELSE UNION {{Append(s, w) : w \in {x \in DOMAIN a.g : Fits(s, k - 1, x)}}
                                  : s \in f[k - 1]}]
           f == CHOOSE f : f = G(f)
<1>1. \A e : e = G(e) <=> Images(e, a, m)
  BY Zenon DEF Images, OneMore, MayMap
<1>2. Contract!Automorphisms(a) = f[m]
  <2>1. Contract!Cardinality(DOMAIN a.g) = m
    BY DEF Contract!Cardinality, Cardinality
  <2> QED
    BY <2>1, Zenon DEF Contract!Automorphisms, Contract!Isomorphisms
<1>3. Images(f, a, m)
  <2>1. \E e : e = G(e)
    BY <1>1, ImagesExist
  <2> HIDE DEF G
  <2>2. f = G(f)
    BY <2>1, Zenon
  <2> QED
    BY <1>1, <2>2
<1> QED
  BY <1>2, <1>3

\* Every automorphism is among them.
LEMMA IsInAutomorphisms ==
  ASSUME Numbered, IsGraph(g, V), NEW s \in [V -> V], Keeps(g, V, call.colors, s)
  PROVE  \E t \in Contract!Automorphisms(Input) : \A v \in V : t[v + 1] = s[v]
<1> DEFINE First(j) == [i \in 1 .. j |-> s[i - 1]]
<1>1. PICK a : a = Input
  OBVIOUS
<1>2. a.g = g /\ a.colors = call.colors /\ DOMAIN a.g = V /\ Cardinality(DOMAIN a.g) = n
  BY <1>1 DEF Input, V, Vertices, n
<1>3. n \in Nat /\ V = 0 .. n - 1
  BY DEF Numbered
<1>4. PICK f : Images(f, a, n) /\ Contract!Automorphisms(a) = f[n]
  BY <1>2, <1>3, AutomorphismsAre
<1>5. \A j \in 0 .. n : f[j] = IF j = 0 THEN {<<>>} ELSE OneMore(a, f[j - 1], j)
  BY <1>4, Zenon DEF Images
<1>6. \A v, w \in V : w \in g[v] <=> s[w] \in g[s[v]]
  BY ArcsBoth DEF Keeps
<1>7. ASSUME NEW j \in 1 .. n, First(j - 1) \in f[j - 1]
      PROVE  First(j) \in f[j]
  <2>1. PICK v \in V : v = j - 1
    BY <1>3, <1>7
  <2>2. PICK t : t = First(j - 1)
    OBVIOUS
  <2>3. ASSUME NEW u \in 0 .. v - 1 PROVE u \in V /\ u # v /\ t[u + 1] = s[u]
    BY <1>3, <2>1, <2>2, <2>3
  <2>4. MayMap(a, t, v, s[v])
    <3>1. call.colors[v] = call.colors[s[v]]
      BY DEF Keeps
    <3>2. v \in g[v] <=> s[v] \in g[s[v]]
      BY <1>6
    <3>3. ASSUME NEW u \in 0 .. v - 1
          PROVE  /\ t[u + 1] # s[v]
                 /\ u \in g[v] <=> t[u + 1] \in g[s[v]]
                 /\ v \in g[u] <=> s[v] \in g[t[u + 1]]
      <4>1. u \in V /\ u # v /\ t[u + 1] = s[u]
        BY <2>3, <3>3
      <4>2. s[u] # s[v]
        BY <4>1 DEF Keeps, Permutes
      <4>3. (u \in g[v] <=> s[u] \in g[s[v]]) /\ (v \in g[u] <=> s[v] \in g[s[u]])
        BY <1>6, <4>1
      <4> QED
        BY <4>1, <4>2, <4>3
    <3> QED
      BY <1>2, <3>1, <3>2, <3>3 DEF MayMap
  <2>5. Append(t, s[v]) = First(j)
    <3>1. t \in Seq(V) /\ Len(t) = j - 1
      BY <1>3, <2>2
    <3>2. First(j) \in Seq(V) /\ Len(First(j)) = j
      BY <1>3
    <3> QED
      BY <1>3, <2>1, <2>2, <3>1, <3>2
  <2>6. f[j] = OneMore(a, f[j - 1], j) /\ j - 1 = v /\ s[v] \in V
    BY <1>3, <1>5, <2>1
  <2>7. t \in f[v]
    BY <1>7, <2>2, <2>6
  <2>8. Append(t, s[v]) \in OneMore(a, f[v], j)
    <3>1. s[v] \in {x \in DOMAIN a.g : MayMap(a, t, j - 1, x)}
      BY <1>2, <2>4, <2>6
    <3>2. Append(t, s[v]) \in {Append(t, w) : w \in {x \in DOMAIN a.g : MayMap(a, t, j - 1, x)}}
      BY <3>1
    <3> QED
      BY <2>7, <3>2, Zenon DEF OneMore
  <2> HIDE DEF First
  <2> QED
    BY <2>5, <2>6, <2>8
<1>8. First(0) \in f[0]
  <2>1. First(0) = <<>>
    OBVIOUS
  <2>2. f[0] = {<<>>}
    BY <1>3, <1>5
  <2> QED
    BY <2>1, <2>2
<1> HIDE DEF First
<1> DEFINE T == {j \in 0 .. n : First(j) \notin f[j]}
<1>9. T = {}
  <2> SUFFICES ASSUME T # {} PROVE FALSE
    OBVIOUS
  <2>1. PICK j \in T : \A y \in T : j <= y
    <3>1. T \in SUBSET Nat
      BY <1>3
    <3> HIDE DEF T
    <3> QED
      BY <3>1, Least
  <2>2. j \in 0 .. n /\ First(j) \notin f[j]
    BY <2>1
  <2>3. j # 0
    BY <1>8, <2>2
  <2>4. j \in 1 .. n /\ j - 1 \in 0 .. n /\ ~ j <= j - 1
    BY <1>3, <2>2, <2>3
  <2>5. First(j - 1) \in f[j - 1]
    BY <2>1, <2>4
  <2> QED
    BY <1>7, <2>2, <2>4, <2>5
<1>10. First(n) \in f[n]
  BY <1>3, <1>9
<1>11. \A v \in V : First(n)[v + 1] = s[v]
  BY <1>3 DEF First
<1> QED
  BY <1>1, <1>4, <1>10, <1>11

\* Half of GroupExact, before the search is over.
OrbitsInGroup == \A v \in V : orbits[v] \in Contract!OrbitOf(Input, v)

\* An orbit is represented by a vertex that an automorphism of the coloured graph maps it to,
\* so a child that is left out for its orbit has an equivalent one that is not.
THEOREM OrbitsInGroupTheorem == Spec => []OrbitsInGroup
<1>1. SearchInv /\ OrbitsOfGenerators => OrbitsInGroup
  <2> SUFFICES ASSUME SearchInv, OrbitsOfGenerators, NEW v \in V
               PROVE  orbits[v] \in Contract!OrbitOf(Input, v)
    BY DEF OrbitsInGroup
  <2> DEFINE f == [u \in V |-> {w \in V : \E s \in [V -> V] :
                                            Keeps(g, V, call.colors, s) /\ s[u] = w}]
  <2>1. Numbered /\ IsGraph(g, V) /\ orbits \in [V -> V] /\ Gens
    BY DEF SearchInv, Call, Graphs, Coloured, Typed, Joined
  <2>2. ASSUME NEW t \in generators PROVE KeptBy(f, t)
    <3>1. Keeps(g, V, call.colors, t)
      BY <2>1 DEF Gens
    <3>2. PICK r \in [V -> V] : /\ Keeps(g, V, call.colors, r)
                                /\ \A u \in V : r[t[u]] = u /\ t[r[u]] = u
      <4> HIDE DEF f
      <4>1. IsGraph(g, V) /\ Keeps(g, V, call.colors, t)
        BY <2>1, <3>1
      <4> QED
        BY <4>1, Reversal
    <3>3. \A u \in V : t[u] \in V
      BY <3>1 DEF Keeps, Permutes
    <3>4. ASSUME NEW u \in V, NEW s \in [V -> V], Keeps(g, V, call.colors, s)
          PROVE  /\ \E e \in [V -> V] : Keeps(g, V, call.colors, e) /\ e[u] = s[t[u]]
                 /\ \E e \in [V -> V] : Keeps(g, V, call.colors, e) /\ e[t[u]] = s[u]
      <4>1. PICK e \in [V -> V] : e = [w \in V |-> s[t[w]]]
        BY <3>3
      <4>2. PICK d \in [V -> V] : d = [w \in V |-> s[r[w]]]
        OBVIOUS
      <4>3. Keeps(g, V, call.colors, e) /\ Keeps(g, V, call.colors, d)
        BY <2>1, <3>1, <3>2, <3>4, <4>1, <4>2, Composition
      <4>4. e[u] = s[t[u]] /\ d[t[u]] = s[u]
        BY <3>2, <3>3, <4>1, <4>2
      <4> QED
        BY <4>3, <4>4
    <3>5. ASSUME NEW u \in V PROVE f[t[u]] = f[u]
      <4>1. PICK x \in V : x = t[u]
        BY <3>3
      <4>2. f[x] = {w \in V : \E s \in [V -> V] : Keeps(g, V, call.colors, s) /\ s[x] = w}
        OBVIOUS
      <4>3. f[u] = {w \in V : \E s \in [V -> V] : Keeps(g, V, call.colors, s) /\ s[u] = w}
        OBVIOUS
      <4> HIDE DEF f
      <4> QED
        BY <3>4, <4>1, <4>2, <4>3
    <3> QED
      BY <3>5 DEF KeptBy
  <2>3. f[orbits[v]] = f[v]
    <3> HIDE DEF f
    <3> QED
      BY <2>2 DEF OrbitsOfGenerators, OrbitsAre, KeptBy
  <2>4. PICK o \in V : o = orbits[v]
    BY <2>1
  <2>5. o \in f[o]
    <3>1. PICK e \in [V -> V] : e = [w \in V |-> w]
      OBVIOUS
    <3>2. Keeps(g, V, call.colors, e) /\ e[o] = o
      BY <2>1, <3>1, Identity
    <3> QED
      BY <3>2
  <2>6. PICK s \in [V -> V] : Keeps(g, V, call.colors, s) /\ s[v] = o
    BY <2>3, <2>4, <2>5
  <2>7. PICK t \in Contract!Automorphisms(Input) : t[v + 1] = o
    BY <2>1, <2>6, IsInAutomorphisms
  <2> QED
    BY <2>4, <2>7 DEF Contract!OrbitOf
<1>2. Init => SearchInv /\ OrbitsOfGenerators /\ Counters
  BY InitSearch, InitOrbits
<1>3. /\ SearchInv /\ OrbitsOfGenerators /\ Counters /\ [Next]_vars
      => SearchInv' /\ OrbitsOfGenerators' /\ Counters'
  BY NextKeepsSearch, NextKeepsOrbits
<1> QED
  BY <1>1, <1>2, <1>3, PTL DEF Spec
=============================================================================
