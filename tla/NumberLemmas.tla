----------------------------- MODULE NumberLemmas ----------------------------
(***************************************************************************)
(* What the proofs about definitions that recurse over numbers rest on: a  *)
(* set of natural numbers that is not empty has a least element, so that a *)
(* statement that fails for some number fails for a least one; and what    *)
(* that gives for the sums of sequences.                                   *)
(***************************************************************************)
EXTENDS Sums, FiniteSets, SequenceTheorems, FiniteSetTheorems, WellFoundedInduction, TLAPS

\* The least counterexample: the ranges 0 .. x of the elements x are finite
\* sets, among which there is a minimal one.
THEOREM Least ==
  ASSUME NEW T \in SUBSET Nat, T # {}
  PROVE  \E x \in T : \A y \in T : x <= y
<1> DEFINE Ranges == {0 .. x : x \in T}
<1>1. Ranges # {} /\ Ranges \subseteq FiniteSubsetsOf(Nat)
  <2> SUFFICES ASSUME NEW x \in T PROVE 0 .. x \in FiniteSubsetsOf(Nat)
    OBVIOUS
  <2> QED
    BY FS_Interval DEF FiniteSubsetsOf
<1>2. PICK R \in Ranges : \A Q \in Ranges : <<Q, R>> \notin StrictSubsetOrdering(Nat)
  <2> HIDE DEF Ranges
  <2> QED
    BY <1>1, FS_StrictSubsetOrderingWellFounded, WFMin
<1>3. PICK x \in T : R = 0 .. x
  OBVIOUS
<1>4. ASSUME NEW y \in T, y < x PROVE FALSE
  <2>1. 0 .. y \in Ranges
    OBVIOUS
  <2>2. <<0 .. y, 0 .. x>> \notin StrictSubsetOrdering(Nat)
    BY <1>2, <1>3, <2>1
  <2>3. 0 .. y \subseteq 0 .. x /\ 0 .. x # 0 .. y
    <3>1. x \in 0 .. x /\ x \notin 0 .. y
      BY <1>4
    <3> QED
      BY <1>4, <3>1
  <2>4. 0 .. y \in SUBSET Nat /\ 0 .. x \in SUBSET Nat
    OBVIOUS
  <2>5. <<0 .. y, 0 .. x>> \in StrictSubsetOrdering(Nat)
    BY <2>3, <2>4 DEF StrictSubsetOrdering
  <2> QED
    BY <2>2, <2>5
<1> QED
  BY <1>4

\* A set of integers that is bounded from above has a greatest element.
THEOREM Greatest ==
  ASSUME NEW T \in SUBSET Int, T # {}, NEW b \in Int, \A x \in T : x <= b
  PROVE  \E x \in T : \A y \in T : y <= x
<1> DEFINE Gaps == {b - x : x \in T}
<1>1. Gaps \in SUBSET Nat /\ Gaps # {}
  <2> SUFFICES ASSUME NEW x \in T PROVE b - x \in Nat
    OBVIOUS
  <2>1. x \in Int /\ x <= b
    OBVIOUS
  <2> QED
    BY <2>1
<1>2. PICK d \in Gaps : \A e \in Gaps : d <= e
  <2> HIDE DEF Gaps
  <2> QED
    BY <1>1, Least
<1>3. PICK x \in T : d = b - x
  BY <1>2
<1>4. ASSUME NEW y \in T PROVE y <= x
  <2>1. b - y \in Gaps
    OBVIOUS
  <2>2. b - x <= b - y
    BY <1>2, <1>3, <2>1
  <2> QED
    BY <2>2
<1> QED
  BY <1>4

-----------------------------------------------------------------------------
(* The sum of a sequence *)

\* f is the function of the first sums of s, up to the sum of n elements.
SumsUpTo(f, s, n) ==
  f = [k \in 0 .. n |-> IF k = 0 THEN 0 ELSE f[k - 1] + s[k]]

\* By the least n for which there would be no such function.
LEMMA SumsExist ==
  ASSUME NEW s, NEW n \in Nat
  PROVE  \E f : SumsUpTo(f, s, n)
<1> DEFINE T == {m \in Nat : ~ \E f : SumsUpTo(f, s, m)}
<1> SUFFICES ASSUME T # {} PROVE FALSE
  OBVIOUS
<1>1. PICK m \in T : \A y \in T : m <= y
  BY Least
<1>2. CASE m = 0
  <2> DEFINE f == [k \in 0 .. 0 |-> 0]
  <2>1. f = [k \in 0 .. m |-> IF k = 0 THEN 0 ELSE f[k - 1] + s[k]]
    BY <1>2
  <2> QED
    BY <2>1, <1>1 DEF SumsUpTo
<1>3. CASE m # 0
  <2>1. m - 1 \in Nat /\ m - 1 \notin T
    BY <1>3, <1>1
  <2>2. PICK f : f = [k \in 0 .. m - 1 |-> IF k = 0 THEN 0 ELSE f[k - 1] + s[k]]
    BY <2>1 DEF SumsUpTo
  <2> DEFINE g == [k \in 0 .. m |-> IF k = m THEN f[m - 1] + s[m] ELSE f[k]]
  <2>3. \A k \in 0 .. m : g[k] = IF k = 0 THEN 0 ELSE g[k - 1] + s[k]
    <3> TAKE k \in 0 .. m
    <3>1. CASE k = m
      BY <3>1, <1>3, <1>1
    <3>2. CASE k # m
      <4>1. k \in 0 .. m - 1
        BY <3>2, <1>1
      <4>2. f[k] = IF k = 0 THEN 0 ELSE f[k - 1] + s[k]
        BY <4>1, <2>2
      <4> QED
        BY <4>1, <4>2
    <3> QED
      BY <3>1, <3>2
  <2>4. g = [k \in 0 .. m |-> IF k = 0 THEN 0 ELSE g[k - 1] + s[k]]
    BY <2>3
  <2> QED
    BY <2>4, <1>1 DEF SumsUpTo
<1> QED
  BY <1>2, <1>3

LEMMA SumIsLast ==
  ASSUME NEW s, Len(s) \in Nat
  PROVE  \E f : SumsUpTo(f, s, Len(s)) /\ SumOf(s) = f[Len(s)]
<1> DEFINE f == CHOOSE f : f = [k \in 0 .. Len(s) |-> IF k = 0 THEN 0 ELSE f[k - 1] + s[k]]
<1>1. SumsUpTo(f, s, Len(s))
  BY SumsExist DEF SumsUpTo
<1>2. SumOf(s) = f[Len(s)]
  BY DEF SumOf
<1> QED
  BY <1>1, <1>2

LEMMA SumsAt ==
  ASSUME NEW f, NEW s, NEW n, SumsUpTo(f, s, n), NEW k \in 0 .. n
  PROVE  f[k] = IF k = 0 THEN 0 ELSE f[k - 1] + s[k]
BY DEF SumsUpTo

\* Two sequences with the same first n elements have the same first n sums.
LEMMA SumsAgree ==
  ASSUME NEW s, NEW t, NEW m \in Nat, NEW n \in 0 .. m, NEW f, NEW g,
         SumsUpTo(f, s, n), SumsUpTo(g, t, m),
         \A k \in 1 .. n : s[k] = t[k] /\ s[k] \in Nat
  PROVE  \A k \in 0 .. n : f[k] = g[k] /\ f[k] \in Nat
<1> DEFINE T == {k \in 0 .. n : ~ (f[k] = g[k] /\ f[k] \in Nat)}
<1> SUFFICES ASSUME T # {} PROVE FALSE
  OBVIOUS
<1>1. PICK k \in T : \A y \in T : k <= y
  <2>1. T \in SUBSET Nat
    OBVIOUS
  <2> QED
    BY <2>1, Least
<1>2. k \in 0 .. n /\ k \in 0 .. m /\ n \in Nat
  BY <1>1
<1>3. /\ f[k] = IF k = 0 THEN 0 ELSE f[k - 1] + s[k]
      /\ g[k] = IF k = 0 THEN 0 ELSE g[k - 1] + t[k]
  BY <1>2, SumsAt
<1>4. CASE k = 0
  BY <1>1, <1>3, <1>4
<1>5. CASE k # 0
  <2>1. k - 1 \in 0 .. n /\ k \in 1 .. n /\ k - 1 \notin T
    BY <1>1, <1>2, <1>5
  <2>2. f[k - 1] = g[k - 1] /\ f[k - 1] \in Nat
    BY <2>1
  <2> QED
    BY <1>1, <1>3, <1>5, <2>1, <2>2
<1> QED
  BY <1>4, <1>5

LEMMA SumAppend ==
  ASSUME NEW s \in Seq(Nat), NEW x \in Nat
  PROVE  SumOf(s) \in Nat /\ SumOf(Append(s, x)) = SumOf(s) + x
<1> DEFINE t == Append(s, x)
           n == Len(s)
<1>1. /\ t \in Seq(Nat) /\ n \in Nat /\ Len(t) = n + 1 /\ t[n + 1] = x
      /\ \A k \in 1 .. n : s[k] = t[k] /\ s[k] \in Nat
  OBVIOUS
<1> HIDE DEF t, n
<1>2. PICK f : SumsUpTo(f, s, n) /\ SumOf(s) = f[n]
  BY <1>1, SumIsLast DEF n
<1>3. PICK g : SumsUpTo(g, t, n + 1) /\ SumOf(t) = g[n + 1]
  <2>1. Len(t) \in Nat
    BY <1>1
  <2> QED
    BY <2>1, <1>1, SumIsLast
<1>4. f[n] = g[n] /\ f[n] \in Nat
  <2>1. n \in 0 .. n + 1 /\ n + 1 \in Nat /\ n \in 0 .. n
    BY <1>1
  <2>2. SumsUpTo(f, s, n) /\ SumsUpTo(g, t, n + 1)
    BY <1>2, <1>3
  <2>3. \A k \in 1 .. n : s[k] = t[k] /\ s[k] \in Nat
    BY <1>1
  <2> QED
    BY <2>1, <2>2, <2>3, SumsAgree
<1>5. g[n + 1] = g[n] + x
  <2>1. ASSUME NEW k \in 0 .. n + 1, k = n + 1
        PROVE  g[k] = g[k - 1] + t[k]
    <3>1. g[k] = IF k = 0 THEN 0 ELSE g[k - 1] + t[k]
      BY <1>3, SumsAt
    <3> QED
      BY <3>1, <2>1, <1>1
  <2>2. n + 1 \in 0 .. n + 1 /\ n + 1 - 1 = n
    BY <1>1
  <2> QED
    BY <2>1, <2>2, <1>1
<1> QED
  BY <1>2, <1>3, <1>4, <1>5 DEF t

\* The sum of no numbers.
LEMMA SumOfNone ==
  ASSUME NEW s \in Seq(Nat), Len(s) = 0
  PROVE  SumOf(s) = 0
<1>1. PICK f : SumsUpTo(f, s, Len(s)) /\ SumOf(s) = f[Len(s)]
  BY SumIsLast
<1>2. f[0] = 0
  BY <1>1, SumsAt
<1> QED
  BY <1>1, <1>2

\* A part of a sequence, and the part that goes on for one element more.
LEMMA SumOfNext ==
  ASSUME NEW s \in Seq(Nat), NEW n \in Nat, n + 1 <= Len(s), NEW m \in 1 .. n + 1
  PROVE  /\ SubSeq(s, m, n) \in Seq(Nat)
         /\ SumOf(SubSeq(s, m, n)) \in Nat
         /\ SumOf(SubSeq(s, m, n + 1)) = SumOf(SubSeq(s, m, n)) + s[n + 1]
<1> DEFINE t == SubSeq(s, m, n)
           u == SubSeq(s, m, n + 1)
           k == n + 1 - m
<1>1. s[n + 1] \in Nat /\ k \in Nat
  BY ElementOfSeq
<1>2. \A i \in m .. n + 1 : s[i] \in Nat
  BY ElementOfSeq
<1>3. t \in Seq(Nat) /\ Len(t) = k /\ \A i \in 1 .. k : t[i] = s[m + i - 1]
  <2>1. \A i \in m .. n : s[i] \in Nat
    BY <1>2
  <2> QED
    BY <2>1, SubSeqProperties
<1>4. u \in Seq(Nat) /\ Len(u) = k + 1 /\ \A i \in 1 .. k + 1 : u[i] = s[m + i - 1]
  BY <1>2, SubSeqProperties
<1>5. u = Append(t, s[n + 1])
  <2> DEFINE v == Append(t, s[n + 1])
  <2>1. m + (k + 1) - 1 = n + 1
    OBVIOUS
  <2> HIDE DEF t, u, k
  <2>2. v \in Seq(Nat) /\ Len(v) = k + 1 /\ \A i \in 1 .. k : v[i] = s[m + i - 1]
    BY <1>1, <1>3
  <2>3. v[k + 1] = s[n + 1]
    BY <1>1, <1>3
  <2>4. \A i \in 1 .. k + 1 : v[i] = s[m + i - 1]
    BY <1>1, <2>1, <2>2, <2>3
  <2> HIDE DEF v
  <2>5. u = v
    BY <1>4, <2>2, <2>4, SeqEqual
  <2> QED
    BY <2>5 DEF v
<1> HIDE DEF t, u, k
<1>6. SumOf(t) \in Nat /\ SumOf(u) = SumOf(t) + s[n + 1]
  BY <1>1, <1>3, <1>5, SumAppend
<1> QED
  BY <1>3, <1>6 DEF t, u

\* The sums of the two parts of a sequence.
LEMMA SumOfParts ==
  ASSUME NEW s \in Seq(Nat), NEW m \in 0 .. Len(s)
  PROVE  /\ SumOf(SubSeq(s, 1, m)) \in Nat /\ SumOf(SubSeq(s, m + 1, Len(s))) \in Nat
         /\ SumOf(SubSeq(s, 1, m)) + SumOf(SubSeq(s, m + 1, Len(s))) = SumOf(s)
<1> DEFINE A(n) == SumOf(SubSeq(s, 1, n))
           B(n) == SumOf(SubSeq(s, m + 1, n))
           T == {n \in m .. Len(s) : ~ (A(m) + B(n) = A(n) /\ A(n) \in Nat /\ B(n) \in Nat)}
<1>1. ASSUME NEW n \in Nat, n <= Len(s) PROVE A(n) \in Nat
  <2>1. SubSeq(s, 1, n) \in Seq(Nat)
    <3>1. \A i \in 1 .. n : s[i] \in Nat
      BY <1>1, ElementOfSeq
    <3> QED
      BY <1>1, <3>1, SubSeqProperties
  <2> QED
    BY <2>1, SumAppend
<1>2. B(m) = 0
  <2>1. SubSeq(s, m + 1, m) = <<>>
    BY SubSeqEmpty
  <2>2. <<>> \in Seq(Nat) /\ Len(<<>>) = 0
    BY EmptySeq
  <2> QED
    BY <2>1, <2>2, SumOfNone
<1>3. ASSUME NEW n \in Nat, m <= n, n + 1 <= Len(s)
      PROVE  A(n + 1) = A(n) + s[n + 1] /\ B(n + 1) = B(n) + s[n + 1] /\ s[n + 1] \in Nat
  <2>1. 1 \in 1 .. n + 1 /\ m + 1 \in 1 .. n + 1
    BY <1>3
  <2>2. s[n + 1] \in Nat
    BY <1>3, ElementOfSeq
  <2> QED
    BY <1>3, <2>1, <2>2, SumOfNext
<1>4. A(m) \in Nat
  BY <1>1
<1>5. T = {}
  <2> SUFFICES ASSUME T # {} PROVE FALSE
    OBVIOUS
  <2> HIDE DEF A, B
  <2>1. PICK n \in T : \A x \in T : n <= x
    <3>1. T \in SUBSET Nat
      OBVIOUS
    <3> QED
      BY <3>1, Least
  <2>2. n # m
    BY <1>2, <1>4, <2>1
  <2>3. n - 1 \in m .. Len(s) /\ n - 1 \notin T /\ n - 1 \in Nat /\ n - 1 + 1 = n
    BY <2>1, <2>2
  <2>4. A(m) + B(n - 1) = A(n - 1) /\ A(n - 1) \in Nat /\ B(n - 1) \in Nat
    BY <2>3
  <2>5. m <= n - 1 /\ n - 1 + 1 <= Len(s)
    BY <2>1, <2>3
  <2>6. A(n) = A(n - 1) + s[n] /\ B(n) = B(n - 1) + s[n] /\ s[n] \in Nat
    BY <1>3, <2>3, <2>5
  <2> QED
    BY <1>4, <2>1, <2>4, <2>6
<1>6. A(m) + B(Len(s)) = A(Len(s)) /\ B(Len(s)) \in Nat
  <2> HIDE DEF A, B
  <2> QED
    BY <1>5
<1>7. SubSeq(s, 1, Len(s)) = s
  BY SubSeqFull
<1> QED
  BY <1>4, <1>6, <1>7

\* Counting one more in the last number.
LEMMA SumOfOneMore ==
  ASSUME NEW s \in Seq(Nat), Len(s) >= 1, NEW t, t = [s EXCEPT ![Len(s)] = @ + 1]
  PROVE  /\ t \in Seq(Nat) /\ Len(t) = Len(s)
         /\ SumOf(s) \in Nat /\ SumOf(t) = SumOf(s) + 1
<1>1. PICK n \in Nat : Len(s) = n + 1
  <2>1. Len(s) - 1 \in Nat /\ Len(s) = (Len(s) - 1) + 1
    OBVIOUS
  <2> QED
    BY <2>1
<1>2. \A i \in 1 .. n + 1 : s[i] \in Nat
  BY <1>1, ElementOfSeq
<1>3. /\ t \in Seq(Nat) /\ Len(t) = n + 1 /\ t[n + 1] = s[n + 1] + 1
      /\ \A i \in 1 .. n : t[i] = s[i]
  <2>1. s[n + 1] + 1 \in Nat /\ n + 1 \in 1 .. Len(s)
    BY <1>1, <1>2
  <2>2. t = [s EXCEPT ![n + 1] = s[n + 1] + 1]
    BY <1>1
  <2>3. t \in Seq(Nat) /\ Len(t) = Len(s) /\ \A i \in 1 .. Len(s) : t[i] = IF i = n + 1 THEN s[n + 1] + 1 ELSE s[i]
    BY <2>1, <2>2, ExceptSeq
  <2> QED
    BY <1>1, <2>3
<1>4. SubSeq(s, 1, n) = SubSeq(t, 1, n)
  <2>1. \A i \in 1 .. n : s[i] \in Nat /\ t[i] \in Nat
    BY <1>2, <1>3
  <2>2. /\ SubSeq(s, 1, n) \in Seq(Nat) /\ Len(SubSeq(s, 1, n)) = n
        /\ \A i \in 1 .. n : SubSeq(s, 1, n)[i] = s[i]
    BY <1>1, <2>1, SubSeqProperties
  <2>3. /\ SubSeq(t, 1, n) \in Seq(Nat) /\ Len(SubSeq(t, 1, n)) = n
        /\ \A i \in 1 .. n : SubSeq(t, 1, n)[i] = t[i]
    BY <1>3, <2>1, SubSeqProperties
  <2> QED
    BY <1>3, <2>2, <2>3, SeqEqual
<1>5. SumOf(SubSeq(s, 1, n)) \in Nat /\ SumOf(s) = SumOf(SubSeq(s, 1, n)) + s[n + 1]
  <2>1. 1 \in 1 .. n + 1 /\ n + 1 <= Len(s)
    BY <1>1
  <2>2. SubSeq(s, 1, n + 1) = s
    BY <1>1, SubSeqFull
  <2> QED
    BY <2>1, <2>2, SumOfNext
<1>6. SumOf(t) = SumOf(SubSeq(t, 1, n)) + t[n + 1]
  <2>1. 1 \in 1 .. n + 1 /\ n + 1 <= Len(t)
    BY <1>3
  <2>2. SubSeq(t, 1, n + 1) = t
    BY <1>3, SubSeqFull
  <2> QED
    BY <1>3, <2>1, <2>2, SumOfNext
<1>7. s[n + 1] \in Nat
  BY <1>2
<1>8. SumOf(t) = SumOf(SubSeq(s, 1, n)) + (s[n + 1] + 1)
  BY <1>3, <1>4, <1>6
<1>9. SumOf(s) \in Nat /\ SumOf(t) = SumOf(s) + 1
  BY ONLY <1>5, <1>7, <1>8
<1> QED
  BY <1>1, <1>3, <1>9

\* The sum of natural numbers is one.
LEMMA SumIsNat ==
  ASSUME NEW s \in Seq(Nat)
  PROVE  SumOf(s) \in Nat
<1>1. PICK m : m = Len(s) /\ m \in 0 .. Len(s) /\ m \in Nat
  BY LenProperties
<1>2. SubSeq(s, 1, m) = s
  BY <1>1, SubSeqFull
<1>3. SumOf(SubSeq(s, 1, m)) \in Nat
  BY <1>1, SumOfParts
<1> QED
  BY <1>2, <1>3
=============================================================================
