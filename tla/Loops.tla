-------------------------------- MODULE Loops -------------------------------
(***************************************************************************)
(* Loops over sets of numbers, and values computed once.                   *)
(***************************************************************************)
EXTENDS Integers, Sequences, FiniteSets, FiniteSetsExt

\* F(x), as LET would say; TLC evaluates x once.
With(x, F(_)) == CHOOSE y \in {F(z) : z \in {x}} : TRUE

\* Do applied to r for the elements of S in ascending order.
InOrder(S, Do(_, _), r) ==
    LET f[T \in SUBSET S] ==
            IF T = {} THEN r
            ELSE With(Max(T), LAMBDA m : With(f[T \ {m}], LAMBDA done : Do(done, m)))
    IN  f[S]

Ascending(S) == InOrder(S, Append, <<>>)
=============================================================================
