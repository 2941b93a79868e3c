--------------------------------- MODULE Sums --------------------------------
(***************************************************************************)
(* The sum of a sequence of numbers.                                       *)
(***************************************************************************)
EXTENDS Integers, Sequences

SumOf(s) ==
  LET upTo[k \in 0 .. Len(s)] == IF k = 0 THEN 0 ELSE upTo[k - 1] + s[k]
  IN upTo[Len(s)]
=============================================================================
