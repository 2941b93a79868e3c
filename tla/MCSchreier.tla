----------------------------- MODULE MCSchreier -----------------------------
(***************************************************************************)
(* Groups on four points.                                                  *)
(***************************************************************************)
EXTENDS Schreier

P(a, b, c, d) == [i \in 0 .. 3 |-> <<a, b, c, d>>[i + 1]]

\* The square, all of three points, and two exchanges with their product.
MCPools ==
    { {P(1, 2, 3, 0), P(2, 1, 0, 3)},
      {P(1, 0, 2, 3), P(1, 2, 0, 3)},
      {P(1, 0, 2, 3), P(0, 1, 3, 2), P(1, 0, 3, 2)} }

MCBases == {<<>>, <<1>>, <<0, 1>>, <<2, 1>>}

MCCells == {{}, {0, 2}}
=============================================================================
