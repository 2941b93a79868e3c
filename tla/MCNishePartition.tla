-------------------------- MODULE MCNishePartition --------------------------
(***************************************************************************)
(* NishePartition on small nests.  Four elements are the fewest with which *)
(* a cut leaves two cells that both stay in the list of nontrivial cells,  *)
(* three levels the fewest of which one call recovers two.                 *)
(***************************************************************************)
EXTENDS NishePartition
=============================================================================
