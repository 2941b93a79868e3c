--------------------------- MODULE MCScottSession ---------------------------
EXTENDS ScottSession

\* A loop, and two edges out of the same node in either order of the nodes.
MCGraphs == {[n |-> 1, edges |-> << <<0, 0>> >>],
             [n |-> 2, edges |-> << <<1, 0>>, <<1, 1>> >>]}
=============================================================================
