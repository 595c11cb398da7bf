----------------------------- MODULE MCPathSearch -----------------------------
(* Instance of PathSearch: an input, two cells and an output, with every   *)
(* pair that can close a cycle, branch, rejoin or dead-end between them.   *)
EXTENDS PathSearch

CONSTANTS i, a, b, o

MCVertices == {i, a, b, o}
MCInputs == {i}
MCOutputs == {o}
MCPairs == {<<i, a>>, <<a, b>>, <<b, a>>, <<a, a>>, <<a, o>>, <<b, o>>, <<o, b>>}
=============================================================================
