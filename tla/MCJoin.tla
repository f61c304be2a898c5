------------------------------- MODULE MCJoin -------------------------------
(* The model-checking instance of Join: n2, n3 and n4 join through n1, which *)
(* may itself be started again with --join, through n2.  Four nodes, so that *)
(* a new leader can drop the entry of a node that was never admitted.        *)
EXTENDS Join

CONSTANTS n1, n2, n3, n4

Targets == [n \in Nodes |-> IF n = n1 THEN n2 ELSE n1]
=============================================================================
