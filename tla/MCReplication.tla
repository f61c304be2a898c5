--------------------------- MODULE MCReplication ---------------------------
(* The model-checking instances of Replication. *)
EXTENDS Replication

NodeSymmetry == Permutations(Nodes)
=============================================================================
