------------------------------ MODULE MCStore ------------------------------
(* The model-checking instances of Store. *)
EXTENDS Store

StoreSymmetry ==
  Permutations(Threads) \cup Permutations(Shas)
=============================================================================
