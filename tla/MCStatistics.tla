----------------------------- MODULE MCStatistics -----------------------------
(* Model-checking instance of Statistics. *)
EXTENDS Statistics, TLC

Symmetry == Permutations(Clients)
===============================================================================
