----------------------------- MODULE MCWorkChunks -----------------------------
(* Model-checking instance of WorkChunks. *)
EXTENDS WorkChunks, TLC

Symmetry == Permutations(Clients) \cup Permutations(Extranonce2s)
===============================================================================
