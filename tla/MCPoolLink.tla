------------------------------ MODULE MCPoolLink ------------------------------
(* Model-checking instance of PoolLink. *)
EXTENDS PoolLink
===============================================================================
