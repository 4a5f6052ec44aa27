------------------------------ MODULE MCNonceLoop ------------------------------
(* Model-checking instance of NonceLoop: every target, every hash function. *)
EXTENDS NonceLoop
===============================================================================
