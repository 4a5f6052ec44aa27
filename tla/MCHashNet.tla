------------------------------ MODULE MCHashNet ------------------------------
(* Model-checking instance of HashNet. *)
EXTENDS HashNet
===============================================================================
