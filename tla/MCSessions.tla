----------------------------- MODULE MCSessions -----------------------------
(* Model-checking instance of Sessions. *)
EXTENDS Sessions
===============================================================================
