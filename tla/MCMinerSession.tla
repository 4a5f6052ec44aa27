---------------------------- MODULE MCMinerSession ----------------------------
(* Model-checking instance of MinerSession. *)
EXTENDS MinerSession
===============================================================================
