----------------------------- MODULE MCESP32Tasks -----------------------------
(* Model-checking instance of ESP32Tasks. *)
EXTENDS ESP32Tasks
===============================================================================
