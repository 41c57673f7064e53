------------------------------ MODULE MCSimset ------------------------------
(* Small instances of SIMSET. *)
EXTENDS Simset
=============================================================================
