-------------------------- MODULE MCSimulationFifo --------------------------
(* SimulationFifo for TLC.  No symmetry: the properties are liveness.      *)
EXTENDS SimulationFifo

CONSTANTS p1, p2, p3

MCProc == {p1, p2, p3}
=============================================================================
