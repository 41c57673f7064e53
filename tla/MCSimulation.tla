---------------------------- MODULE MCSimulation ----------------------------
(* Simulation for TLC: three interchangeable processes.                    *)
EXTENDS Simulation

CONSTANTS p1, p2, p3

MCProc == {p1, p2, p3}

Symmetry == Permutations(MCProc)
=============================================================================
