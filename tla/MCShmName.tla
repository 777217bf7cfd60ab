------------------------------ MODULE MCShmName ------------------------------
(* ShmName with four programs, and a file for each and one left behind.   *)
EXTENDS ShmNameProofs, TLC

Symmetry == Permutations(Processes) \cup Permutations(Files)
=============================================================================
