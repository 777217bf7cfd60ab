------------------------------ MODULE MCArena ------------------------------
(* Arena on one small mapping.  The unit of size is four bytes: a word of  *)
(* x86-64 is 2, struct ORArena 10, MAX_ALIGNMENT 4.                        *)
EXTENDS ArenaProofs, TLC

Symmetry == Permutations(SubArenas)
=============================================================================
