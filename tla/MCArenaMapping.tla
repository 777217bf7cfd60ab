--------------------------- MODULE MCArenaMapping ---------------------------
(* ArenaMapping on a few small pages.  The unit of size is eight bytes: a  *)
(* struct ORArena is 5, MAX_ALIGNMENT 2, a page 8 instead of 512.          *)
EXTENDS ArenaMapping, TLC

Symmetry == Permutations(Arenas)
=============================================================================
