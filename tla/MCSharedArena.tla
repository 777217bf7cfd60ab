---------------------------- MODULE MCSharedArena ----------------------------
(* SharedArena with the application and two gamepads, and room for a few   *)
(* blocks.                                                                 *)
EXTENDS SharedArenaProofs, TLC

Symmetry == Permutations(Gamepads)
=============================================================================
