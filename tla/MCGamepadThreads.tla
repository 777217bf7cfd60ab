-------------------------- MODULE MCGamepadThreads --------------------------
(* GamepadThreads with two slots instead of four.                          *)
EXTENDS GamepadThreadsProofs
=============================================================================
