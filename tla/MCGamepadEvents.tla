--------------------------- MODULE MCGamepadEvents ---------------------------
(* GamepadEvents with a small device: a few buttons and axes, and a queue  *)
(* that is full soon.  A stick or a trigger is in the middle, a little off *)
(* it (in the dead zone), or at one end.                                   *)
EXTENDS GamepadEventsProofs

SomeValues == {-1, 2}
=============================================================================
