------------------------------- MODULE MCInput -------------------------------
(* Input with a shift key that may be latched, a key that is not in        *)
(* key_map and one past its end, whose modifier does not fit into a byte;  *)
(* a left button, one without a name and one past the end of button_map.   *)
EXTENDS InputProofs

Bits == [k \in Keys |-> CASE k = 42 -> 1 [] k = 298 -> 256 [] OTHER -> 0]
Places == {-3, -1, 0, 3}
=============================================================================
