------------------------------ MODULE MCWindow ------------------------------
(* Window with a uint16_t of six bits.  Every mapping needs a block that   *)
(* is free: the window's and one of every window before it.  The stride of *)
(* the last size wraps to zero; of the sizes that libdecor configures one  *)
(* becomes a bitmap that is smaller, and one a bitmap without pixels.      *)
EXTENDS Window

SmallSizes == {<<2, 2>>, <<3, 1>>, <<16, 1>>}
Contents == {<<2, 2>>, <<16, 1>>, <<67, 1>>, <<64, 2>>}
=============================================================================
