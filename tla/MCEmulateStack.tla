--------------------------- MODULE MCEmulateStack ---------------------------
(* 32-bit mode, with units of two bits: sixteen words and addresses. *)
EXTENDS EmulateStack

MCImms == {-1, 6}
=============================================================================
