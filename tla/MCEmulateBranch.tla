--------------------------- MODULE MCEmulateBranch ---------------------------
(* Bytes at and around the boundaries of every flag, and a three-bit count. *)
EXTENDS EmulateBranch

MCWords == {0, 1, 3, 15, 16, 126, 127, 128, 129, 170, 254, 255}
==============================================================================
