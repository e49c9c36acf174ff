--------------------------- MODULE MCEmulateString ---------------------------
(* Four one-bit bytes on two pages, of which one or none is mapped at first. *)
EXTENDS EmulateString

MCAXs == {<<0, 1>>, <<1, 1>>}
MCPresent == {{}, {0}}
==============================================================================
