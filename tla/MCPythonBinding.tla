--------------------------- MODULE MCPythonBinding ---------------------------
(* Two Python threads that share an executor. *)
EXTENDS PythonBinding
==============================================================================
