------------------------- MODULE MCExecutorSignals -------------------------
(* Executor with faults in LoadFPU, on the instance of MCExecutor. *)
EXTENDS MCExecutor, ExecutorSignals

(* The reserved bits are part of what an image holds besides the registers. *)
MCRefused(image) == image.st = 1
=============================================================================
