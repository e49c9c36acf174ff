-------------------------- MODULE ExecutorRefinement --------------------------
(***************************************************************************)
(* Executor implements AtomicExecutor: instructions run one at a time on   *)
(* each client's machine.                                                  *)
(***************************************************************************)
EXTENDS Executor

(* The client's machine as of the last instruction that is done with it:    *)
(* while a thread is in the middle of the write-back for e, and will go on  *)
(* or return an error, the state from before that instruction.              *)
WritesBack(t) == pc[t] \in {"writefpu", "writeflags", "writeregs"}

Machine == [e \in Execs |->
              IF \E t \in Threads : WritesBack(t) /\ call[t].ex = e
              THEN pre[CHOOSE t \in Threads : WritesBack(t) /\ call[t].ex = e]
              ELSE user[e]]

Atomic == INSTANCE AtomicExecutor WITH machine <- Machine

(* Every client sees a sequence of whole instructions, each with the effect *)
(* it has on a processor, and at most one torn one where its own callbacks  *)
(* refuse a result: never a part of another client's instruction, a state   *)
(* between two callbacks, or an effect of an instruction that failed.       *)
ImplementsAtomic == Atomic!Spec
==============================================================================
