--------------------------- MODULE ExecutorSignals ---------------------------
(***************************************************************************)
(* Executor with the other instruction of the window that can fault: the   *)
(* FXRSTOR of LoadFPU, which loads the image that the client's ReadFPU     *)
(* filled in and raises #GP when that image has reserved bits set. The     *)
(* handlers are installed by then, but sigsetjmp has not run yet.          *)
(***************************************************************************)
EXTENDS Executor

CONSTANT Refused(_)     \* the images that FXRSTOR refuses

VARIABLE recovered      \* the stage whose instruction RecoverFromError last recovered from

(* RecoverFromError jumps to wherever gRecoveryTarget was last set, if it   *)
(* ever was; what happens from there on is undefined and left out.          *)
LoadFPUFault(t) ==
    /\ pc[t] = "loadfpu" /\ gUsesFPU /\ Refused(gFPU)
    /\ gNativeFPU' = hwFPU[t]
    /\ gSignal' = "SIGSEGV"
    /\ recovered' = pc[t]
    /\ UNCHANGED <<callVars, calls, gIsInitialized, gXedd, regVars, flagVars, gUsesFPU,
                   gUsesMMX, gFPU, hwFPU, gMemory, gRecoveryTarget, gSavedHandlers,
                   handlers, user, pre>>

SignalInit == Init /\ recovered = "none"

SignalNext ==
    \/ /\ recovered \in {"none", "native"} /\ Next
       /\ recovered' = IF \E t \in Threads : ExecuteNative(t) /\ gSignal' # gSignal
                       THEN "native" ELSE recovered
    \/ \E t \in Threads : LoadFPUFault(t)

SignalSpec == SignalInit /\ [][SignalNext]_<<vars, recovered>>

(* RecoverFromError: "Recover from a signal that was raised by executing    *)
(* the JITed instruction."                                                  *)
RecoversFromJIT == recovered \in {"none", "native"}
==============================================================================
