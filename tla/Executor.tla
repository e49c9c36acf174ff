------------------------------ MODULE Executor ------------------------------
(***************************************************************************)
(* Executor::Execute of microx/Executor.cpp: threads that each execute     *)
(* instructions of some client's machine state through one set of          *)
(* process-wide globals, guarded by gExecutorLock.                         *)
(*                                                                         *)
(* Every action is one stage of the loop body, in the code's order. The    *)
(* stages of one thread touch the globals only while it holds the lock, so *)
(* a stage is atomic; but each callback a stage makes (ReadReg, WriteReg,  *)
(* ReadMem, WriteMem, ReadFPU, WriteFPU) may fail, and the stage then      *)
(* returns from Execute having done only what precedes the failing call.   *)
(* The globals are never cleared between calls: what an earlier            *)
(* instruction, of any client, left in them is still there.                *)
(***************************************************************************)
EXTENDS Instruction

CONSTANTS
    Threads, NoThread,
    Execs,           \* the Executor objects, each with its client's machine state
    HasAVX,          \* the ones constructed with has_avx or has_avx512
    NoReg,           \* XED_REG_INVALID
    UserStates,      \* the machine states that clients start from
    HostFPU,         \* the FPU state each thread had before it called Execute
    HostFlags,       \* what PUSHFQ may find in the host's flags
    HostVals,        \* what the host may have in its registers
    MaxExecutions,   \* bound on max_num_executions
    MaxCalls         \* bound on the number of calls

ASSUME ThreadAssumption == NoThread \notin Threads

ASSUME ClientAssumption ==
    /\ Execs # {} /\ Instrs # {}
    /\ UserStates \subseteq State

ASSUME HostAssumption ==
    /\ HostFPU \in [Threads -> FPU]
    /\ HostFlags \subseteq [Flags -> Bit]
    /\ HostVals \subseteq Val

ASSUME BoundAssumption == MaxExecutions \in Nat /\ MaxCalls \in Nat

(* There is a first one among any of the alias candidates. *)
ASSUME AliasAssumption ==
    /\ NoReg \notin Regs
    /\ \A S \in SUBSET AliasRegs : S # {} => \E r \in S : \A q \in S : r <= q

VARIABLES
    \* the calls
    pc,              \* the stage each thread is in
    call,            \* the locals of its Execute
    calls,           \* how many calls have been made
    gExecutorLock, gIsInitialized,
    \* the globals
    gXedd,
    gUsedRegs, gModifiedRegs, gStoreRegs, gRegs, gStackPtrAlias,
    gFlags,          \* gRegs[XED_REG_RFLAGS], flag by flag
    gWriteBackFlags,
    gUsesFPU, gUsesMMX, gFPU, gNativeFPU,
    gMemory,
    gSignal, gRecoveryTarget,
    gSavedHandlers,  \* gSIGILL, gSIGSEGV, gSIGBUS, gSIGFPE
    \* the process and the processor
    handlers,        \* whose signal handlers are installed
    hwFPU,           \* the FPU of the processor each thread runs on
    \* the clients
    user,            \* the machine state behind each Executor's callbacks
    pre              \* history: that state when the current instruction began

callVars == <<pc, call, gExecutorLock>>
regVars  == <<gUsedRegs, gModifiedRegs, gStoreRegs, gRegs, gStackPtrAlias>>
flagVars == <<gFlags, gWriteBackFlags>>
fpuVars  == <<gUsesFPU, gUsesMMX, gFPU, gNativeFPU, hwFPU>>
sigVars  == <<gSignal, gRecoveryTarget, gSavedHandlers, handlers>>
vars == <<callVars, calls, gIsInitialized, gXedd, regVars, flagVars, fpuVars,
          gMemory, sigVars, user, pre>>

Stages == {"idle", "lock", "loop", "readpc", "fetch", "readflags", "readregs",
           "readfpu", "readmem", "emulate", "encode", "install", "loadfpu",
           "sigsetjmp", "native", "storefpu", "restore", "writemem", "writefpu",
           "writeflags", "writeregs", "ret"}

(* ExecutorStatus. *)
Statuses == {"kGood", "kErrorNotInitialized", "kErrorReadReg", "kErrorReadInstMem",
             "kErrorDecode", "kErrorUnsupportedFeatures", "kErrorReadFlags",
             "kErrorReadFPU", "kErrorReadMem", "kErrorUnsupportedCFI",
             "kErrorUnsupportedStack", "kErrorExecute", "kErrorFault",
             "kErrorFloatingPointException", "kErrorWriteMem", "kErrorWriteFPU",
             "kErrorWriteFlags", "kErrorWriteReg"}

MemoryOperand == [present : BOOLEAN, write_back : BOOLEAN, address : Val, data : Val]

Client(t) == user[call[t].ex]

------------------------------------------------------------------------------
Init ==
    /\ pc = [t \in Threads |-> "idle"]
    /\ call = [t \in Threads |-> [ex |-> CHOOSE e \in Execs : TRUE, max |-> 0, num |-> 0,
                                  next |-> Zero, status |-> "kGood"]]
    /\ calls = 0
    /\ gExecutorLock = NoThread /\ gIsInitialized = FALSE
    /\ gXedd = CHOOSE i \in Instrs : TRUE
    /\ gUsedRegs = {} /\ gModifiedRegs = {} /\ gStoreRegs = {}
    /\ gRegs = [r \in Regs |-> Zero] /\ gStackPtrAlias = NoReg
    /\ gFlags = [f \in Flags |-> 0] /\ gWriteBackFlags = {}
    /\ gUsesFPU = FALSE /\ gUsesMMX = FALSE /\ gFPU = NoFPU /\ gNativeFPU = NoFPU
    /\ gMemory = [s \in Slots |-> [present |-> FALSE, write_back |-> FALSE,
                                   address |-> Zero, data |-> Zero]]
    /\ gSignal = "none" /\ gRecoveryTarget = NoThread
    /\ gSavedHandlers = "host" /\ handlers = "host"
    /\ hwFPU = HostFPU
    /\ user \in [Execs -> UserStates]
    /\ pre = [t \in Threads |-> user[call[t].ex]]

(* The stage succeeded: on to the next one.                                 *)
Continue(t, stage) ==
    /\ pc' = [pc EXCEPT ![t] = stage]
    /\ UNCHANGED <<call, gExecutorLock>>

(* A return that skips the unlock. *)
Leave_KeepsLock(t, status) ==
    /\ pc' = [pc EXCEPT ![t] = "ret"]
    /\ call' = [call EXCEPT ![t].status = status]
    /\ gExecutorLock' = IF status = "kErrorDecode" THEN gExecutorLock ELSE NoThread

(* return status: LockGuard's destructor releases the lock.                 *)
Leave(t, status) ==
    /\ pc' = [pc EXCEPT ![t] = "ret"]
    /\ call' = [call EXCEPT ![t].status = status]
    /\ gExecutorLock' = NoThread

LockIsFree_NoGuard == TRUE

LockIsFree == gExecutorLock = NoThread

(* Executor::Init, when mmap gives it its executable page. When mmap fails, *)
(* and when it has already run, Init changes nothing.                       *)
InitExecutor(t) ==
    /\ pc[t] = "idle" /\ LockIsFree /\ ~gIsInitialized
    /\ gIsInitialized' = TRUE
    /\ gWriteBackFlags' = {}
    /\ gRegs' = [r \in Regs |-> Zero]
    /\ gFlags' = [f \in Flags |-> 0]
    /\ UNCHANGED <<callVars, calls, gXedd, gUsedRegs, gModifiedRegs, gStoreRegs,
                   gStackPtrAlias, fpuVars, gMemory, sigVars, user, pre>>

(* A thread calls Execute(n) on an executor; Execute(0) takes no lock.      *)
Call(t) ==
    /\ pc[t] = "idle" /\ calls < MaxCalls
    /\ calls' = calls + 1
    /\ \E e \in Execs, n \in 0 .. MaxExecutions :
         /\ call' = [call EXCEPT ![t] = [ex |-> e, max |-> n, num |-> 0, next |-> Zero,
                                         status |-> "kGood"]]
         /\ pc' = [pc EXCEPT ![t] = IF n = 0 THEN "ret" ELSE "lock"]
    /\ UNCHANGED <<gExecutorLock, gIsInitialized, gXedd, regVars, flagVars, fpuVars,
                   gMemory, sigVars, user, pre>>

(* A guard that locks nothing. *)
Lock_Unowned(t) ==
    /\ pc[t] = "lock" /\ LockIsFree
    /\ IF gIsInitialized
       THEN pc' = [pc EXCEPT ![t] = "loop"] /\ UNCHANGED <<gExecutorLock, call>>
       ELSE Leave(t, "kErrorNotInitialized")
    /\ UNCHANGED <<calls, gIsInitialized, gXedd, regVars, flagVars, fpuVars, gMemory,
                   sigVars, user, pre>>

Lock(t) ==
    /\ pc[t] = "lock" /\ LockIsFree
    /\ IF gIsInitialized
       THEN /\ pc' = [pc EXCEPT ![t] = "loop"]
            /\ gExecutorLock' = t
            /\ UNCHANGED call
       ELSE Leave(t, "kErrorNotInitialized")
    /\ UNCHANGED <<calls, gIsInitialized, gXedd, regVars, flagVars, fpuVars, gMemory,
                   sigVars, user, pre>>

(* num_executed <= max_num_executions. *)
MoreToExecute_OffByOne(t) == call[t].num <= call[t].max

MoreToExecute(t) == call[t].num < call[t].max

Finish(t) ==
    /\ pc[t] = "loop" /\ ~MoreToExecute(t)
    /\ Leave(t, "kGood")
    /\ UNCHANGED <<calls, gIsInitialized, gXedd, regVars, flagVars, fpuVars, gMemory,
                   sigVars, user, pre>>

(* The top of the loop body. *)
Begin(t) ==
    /\ pc[t] = "loop" /\ MoreToExecute(t)
    /\ Continue(t, "readpc")
    /\ gUsedRegs' = {} /\ gModifiedRegs' = {} /\ gStoreRegs' = {}
    /\ gStackPtrAlias' = NoReg
    /\ gUsesFPU' = FALSE /\ gUsesMMX' = FALSE
    /\ pre' = [pre EXCEPT ![t] = Client(t)]
    /\ UNCHANGED <<calls, gIsInitialized, gXedd, gRegs, flagVars, gFPU, gNativeFPU, hwFPU,
                   gMemory, sigVars, user>>

------------------------------------------------------------------------------
(* Reading the operands. *)

(* ReadRegister on each of rs: a register that is already used is not asked *)
(* for again; the storage of one whose request fails has been zeroed.       *)
ReadRegister(t, rs, failed) ==
    /\ gUsedRegs' = gUsedRegs \cup rs
    /\ gStoreRegs' = gStoreRegs \cup (rs \ gUsedRegs)
    /\ gRegs' = [r \in Regs |-> IF r \in failed THEN Zero
                                ELSE IF r \in rs \ gUsedRegs THEN Client(t).reg[r]
                                ELSE gRegs[r]]

ReadPC(t) ==
    /\ pc[t] = "readpc"
    /\ gModifiedRegs' = gModifiedRegs \cup {IP}
    /\ \/ ReadRegister(t, {IP}, {}) /\ Continue(t, "fetch")
       \/ ReadRegister(t, {IP}, {IP}) /\ Leave(t, "kErrorReadReg")
    /\ UNCHANGED <<calls, gIsInitialized, gXedd, gStackPtrAlias, flagVars, fpuVars,
                   gMemory, sigVars, user, pre>>

(* Read as many bytes as the client has, from 15 down to 1, decode them,    *)
(* and reject what neither Emulate nor the JIT can run.                     *)
Fetch(t) ==
    /\ pc[t] = "fetch"
    /\ \/ /\ \/ Leave(t, "kErrorReadInstMem")
             \/ Leave(t, "kErrorDecode")
          /\ UNCHANGED gXedd
       \/ /\ gXedd' \in Instrs
          /\ IF gXedd'.ok THEN Continue(t, "readflags")
                          ELSE Leave(t, "kErrorUnsupportedFeatures")
    /\ UNCHANGED <<calls, gIsInitialized, regVars, flagVars, fpuVars, gMemory, sigVars,
                   user, pre>>

(* ReadFlags: "as if the individual flags themselves were registers". Flags *)
(* that are not asked for keep what PUSHFQ found in the host's.             *)
ReadFlags(t) ==
    /\ pc[t] = "readflags"
    /\ gWriteBackFlags' = gXedd.fwrite
    /\ gUsedRegs' = IF gXedd.rflags THEN gUsedRegs \cup {FL} ELSE gUsedRegs
    /\ gModifiedRegs' = IF gXedd.fwrite # {} THEN gModifiedRegs \cup {FL} ELSE gModifiedRegs
    /\ \/ /\ IF gXedd.rflags
             THEN \E host \in HostFlags :
                    gFlags' = [f \in Flags |-> IF f \in FlagsIn(gXedd)
                                               THEN Client(t).flag[f] ELSE host[f]]
             ELSE UNCHANGED gFlags
          /\ Continue(t, "readregs")
       \/ /\ FlagsIn(gXedd) # {}
          /\ UNCHANGED gFlags
          /\ Leave(t, "kErrorReadFlags")
    /\ UNCHANGED <<calls, gIsInitialized, gXedd, gStoreRegs, gRegs, gStackPtrAlias,
                   fpuVars, gMemory, sigVars, user, pre>>

(* The registers of an instruction in the order ReadRegisters visits them.  *)
Visits(i) == i.addr \o i.rd \o i.wr

(* The k-th visited register is not asked for when it is used already.      *)
Fresh(k) == Visits(gXedd)[k] \notin gUsedRegs \cup {Visits(gXedd)[j] : j \in 1 .. (k - 1)}

(* ReadRegisters, up to and including its n-th visit.                       *)
Visit(t, n, failed) ==
    LET seen  == {Visits(gXedd)[k] : k \in 1 .. n}
        wr    == Len(gXedd.addr) + Len(gXedd.rd)
    IN  /\ ReadRegister(t, seen, failed)
        /\ gModifiedRegs' = gModifiedRegs \cup {Visits(gXedd)[k] : k \in (wr + 1) .. n}
        /\ gUsesMMX' = (seen \cap MMXRegs # {})
        /\ gUsesFPU' = (gXedd.x87 \/ seen \cap MMXRegs # {})

(* ReadRegisters, GetNextPC, and the test that lets a NOP skip to the end.  *)
ReadRegisters(t) ==
    /\ pc[t] = "readregs"
    /\ \/ /\ Visit(t, Len(Visits(gXedd)), {})
          /\ call' = [call EXCEPT ![t].next = Fall(gRegs'[IP])]
          /\ pc' = [pc EXCEPT ![t] = IF gXedd.kind = "nop" THEN "writeflags" ELSE "readfpu"]
          /\ UNCHANGED gExecutorLock
       \/ \E n \in 1 .. Len(Visits(gXedd)) :
            /\ Fresh(n)
            /\ Visit(t, n, {Visits(gXedd)[n]})
            /\ Leave(t, "kErrorReadReg")
    /\ UNCHANGED <<calls, gIsInitialized, gXedd, gStackPtrAlias, flagVars, gFPU,
                   gNativeFPU, hwFPU, gMemory, sigVars, user, pre>>

(* ReadFPU, then CopyMMXStateToFPU: the used MMX registers replace their    *)
(* copies in the FXSAVE area.                                               *)
ReadFPU(t) ==
    /\ pc[t] = "readfpu"
    /\ \/ /\ LET fpu == IF gUsesFPU THEN Client(t).fpu ELSE gFPU
             IN  gFPU' = IF gUsesMMX
                         THEN [fpu EXCEPT !.mm = [m \in MMXRegs |->
                                 IF m \in gUsedRegs THEN gRegs[m] ELSE fpu.mm[m]]]
                         ELSE fpu
          /\ Continue(t, "readmem")
       \/ gUsesFPU /\ UNCHANGED gFPU /\ Leave(t, "kErrorReadFPU")
    /\ UNCHANGED <<calls, gIsInitialized, gXedd, regVars, flagVars, gUsesFPU, gUsesMMX,
                   gNativeFPU, hwFPU, gMemory, sigVars, user, pre>>

(* What ReadMemory leaves for operand s, when it gets to it and reads v.    *)
MemoryRead(s, v) ==
    [present    |-> TRUE,
     write_back |-> gXedd.mem[s].written,
     address    |-> Address(gXedd, s, gRegs),
     data       |-> v]

Unread(s) == [gMemory[s] EXCEPT !.present = FALSE]

(* Every operand is read, a write-only one too, for its permissions; AGEN   *)
(* is only addressed.                                                       *)
ReadMemory(t) ==
    /\ pc[t] = "readmem"
    /\ \/ /\ gMemory' = [s \in Slots |->
               IF s \in Loaded(gXedd)
               THEN MemoryRead(s, Client(t).mem[Address(gXedd, s, gRegs)])
               ELSE IF s \in Addressed(gXedd) THEN MemoryRead(s, Zero) ELSE Unread(s)]
          /\ Continue(t, "emulate")
       \/ \E bad \in Loaded(gXedd) :
            /\ gMemory' = [s \in Slots |->
                 IF s \notin Addressed(gXedd) \/ s > bad THEN Unread(s)
                 ELSE MemoryRead(s, IF s = bad \/ s \notin Loaded(gXedd) THEN Zero
                                    ELSE Client(t).mem[Address(gXedd, s, gRegs)])]
            /\ Leave(t, "kErrorReadMem")
    /\ UNCHANGED <<calls, gIsInitialized, gXedd, regVars, flagVars, fpuVars, sigVars,
                   user, pre>>
------------------------------------------------------------------------------
(* Running the instruction. *)

(* The memory operands as the instruction sees and leaves them.             *)
SlotData == [s \in Slots |-> gMemory[s].data]
SlotAddress == [s \in Slots |-> gMemory[s].address]
StoreSlots(i, out) ==
    [s \in Slots |-> IF s \in Stored(i) THEN [gMemory[s] EXCEPT !.data = out.slot[s]]
                                        ELSE gMemory[s]]
StoreFlags(i, out) ==
    [f \in Flags |-> IF f \in i.fwrite THEN out.flag[f] ELSE gFlags[f]]

(* Emulate: does the instruction on the globals, refuses it, or leaves it   *)
(* to the JIT. A string operation marks the registers it moves as modified. *)
Emulate(t) ==
    /\ pc[t] = "emulate"
    /\ LET out == Effect(gXedd, [reg |-> gRegs, flag |-> gFlags, slot |-> SlotData,
                                 adr |-> SlotAddress, fpu |-> gFPU, pc |-> gRegs[IP]])
       IN  \/ /\ gXedd.kind = "emulated"
              /\ gRegs' = [r \in Regs |-> IF r \in Written(gXedd, gRegs) THEN out.reg[r]
                                                                         ELSE gRegs[r]]
              /\ gModifiedRegs' = IF Skipped(gXedd, gRegs) THEN gModifiedRegs
                                  ELSE gModifiedRegs \cup gXedd.inc
              /\ gFlags' = StoreFlags(gXedd, out)
              /\ gMemory' = StoreSlots(gXedd, out)
              /\ pc' = [pc EXCEPT ![t] = "writemem"]
              /\ call' = [call EXCEPT ![t].next = out.pc]
              /\ UNCHANGED gExecutorLock
           \/ /\ \/ gXedd.kind = "cfi" /\ Leave(t, "kErrorUnsupportedCFI")
                 \/ gXedd.kind = "stack" /\ Leave(t, "kErrorUnsupportedStack")
                 \/ gXedd.kind = "native" /\ Continue(t, "encode")
              /\ UNCHANGED <<gRegs, gModifiedRegs, gFlags, gMemory>>
    /\ UNCHANGED <<calls, gIsInitialized, gXedd, gUsedRegs, gStoreRegs, gStackPtrAlias,
                   gWriteBackFlags, fpuVars, sigVars, user, pre>>

(* Any register that holds nothing of the client's. *)
FreeAliases_AnyRegister == Regs \ gStoreRegs

(* Any candidate that the instruction does not write. *)
FreeAliases_NotWritten == AliasRegs \ gModifiedRegs

FreeAliases == AliasRegs \ gStoreRegs

(* GetStackPointerAlias: the first of RAX, RCX, RDX, RBX that holds nothing *)
(* of the client's.                                                         *)
StackPointerAlias ==
    IF FreeAliases = {} THEN NoReg
    ELSE CHOOSE r \in FreeAliases : \A q \in FreeAliases : r <= q

(* CreateEncodableInstruction and EncodeInstruction. The instruction cannot *)
(* run with the client's stack pointer, so an alias stands for it; without  *)
(* one, or when XED refuses the operands, there is nothing to run.          *)
Encode(t) ==
    /\ pc[t] = "encode"
    /\ LET usesSP == SP \in Elems(gXedd.rd) \cup Elems(gXedd.wr)
           alias  == IF usesSP THEN StackPointerAlias ELSE NoReg
       IN  /\ gStackPtrAlias' = alias
           /\ gRegs' = [r \in Regs |-> IF r = alias THEN gRegs[SP] ELSE gRegs[r]]
           /\ \/ ~(usesSP /\ alias = NoReg) /\ Continue(t, "install")
              \/ Leave(t, "kErrorExecute")
    /\ UNCHANGED <<calls, gIsInitialized, gXedd, gUsedRegs, gModifiedRegs, gStoreRegs,
                   flagVars, fpuVars, gMemory, sigVars, user, pre>>

(* gSignal is not cleared. *)
ClearedSignal_Stale == gSignal

ClearedSignal == "none"

(* gSignal = 0, and the four calls of sigaction. *)
InstallHandlers(t) ==
    /\ pc[t] = "install"
    /\ gSignal' = ClearedSignal
    /\ gSavedHandlers' = handlers
    /\ handlers' = "microx"
    /\ Continue(t, "loadfpu")
    /\ UNCHANGED <<calls, gIsInitialized, gXedd, regVars, flagVars, fpuVars, gMemory,
                   gRecoveryTarget, user, pre>>

LoadFPU(t) ==
    /\ pc[t] = "loadfpu"
    /\ IF gUsesFPU
       THEN gNativeFPU' = hwFPU[t] /\ hwFPU' = [hwFPU EXCEPT ![t] = gFPU]
       ELSE UNCHANGED <<gNativeFPU, hwFPU>>
    /\ Continue(t, "sigsetjmp")
    /\ UNCHANGED <<calls, gIsInitialized, gXedd, regVars, flagVars, gUsesFPU, gUsesMMX,
                   gFPU, gMemory, sigVars, user, pre>>

SigSetJmp(t) ==
    /\ pc[t] = "sigsetjmp"
    /\ gRecoveryTarget' = t
    /\ Continue(t, "native")
    /\ UNCHANGED <<calls, gIsInitialized, gXedd, regVars, flagVars, fpuVars, gMemory,
                   gSignal, gSavedHandlers, handlers, user, pre>>

(* ExecuteNative exchanges NativeRegs with the host's registers around the  *)
(* JITed instruction. A register it does not exchange has the host's value. *)
ExecuteNative(t) ==
    /\ pc[t] = "native" /\ call[t].ex \notin HasAVX
    /\ \E host \in HostVals :
       LET alias == gStackPtrAlias
           reg == [r \in Regs |-> IF r = SP /\ alias # NoReg THEN gRegs[alias]
                                  ELSE IF r \in NativeRegs THEN gRegs[r] ELSE host]
           out == Effect(gXedd, [reg |-> reg, flag |-> gFlags, slot |-> SlotData,
                                 adr |-> SlotAddress, fpu |-> hwFPU[t], pc |-> gRegs[IP]])
       IN  \/ /\ out.sig = "none"
              /\ gRegs' = [r \in Regs |->
                    IF r = alias THEN IF SP \in Elems(gXedd.wr) THEN out.reg[SP] ELSE gRegs[r]
                    ELSE IF r \in NativeRegs \cap Elems(gXedd.wr) THEN out.reg[r]
                    ELSE gRegs[r]]
              /\ gFlags' = StoreFlags(gXedd, out)
              /\ gMemory' = StoreSlots(gXedd, out)
              /\ hwFPU' = IF gUsesFPU THEN [hwFPU EXCEPT ![t] = out.fpu] ELSE hwFPU
              /\ UNCHANGED gSignal
              /\ Continue(t, "storefpu")
           \* The instruction raises a signal: RecoverFromError jumps back to the
           \* sigsetjmp, and the exchanged registers stay exchanged.
           \/ /\ out.sig # "none"
              /\ gSignal' = out.sig
              /\ gRegs' = [r \in Regs |-> IF r \in NativeRegs THEN host ELSE gRegs[r]]
              /\ UNCHANGED <<gFlags, gMemory, hwFPU>>
              /\ Continue(gRecoveryTarget, "storefpu")
    /\ UNCHANGED <<calls, gIsInitialized, gXedd, gUsedRegs, gModifiedRegs, gStoreRegs,
                   gStackPtrAlias, gWriteBackFlags, gUsesFPU, gUsesMMX, gFPU, gNativeFPU,
                   gRecoveryTarget, gSavedHandlers, handlers, user, pre>>

(* ExecuteNativeAVX and ExecuteNativeAVX512 are not implemented. *)
ExecuteNativeAVX(t) ==
    /\ pc[t] = "native" /\ call[t].ex \in HasAVX
    /\ gSignal' = "SIGILL"
    /\ Continue(t, "storefpu")
    /\ UNCHANGED <<calls, gIsInitialized, gXedd, regVars, flagVars, fpuVars, gMemory,
                   gRecoveryTarget, gSavedHandlers, handlers, user, pre>>

StoreFPU(t) ==
    /\ pc[t] = "storefpu"
    /\ IF gUsesFPU
       THEN gFPU' = hwFPU[t] /\ hwFPU' = [hwFPU EXCEPT ![t] = gNativeFPU]
       ELSE UNCHANGED <<gFPU, hwFPU>>
    /\ Continue(t, "restore")
    /\ UNCHANGED <<calls, gIsInitialized, gXedd, regVars, flagVars, gUsesFPU, gUsesMMX,
                   gNativeFPU, gMemory, sigVars, user, pre>>

(* The handlers are not restored when the instruction faulted. *)
RestoredHandlers_EarlyReturn == IF gSignal = "none" THEN gSavedHandlers ELSE handlers

RestoredHandlers == gSavedHandlers

(* The sigaction calls that restore the handlers, and the switch on gSignal. *)
RestoreHandlers(t) ==
    /\ pc[t] = "restore"
    /\ handlers' = RestoredHandlers
    /\ CASE gSignal = "none" -> Continue(t, "writemem")
         [] gSignal \in {"SIGSEGV", "SIGBUS"} -> Leave(t, "kErrorFault")
         [] gSignal = "SIGFPE" -> Leave(t, "kErrorFloatingPointException")
         [] OTHER -> Leave(t, "kErrorExecute")
    /\ UNCHANGED <<calls, gIsInitialized, gXedd, regVars, flagVars, fpuVars, gMemory,
                   gSignal, gRecoveryTarget, gSavedHandlers, user, pre>>
------------------------------------------------------------------------------
(* Writing the results back. *)

WriteBackSlots == {s \in Slots : gMemory[s].present /\ gMemory[s].write_back}

(* WriteMem has already stored when it fails. *)
WrittenBefore_Inclusive(locs, bad) == {s \in locs : s <= bad}

(* What has been written when the write of bad is refused: the locations    *)
(* that are visited before it.                                              *)
WrittenBefore(locs, bad) == {s \in locs : s < bad}

(* The client's memory after WriteMem for the operands in slots. *)
MemoryWith(mem, slots) ==
    [a \in Val |-> IF \E s \in slots : gMemory[s].address = a
                   THEN gMemory[CHOOSE s \in slots : gMemory[s].address = a].data
                   ELSE mem[a]]

WriteMemory(t) ==
    /\ pc[t] = "writemem"
    /\ \/ /\ user' = [user EXCEPT ![call[t].ex].mem = MemoryWith(@, WriteBackSlots)]
          /\ Continue(t, "writefpu")
       \/ \E bad \in WriteBackSlots :
            /\ user' = [user EXCEPT ![call[t].ex].mem =
                          MemoryWith(@, WrittenBefore(WriteBackSlots, bad))]
            /\ Leave(t, "kErrorWriteMem")
    /\ UNCHANGED <<calls, gIsInitialized, gXedd, regVars, flagVars, fpuVars, gMemory,
                   sigVars, pre>>

(* WriteFPU, then CopyMMXStateFromFPU. *)
WriteFPU(t) ==
    /\ pc[t] = "writefpu"
    /\ \/ /\ user' = IF gUsesFPU THEN [user EXCEPT ![call[t].ex].fpu = gFPU] ELSE user
          /\ gRegs' = IF gUsesMMX
                      THEN [r \in Regs |-> IF r \in MMXRegs \cap gUsedRegs THEN gFPU.mm[r]
                                                                           ELSE gRegs[r]]
                      ELSE gRegs
          /\ Continue(t, "writeflags")
       \/ gUsesFPU /\ Leave(t, "kErrorWriteFPU") /\ UNCHANGED <<user, gRegs>>
    /\ UNCHANGED <<calls, gIsInitialized, gXedd, gUsedRegs, gModifiedRegs, gStoreRegs,
                   gStackPtrAlias, flagVars, fpuVars, gMemory, sigVars, pre>>

FlagsWith(flag, fs) == [f \in Flags |-> IF f \in fs THEN gFlags[f] ELSE flag[f]]

(* RFLAGS stays among the registers to report. *)
WithoutFlags_Kept(regs) == regs

WithoutFlags(regs) == regs \ {FL}

(* RFLAGS leaves the used and modified registers, so that WriteRegisters    *)
(* does not report it as a register as well.                                *)
WriteFlags(t) ==
    /\ pc[t] = "writeflags"
    /\ IF FL \notin gModifiedRegs
       THEN Continue(t, "writeregs") /\ UNCHANGED <<gUsedRegs, gModifiedRegs,
                                                    gWriteBackFlags, user>>
       ELSE /\ gUsedRegs' = WithoutFlags(gUsedRegs)
            /\ gModifiedRegs' = WithoutFlags(gModifiedRegs)
            /\ \/ /\ user' = [user EXCEPT ![call[t].ex].flag = FlagsWith(@, gWriteBackFlags)]
                  /\ gWriteBackFlags' = {}
                  /\ Continue(t, "writeregs")
               \/ \E bad \in gWriteBackFlags :
                    /\ user' = [user EXCEPT ![call[t].ex].flag =
                                  FlagsWith(@, WrittenBefore(gWriteBackFlags, bad))]
                    /\ UNCHANGED gWriteBackFlags
                    /\ Leave(t, "kErrorWriteFlags")
    /\ UNCHANGED <<calls, gIsInitialized, gXedd, gStoreRegs, gRegs, gStackPtrAlias, gFlags,
                   fpuVars, gMemory, sigVars, pre>>

(* The stack pointer takes the value of its alias. *)
UnaliasedRegs ==
    IF gStackPtrAlias = NoReg THEN gRegs ELSE [gRegs EXCEPT ![SP] = gRegs[gStackPtrAlias]]

(* The PC is reported in its place in the enumeration. *)
WriteBackRegs_PCInOrder == gUsedRegs \cap gModifiedRegs

(* What WriteRegisters reports, in increasing order, before the PC. *)
WriteBackRegs == (gUsedRegs \cap gModifiedRegs) \ {IP}

RegistersWith(reg, rs) == [r \in Regs |-> IF r \in rs THEN gRegs'[r] ELSE reg[r]]

(* SetNextPC and WriteRegisters, the PC last; and ++num_executed. *)
WriteRegisters(t) ==
    /\ pc[t] = "writeregs"
    /\ gRegs' = [UnaliasedRegs EXCEPT ![IP] = call[t].next]
    /\ gStackPtrAlias' = NoReg
    /\ \/ /\ user' = [user EXCEPT ![call[t].ex].reg =
                        RegistersWith(@, WriteBackRegs \cup (gUsedRegs \cap {IP}))]
          /\ pc' = [pc EXCEPT ![t] = "loop"]
          /\ call' = [call EXCEPT ![t].num = @ + 1]
          /\ UNCHANGED gExecutorLock
       \/ \E bad \in WriteBackRegs :
            /\ user' = [user EXCEPT ![call[t].ex].reg =
                          RegistersWith(@, WrittenBefore(WriteBackRegs, bad))]
            /\ Leave(t, "kErrorWriteReg")
       \/ /\ user' = [user EXCEPT ![call[t].ex].reg = RegistersWith(@, WriteBackRegs)]
          /\ Leave(t, "kErrorWriteReg")
    /\ UNCHANGED <<calls, gIsInitialized, gXedd, gUsedRegs, gModifiedRegs, gStoreRegs,
                   flagVars, fpuVars, gMemory, sigVars, pre>>

(* The caller takes the status. *)
Return(t) ==
    /\ pc[t] = "ret"
    /\ pc' = [pc EXCEPT ![t] = "idle"]
    /\ UNCHANGED <<call, gExecutorLock, calls, gIsInitialized, gXedd, regVars, flagVars,
                   fpuVars, gMemory, sigVars, user, pre>>
------------------------------------------------------------------------------
(* What a thread does inside Execute, once it has called it. *)
Progress(t) ==
    \/ Lock(t) \/ Finish(t) \/ Begin(t)
    \/ ReadPC(t) \/ Fetch(t) \/ ReadFlags(t) \/ ReadRegisters(t) \/ ReadFPU(t)
    \/ ReadMemory(t) \/ Emulate(t) \/ Encode(t)
    \/ InstallHandlers(t) \/ LoadFPU(t) \/ SigSetJmp(t) \/ ExecuteNative(t)
    \/ ExecuteNativeAVX(t) \/ StoreFPU(t) \/ RestoreHandlers(t)
    \/ WriteMemory(t) \/ WriteFPU(t) \/ WriteFlags(t) \/ WriteRegisters(t)
    \/ Return(t)

(* Every call has been made and has returned. *)
Done ==
    /\ calls = MaxCalls /\ \A t \in Threads : pc[t] = "idle"
    /\ UNCHANGED vars

Next == \/ \E t \in Threads : InitExecutor(t) \/ Call(t) \/ Progress(t)
        \/ Done

Spec == Init /\ [][Next]_vars

(* A thread that has called Execute keeps running. *)
FairSpec == Spec /\ \A t \in Threads : WF_vars(Progress(t))
------------------------------------------------------------------------------
(* Properties *)

Call_ == [ex : Execs, max : 0 .. MaxExecutions, num : Nat, next : Val, status : Statuses]

CallsType ==
    /\ pc \in [Threads -> Stages]
    /\ call \in [Threads -> Call_]
    /\ calls \in 0 .. MaxCalls
    /\ gExecutorLock \in Threads \cup {NoThread}
    /\ gIsInitialized \in BOOLEAN
    /\ gXedd \in Instrs

RegsType ==
    /\ gUsedRegs \in SUBSET Regs /\ gModifiedRegs \in SUBSET Regs
    /\ gStoreRegs \in SUBSET Regs
    /\ gRegs \in [Regs -> Val]
    /\ gStackPtrAlias \in AliasRegs \cup {NoReg}

FlagsType == gFlags \in [Flags -> Bit] /\ gWriteBackFlags \in SUBSET Flags

FPUType ==
    /\ gUsesFPU \in BOOLEAN /\ gUsesMMX \in BOOLEAN
    /\ gFPU \in FPU /\ gNativeFPU \in FPU
    /\ hwFPU \in [Threads -> FPU]

MemoryType == gMemory \in [Slots -> MemoryOperand]

SignalsType ==
    /\ gSignal \in Signals \cup {"none"}
    /\ gRecoveryTarget \in Threads \cup {NoThread}
    /\ gSavedHandlers \in {"host", "microx"} /\ handlers \in {"host", "microx"}

ClientsType == user \in [Execs -> State] /\ pre \in [Threads -> State]

(* Every global keeps a value of its type; in particular the register that  *)
(* stands for the stack pointer is one that GetStackPointerAlias may take.  *)
TypeOK == /\ CallsType /\ RegsType /\ FlagsType /\ FPUType /\ MemoryType
          /\ SignalsType /\ ClientsType

Outside == {"idle", "lock", "ret"}

(* The globals have one owner: a thread is past LockGuard, and has not      *)
(* returned, exactly while gExecutorLock is its own, whichever of the       *)
(* returns of Execute it takes.                                             *)
MutualExclusion == \A t \in Threads : pc[t] \notin Outside <=> gExecutorLock = t

(* Execute(n) runs at most n instructions: inside the loop body there is    *)
(* always one left to run, and a call that returns kGood has run them all.  *)
IterationBound ==
    \A t \in Threads :
       /\ pc[t] \notin {"idle", "ret"} => call[t].num <= call[t].max
       /\ pc[t] \notin Outside \cup {"loop"} => call[t].num < call[t].max
       /\ pc[t] = "ret" /\ call[t].status = "kGood" => call[t].num = call[t].max

Window == {"loadfpu", "sigsetjmp", "native", "storefpu", "restore"}
FPUWindow == {"sigsetjmp", "native", "storefpu"}

(* The host gets its process back: outside the stretch of Execute around    *)
(* the JITed instruction the host's signal handlers are installed and every *)
(* thread has its own FPU state, also after a fault and after the switch    *)
(* between clients that use the FPU and clients that do not.                *)
HostRestored ==
    /\ (\A t \in Threads : pc[t] \notin Window) => handlers = "host"
    /\ \A t \in Threads : pc[t] \notin FPUWindow => hwFPU[t] = HostFPU[t]

(* When an iteration of Execute completes, the client's registers, flags,   *)
(* memory and FPU are what the processor would have made of the state they  *)
(* had when it began: nothing that an earlier instruction, another client,  *)
(* the host or an aborted call left in the globals shows up in them.        *)
StepCorrect ==
    \A t \in Threads :
       pc[t] = "loop" /\ call[t].num > 0 => Client(t) = ISA(gXedd, pre[t])

(* The step in which the call of t returns with an error of the instruction. *)
Fails(t) == /\ pc[t] \notin Outside /\ pc'[t] = "ret"
            /\ call'[t].status # "kGood"

WriteErrors == {"kErrorWriteFPU", "kErrorWriteFlags", "kErrorWriteReg"}

(* "a failure of the instruction leaves no side-effects (on memory)": any   *)
(* error up to and including a refused WriteMem leaves the client's whole   *)
(* state as it was when the instruction began.                              *)
FailureAtomic ==
    [][\A t \in Threads :
         Fails(t) /\ call'[t].status \notin WriteErrors => user'[call[t].ex] = pre[t]]_vars

(* Every location of the state s is as in a or as in b. *)
Between(s, a, b) ==
    /\ \A r \in Regs : s.reg[r] \in {a.reg[r], b.reg[r]}
    /\ \A f \in Flags : s.flag[f] \in {a.flag[f], b.flag[f]}
    /\ \A v \in Val : s.mem[v] \in {a.mem[v], b.mem[v]}
    /\ s.fpu \in {a.fpu, b.fpu}

(* A write-back that is refused half way leaves every location with its old *)
(* or its new value, and the PC, which is written last, with its old one:   *)
(* the client can see that the instruction has not retired.                 *)
TornWriteBack ==
    [][\A t \in Threads :
         Fails(t) => /\ user'[call[t].ex].reg[IP] = pre[t].reg[IP]
                     /\ Between(user'[call[t].ex], pre[t], ISA(gXedd, pre[t]))]_vars

(* A fault is reported exactly when the instruction raises it: the signal   *)
(* of an earlier instruction is not taken for one of this instruction, and  *)
(* no instruction that faults retires.                                      *)
FaultsReported ==
    [][\A t \in Threads :
         LET sig == ISAEffect(gXedd, pre[t]).sig
         IN  /\ Fails(t) /\ call'[t].status = "kErrorFloatingPointException" =>
                  sig = "SIGFPE"
             /\ Fails(t) /\ call'[t].status = "kErrorFault" => sig \in {"SIGSEGV", "SIGBUS"}
             /\ pc[t] = "writeregs" /\ pc'[t] = "loop" /\ gXedd.kind = "native" =>
                  sig = "none"]_vars

(* What makes HostRestored inductive: which handlers and which FPU images    *)
(* are where at each stage of the window, and that a signal raised by the   *)
(* JITed instruction brings its own thread back.                            *)
WindowInv ==
    /\ \A t \in Threads : pc[t] = "native" => gRecoveryTarget = t
    /\ \A t \in Threads : pc[t] \in Window => gSavedHandlers = "host"
    /\ \A t \in Threads :
         pc[t] \in FPUWindow => IF gUsesFPU THEN gNativeFPU = HostFPU[t]
                                            ELSE hwFPU[t] = HostFPU[t]

(* Every call returns, whichever way the calls of other threads end.        *)
CallsReturn == \A t \in Threads : pc[t] = "lock" ~> pc[t] = "idle"
==============================================================================
