----------------------- MODULE ExecutorRefinementProofs -----------------------
(***************************************************************************)
(* What a client can rely on, whoever else calls Execute: an instruction   *)
(* that retires has the effect it has on a processor, one that fails has   *)
(* none or leaves a torn write-back that has not retired, and so Execute   *)
(* implements one instruction at a time on each client's machine.          *)
(***************************************************************************)
EXTENDS ExecutorRefinement, ExecutorValueProofs

(* When ExecuteNative exchanges the registers of every instruction, every   *)
(* iteration that completes has done to the client's machine what the       *)
(* processor would have.                                                    *)
THEOREM RetiresCorrectly ==
    ASSUME AllExchanged
    PROVE  Spec => []StepCorrect
<1>1. TypeOK /\ ValueInv => StepCorrect
  BY DEF AllExchanged, TypeOK, CallsType, ValueInv, StageInv, ClientInv, StepCorrect, After
<1> QED BY <1>1, ValueInvariant, TypeCorrect, PTL

------------------------------------------------------------------------------
(* How the loop body ends. *)

(* Only its own thread takes a call from one stage of the loop to another. *)
LEMMA OwnStep ==
    ASSUME SafetyInv, NEW t \in Threads, pc[t] \notin Outside, NEW u \in Threads \ {t},
           InitExecutor(u) \/ Call(u) \/ Progress(u)
    PROVE  pc'[t] = pc[t] /\ UNCHANGED user
<1>1. pc[u] \in Outside /\ ~LockIsFree
  BY Alone, ThreadAssumption DEF LockIsFree
<1>2. Call(u) \/ Return(u)
  BY <1>1
  DEF Progress, InitExecutor, Lock, Finish, Begin, ReadPC, Fetch, ReadFlags, ReadRegisters,
      ReadFPU, ReadMemory, Emulate, Encode, InstallHandlers, LoadFPU, SigSetJmp, ExecuteNative,
      ExecuteNativeAVX, StoreFPU, RestoreHandlers, WriteMemory, WriteFPU, WriteFlags,
      WriteRegisters, Outside
<1>3. pc \in [Threads -> Stages]
  BY DEF SafetyInv, TypeOK, CallsType
<1> QED BY <1>2, <1>3 DEF Call, Return

(* An error before the write-back: the signal of the instruction is known   *)
(* in RestoreHandlers.                                                      *)
EarlyError(t) ==
    /\ pc[t] \in Untouched \ {"writemem"} /\ UNCHANGED user
    /\ call'[t].status \notin WriteErrors \cup {"kErrorWriteMem"}
    /\ call'[t].status = "kErrorFault" => pc[t] = "restore" /\ gSignal \in {"SIGSEGV", "SIGBUS"}
    /\ call'[t].status = "kErrorFloatingPointException" =>
         pc[t] = "restore" /\ gSignal = "SIGFPE"

(* An error in it: what has been written is what precedes the refused item. *)
MemoryError(t) ==
    /\ pc[t] = "writemem" /\ call'[t].status = "kErrorWriteMem"
    /\ \E bad \in WriteBackSlots :
         user' = [user EXCEPT ![call[t].ex].mem =
                    MemoryWith(@, WrittenBefore(WriteBackSlots, bad))]
FPUError(t) ==
    pc[t] = "writefpu" /\ call'[t].status = "kErrorWriteFPU" /\ UNCHANGED user
FlagsError(t) ==
    /\ pc[t] = "writeflags" /\ call'[t].status = "kErrorWriteFlags"
    /\ \E fs \in SUBSET gWriteBackFlags :
         user' = [user EXCEPT ![call[t].ex].flag = FlagsWith(@, fs)]
RegistersError(t) ==
    /\ pc[t] = "writeregs" /\ call'[t].status = "kErrorWriteReg"
    /\ gRegs' = [UnaliasedRegs EXCEPT ![IP] = call[t].next]
    /\ \E rs \in SUBSET WriteBackRegs :
         user' = [user EXCEPT ![call[t].ex].reg = RegistersWith(@, rs)]

LEMMA Failure ==
    ASSUME SafetyInv, [Next]_vars, NEW t \in Threads, Fails(t)
    PROVE  /\ call'[t].ex = call[t].ex
           /\ \/ EarlyError(t) \/ MemoryError(t) \/ FPUError(t) \/ FlagsError(t)
              \/ RegistersError(t)
<1>1. TypeOK /\ pc[t] \notin Outside /\ pc'[t] = "ret" /\ pc'[t] # pc[t]
      /\ call'[t].status # "kGood"
  BY DEF Fails, SafetyInv, Outside
<1>2. InitExecutor(t) \/ Call(t) \/ Progress(t)
  <2>1. PICK u \in Threads : InitExecutor(u) \/ Call(u) \/ Progress(u)
    BY <1>1 DEF Next, Done, vars, callVars
  <2>2. u = t
    BY <1>1, <2>1, OwnStep
  <2> QED BY <2>1, <2>2
<1>3. \A stage : Continue(t, stage) => stage = "ret"
  BY <1>1, Goes
<1>4. \A status : Leave(t, status) => call'[t].status = status /\ call'[t].ex = call[t].ex
  BY <1>1, Leaves
<1>5. pc \in [Threads -> Stages] /\ call \in [Threads -> Call_]
  BY <1>1 DEF TypeOK, CallsType
<1>6. CASE InitExecutor(t) \/ Call(t) \/ Lock(t) \/ Return(t)
  BY <1>1, <1>6 DEF InitExecutor, Call, Lock, Return, Outside
<1>7. CASE Finish(t) \/ Begin(t)
  BY <1>1, <1>3, <1>4, <1>7 DEF Finish, Begin
<1>8. CASE ReadPC(t) \/ Fetch(t) \/ ReadFlags(t)
  <2>1. /\ ReadPC(t) => Leave(t, "kErrorReadReg")
        /\ ReadFlags(t) => Leave(t, "kErrorReadFlags")
    BY <1>3 DEF ReadPC, ReadFlags
  <2>2. Fetch(t) => \/ Leave(t, "kErrorReadInstMem") \/ Leave(t, "kErrorDecode")
                    \/ Leave(t, "kErrorUnsupportedFeatures")
    BY <1>3 DEF Fetch
  <2> QED BY <1>4, <1>8, <2>1, <2>2
          DEF ReadPC, Fetch, ReadFlags, EarlyError, Untouched, BeforeRegs, WriteErrors
<1>9. CASE ReadRegisters(t) \/ ReadFPU(t) \/ ReadMemory(t)
  <2>1. ReadRegisters(t) => Leave(t, "kErrorReadReg")
    BY <1>1, <1>5 DEF ReadRegisters
  <2>2. /\ ReadFPU(t) => Leave(t, "kErrorReadFPU")
        /\ ReadMemory(t) => Leave(t, "kErrorReadMem")
    BY <1>3 DEF ReadFPU, ReadMemory
  <2>3. pc[t] \in {"readregs", "readfpu", "readmem"} /\ UNCHANGED user
    BY <1>9 DEF ReadRegisters, ReadFPU, ReadMemory
  <2> QED BY <1>4, <1>9, <2>1, <2>2, <2>3
          DEF EarlyError, Untouched, BeforeRegs, BeforeRun, WriteErrors
<1>10. CASE Emulate(t) \/ Encode(t)
  <2>1. Emulate(t) => \/ Leave(t, "kErrorUnsupportedCFI")
                      \/ Leave(t, "kErrorUnsupportedStack")
    BY <1>1, <1>3, <1>5 DEF Emulate
  <2>2. Encode(t) => Leave(t, "kErrorExecute")
    BY <1>3 DEF Encode
  <2> QED BY <1>4, <1>10, <2>1, <2>2
          DEF Emulate, Encode, EarlyError, Untouched, BeforeRun, BeforeNative, WriteErrors
<1>11. CASE \/ InstallHandlers(t) \/ LoadFPU(t) \/ SigSetJmp(t) \/ ExecuteNativeAVX(t)
            \/ StoreFPU(t)
  BY <1>3, <1>11 DEF InstallHandlers, LoadFPU, SigSetJmp, ExecuteNativeAVX, StoreFPU
<1>12. CASE ExecuteNative(t)
  <2>1. pc[t] = "native" /\ gRecoveryTarget = t
    BY <1>12 DEF ExecuteNative, SafetyInv, WindowInv
  <2> QED BY <1>3, <1>12, <2>1 DEF ExecuteNative
<1>13. CASE RestoreHandlers(t)
  BY <1>3, <1>4, <1>13 DEF RestoreHandlers, EarlyError, Untouched, AfterNative, WriteErrors
<1>14. CASE WriteMemory(t)
  BY <1>3, <1>4, <1>14 DEF WriteMemory, MemoryError
<1>15. CASE WriteFPU(t)
  BY <1>3, <1>4, <1>15 DEF WriteFPU, FPUError
<1>16. CASE WriteFlags(t)
  BY <1>3, <1>4, <1>16 DEF WriteFlags, FlagsError, WrittenBefore
<1>17. CASE WriteRegisters(t)
  <2>1. \A bad : WrittenBefore(WriteBackRegs, bad) \in SUBSET WriteBackRegs
    BY DEF WrittenBefore
  <2>2. pc' # [pc EXCEPT ![t] = "loop"]
    BY <1>1, <1>5
  <2> QED BY <1>4, <1>17, <2>1, <2>2 DEF WriteRegisters, RegistersError
<1> QED BY <1>2, <1>6, <1>7, <1>8, <1>9, <1>10, <1>11, <1>12, <1>13, <1>14, <1>15, <1>16, <1>17
        DEF Progress


------------------------------------------------------------------------------
(* Failures. *)

(* Storing nothing changes nothing. *)
LEMMA NothingStored ==
    ASSUME NEW mem \in [Val -> Val]
    PROVE  MemoryWith(mem, {}) = mem
BY DEF MemoryWith

(* A refused result is the only memory result there is, so that nothing has *)
(* been stored before it.                                                   *)
LEMMA FailureKeepsClient ==
    ASSUME SafetyInv, ValueInv, NEW t \in Threads, call'[t].ex = call[t].ex,
           EarlyError(t) \/ MemoryError(t)
    PROVE  user'[call[t].ex] = pre[t]
<1>1. /\ StageInv(t) /\ gXedd \in Instrs /\ call[t].ex \in Execs /\ user \in [Execs -> State]
      /\ pre[t] \in State
  BY DEF SafetyInv, ValueInv, TypeOK, CallsType, Call_, ClientsType
<1>2. Client(t) = pre[t]
  BY <1>1 DEF StageInv, ClientInv, EarlyError, MemoryError, Untouched
<1>3. CASE EarlyError(t)
  BY <1>2, <1>3 DEF EarlyError, Client
<1>4. CASE MemoryError(t)
  <2>1. PICK bad \in WriteBackSlots :
          user' = [user EXCEPT ![call[t].ex].mem =
                     MemoryWith(@, WrittenBefore(WriteBackSlots, bad))]
    BY <1>4 DEF MemoryError
  <2>2. WriteBackSlots = Stored(gXedd)
    BY <1>1, <1>4 DEF StageInv, ResultsInv, Results, MemoryError
  <2>3. \A s, k \in Stored(gXedd) : s = k /\ s \in {0, 1}
    BY <1>1, InstrFacts DEF Stored, Slots
  <2>4. WrittenBefore(WriteBackSlots, bad) = {}
    BY <2>2, <2>3 DEF WrittenBefore
  <2>5. user[call[t].ex] \in State /\ user[call[t].ex].mem \in [Val -> Val]
    BY <1>1 DEF State
  <2>6. user'[call[t].ex] = [user[call[t].ex] EXCEPT !.mem = user[call[t].ex].mem]
    BY <1>1, <2>1, <2>4, <2>5, NothingStored
  <2>7. user'[call[t].ex] = user[call[t].ex]
    BY <2>5, <2>6 DEF State
  <2> QED BY <1>2, <2>7 DEF Client
<1> QED BY <1>3, <1>4

(* An error of Execute up to and including a refused WriteMem has no        *)
(* effect on the client's machine, not even for the instructions that       *)
(* ExecuteNative runs with registers of the host's.                         *)
THEOREM FailsAtomically == Spec => FailureAtomic
<1>1. SafetyInv /\ ValueInv /\ [Next]_vars =>
        [\A t \in Threads :
           Fails(t) /\ call'[t].status \notin WriteErrors => user'[call[t].ex] = pre[t]]_vars
  <2> SUFFICES ASSUME SafetyInv, ValueInv, [Next]_vars, NEW t \in Threads, Fails(t),
                      call'[t].status \notin WriteErrors
               PROVE  user'[call[t].ex] = pre[t]
    OBVIOUS
  <2>1. call'[t].ex = call[t].ex /\ (EarlyError(t) \/ MemoryError(t))
    BY Failure DEF FPUError, FlagsError, RegistersError, WriteErrors
  <2> QED BY <2>1, FailureKeepsClient
<1> QED BY <1>1, SafetyInvariant, ValueInvariant, PTL DEF FailureAtomic, Spec


(* A write-back that is refused stops between the old and the new state,    *)
(* and before the PC.                                                       *)
LEMMA RefusedWriteBack ==
    ASSUME SafetyInv, ValueInv, NEW t \in Threads, Exchanged(gXedd),
           call'[t].ex = call[t].ex,
           FPUError(t) \/ FlagsError(t) \/ RegistersError(t)
    PROVE  /\ gXedd.ok
           /\ user'[call[t].ex].reg[IP] = pre[t].reg[IP]
           /\ Between(user'[call[t].ex], pre[t], ISA(gXedd, pre[t]))
<1> DEFINE i == gXedd
           p == pre[t]
           new == ISA(i, p)
           c == user'[call[t].ex]
<1>1. TypeOK /\ StageInv(t) /\ i \in Instrs /\ p \in State
      /\ pc[t] \in {"writefpu", "writeflags", "writeregs"}
  BY DEF SafetyInv, ValueInv, TypeOK, CallsType, ClientsType, FPUError, FlagsError,
         RegistersError
<1>2. After(t) = new /\ i.ok
  BY <1>1 DEF After, StageInv, KindInv, Outside
<1>3. new \in State /\ Written(i, p.reg) \subseteq Regs \ {IP} /\ IP \in Regs
      /\ i.fwrite \subseteq Flags
  <2> HIDE DEF i, p
  <2> QED BY <1>1, ISAFrame, WrittenNeeded, InstrFacts, RegAssumption DEF new
<1> HIDE DEF new
<1>4. p.reg \in [Regs -> Val] /\ p.flag \in [Flags -> Bit] /\ new.reg \in [Regs -> Val]
  BY <1>1, <1>3 DEF State
<1>5. CASE FPUError(t)
  <2>1. c = [p EXCEPT !.mem = new.mem]
    BY <1>1, <1>2, <1>5 DEF FPUError, StageInv, ClientInv, Client
  <2>2. c.reg = p.reg /\ c.flag = p.flag /\ c.mem = new.mem /\ c.fpu = p.fpu
    BY <1>1, <2>1 DEF State
  <2> QED BY <1>2, <2>2 DEF Between, new
<1>6. CASE FlagsError(t)
  <2>1. /\ Client(t) = [p EXCEPT !.mem = new.mem, !.fpu = new.fpu]
        /\ gWriteBackFlags = i.fwrite
        /\ \A f \in i.fwrite : gFlags[f] = new.flag[f]
    BY <1>1, <1>2, <1>6
    DEF FlagsError, StageInv, ClientInv, SetsInv, ResultsInv, Outside, BeforeRegs
  <2>2. PICK fs \in SUBSET gWriteBackFlags :
          user' = [user EXCEPT ![call[t].ex] =
                     [Client(t) EXCEPT !.flag = FlagsWith(Client(t).flag, fs)]]
    BY <1>6 DEF FlagsError, Client
  <2>3. c = [Client(t) EXCEPT !.flag = FlagsWith(Client(t).flag, fs)]
    BY <1>1, <2>2, ClientWrite DEF Client
  <2>4. /\ Client(t).flag = p.flag /\ Client(t).reg = p.reg /\ Client(t).mem = new.mem
        /\ Client(t).fpu = new.fpu
    BY <1>1, <2>1 DEF State
  <2>5. c.reg = p.reg /\ c.flag = FlagsWith(p.flag, fs) /\ c.mem = new.mem /\ c.fpu = new.fpu
    <3>1. Client(t) \in State
      BY <1>1 DEF Client, TypeOK, CallsType, Call_, ClientsType
    <3> HIDE DEF c
    <3> QED BY <2>3, <2>4, <3>1 DEF State
  <2>6. \A f \in Flags : c.flag[f] \in {p.flag[f], new.flag[f]}
    BY <2>1, <2>5 DEF FlagsWith
  <2> QED BY <1>2, <2>5, <2>6 DEF Between, new
<1>7. CASE RegistersError(t)
  <2>1. /\ Client(t) = [new EXCEPT !.reg = p.reg]
        /\ WriteBackRegs = Written(i, p.reg)
        /\ \A r \in Written(i, p.reg) : UnaliasedRegs[r] = new.reg[r]
    BY <1>1, <1>2, <1>7
    DEF RegistersError, StageInv, ClientInv, SetsInv, ResultsInv
  <2>2. PICK rs \in SUBSET WriteBackRegs :
          user' = [user EXCEPT ![call[t].ex] =
                     [Client(t) EXCEPT !.reg = RegistersWith(Client(t).reg, rs)]]
    BY <1>7 DEF RegistersError, Client
  <2>3. c = [Client(t) EXCEPT !.reg = RegistersWith(Client(t).reg, rs)]
    BY <1>1, <2>2, ClientWrite DEF Client
  <2>4. /\ Client(t).flag = new.flag /\ Client(t).reg = p.reg /\ Client(t).mem = new.mem
        /\ Client(t).fpu = new.fpu
    BY <1>3, <2>1 DEF State
  <2>5. c.reg = RegistersWith(p.reg, rs) /\ c.flag = new.flag /\ c.mem = new.mem
        /\ c.fpu = new.fpu
    <3>1. Client(t) \in State
      BY <1>1 DEF Client, TypeOK, CallsType, Call_, ClientsType
    <3> HIDE DEF c
    <3> QED BY <2>3, <2>4, <3>1 DEF State
  <2>6. gRegs' = [UnaliasedRegs EXCEPT ![IP] = call[t].next]
    BY <1>7 DEF RegistersError
  <2>7. \A r \in rs : gRegs'[r] = new.reg[r]
    BY <1>3, <2>1, <2>6
  <2>8. /\ \A r \in Regs : c.reg[r] \in {p.reg[r], new.reg[r]}
        /\ c.reg[IP] = p.reg[IP]
    BY <1>3, <2>1, <2>5, <2>7 DEF RegistersWith
  <2> QED BY <1>2, <2>5, <2>8 DEF Between, new
<1> QED BY <1>5, <1>6, <1>7

(* When Execute returns an error the client has the state from before the   *)
(* instruction or a torn one that has not retired: each of its locations    *)
(* old or new, and the PC the old one.                                      *)
THEOREM TearsCleanly ==
    ASSUME AllExchanged
    PROVE  Spec => TornWriteBack
<1>1. SafetyInv /\ ValueInv /\ [Next]_vars =>
        [\A t \in Threads :
           Fails(t) => /\ user'[call[t].ex].reg[IP] = pre[t].reg[IP]
                       /\ Between(user'[call[t].ex], pre[t], ISA(gXedd, pre[t]))]_vars
  <2> SUFFICES ASSUME SafetyInv, ValueInv, [Next]_vars, NEW t \in Threads, Fails(t)
               PROVE  /\ user'[call[t].ex].reg[IP] = pre[t].reg[IP]
                      /\ Between(user'[call[t].ex], pre[t], ISA(gXedd, pre[t]))
    OBVIOUS
  <2>1. CASE EarlyError(t) \/ MemoryError(t)
    <3>1. user'[call[t].ex] = pre[t]
      BY <2>1, Failure, FailureKeepsClient
    <3> QED BY <3>1 DEF Between
  <2>2. CASE FPUError(t) \/ FlagsError(t) \/ RegistersError(t)
    <3>1. Exchanged(gXedd)
      BY DEF AllExchanged, SafetyInv, TypeOK, CallsType
    <3> QED BY <2>2, <3>1, Failure, RefusedWriteBack
  <2> QED BY <2>1, <2>2, Failure
<1> QED BY <1>1, SafetyInvariant, ValueInvariant, PTL DEF TornWriteBack, Spec

(* Execute reports a fault only of the instruction that raised it, and no   *)
(* native instruction that raises one retires.                              *)
THEOREM ReportsFaults ==
    ASSUME AllExchanged
    PROVE  Spec => FaultsReported
<1>1. SafetyInv /\ ValueInv /\ [Next]_vars =>
        [\A t \in Threads :
           LET sig == ISAEffect(gXedd, pre[t]).sig
           IN  /\ Fails(t) /\ call'[t].status = "kErrorFloatingPointException" =>
                    sig = "SIGFPE"
               /\ Fails(t) /\ call'[t].status = "kErrorFault" => sig \in {"SIGSEGV", "SIGBUS"}
               /\ pc[t] = "writeregs" /\ pc'[t] = "loop" /\ gXedd.kind = "native" =>
                    sig = "none"]_vars
  <2> DEFINE sig(t) == ISAEffect(gXedd, pre[t]).sig
  <2> SUFFICES ASSUME SafetyInv, ValueInv, [Next]_vars, NEW t \in Threads
               PROVE  /\ Fails(t) /\ call'[t].status = "kErrorFloatingPointException" =>
                           sig(t) = "SIGFPE"
                      /\ Fails(t) /\ call'[t].status = "kErrorFault" =>
                           sig(t) \in {"SIGSEGV", "SIGBUS"}
                      /\ pc[t] = "writeregs" /\ gXedd.kind = "native" => sig(t) = "none"
    OBVIOUS
  <2>1. /\ pc[t] = "restore" /\ gSignal \notin {"none", "SIGILL"} => gSignal = sig(t)
        /\ pc[t] = "writeregs" /\ gXedd.kind = "native" => sig(t) = "none"
    BY DEF AllExchanged, SafetyInv, TypeOK, CallsType, ValueInv, StageInv, ResultsInv,
           AfterNative, Out
  <2>2. ASSUME Fails(t), call'[t].status \in {"kErrorFault", "kErrorFloatingPointException"}
        PROVE  EarlyError(t)
    BY <2>2, Failure DEF MemoryError, FPUError, FlagsError, RegistersError
  <2> QED BY <2>1, <2>2 DEF EarlyError
<1> QED BY <1>1, SafetyInvariant, ValueInvariant, PTL DEF FaultsReported, Spec


------------------------------------------------------------------------------
(* The refinement. *)

(* There is at most one write-back at a time, and it is the one that        *)
(* Machine hides.                                                           *)
MachineParts ==
    /\ Machine \in [Execs -> State]
    /\ (\A u \in Threads : ~WritesBack(u)) => Machine = user
    /\ \A t \in Threads : WritesBack(t) =>
         /\ Machine[call[t].ex] = pre[t]
         /\ \A e \in Execs \ {call[t].ex} : Machine[e] = user[e]

LEMMA MachineOf == SafetyInv => MachineParts
<1> SUFFICES ASSUME SafetyInv PROVE MachineParts
  OBVIOUS
<1>1. user \in [Execs -> State] /\ pre \in [Threads -> State]
      /\ \A t \in Threads : call[t].ex \in Execs
  BY DEF SafetyInv, TypeOK, CallsType, Call_, ClientsType
<1>2. \A t \in Threads : WritesBack(t) => \A u \in Threads \ {t} : ~WritesBack(u)
  <2> SUFFICES ASSUME NEW t \in Threads, WritesBack(t), NEW u \in Threads \ {t}
               PROVE  ~WritesBack(u)
    OBVIOUS
  <2>1. pc[t] \notin Outside
    BY DEF WritesBack, Outside
  <2>2. pc[u] \in Outside
    BY <2>1, Alone
  <2> QED BY <2>2 DEF WritesBack, Outside
<1>3. CASE \A u \in Threads : ~WritesBack(u)
  <2>1. Machine = user
    BY <1>1, <1>3 DEF Machine
  <2> QED BY <1>1, <1>3, <2>1 DEF MachineParts
<1>4. ASSUME NEW t \in Threads, WritesBack(t)
      PROVE  /\ Machine \in [Execs -> State]
             /\ Machine[call[t].ex] = pre[t]
             /\ \A e \in Execs \ {call[t].ex} : Machine[e] = user[e]
  <2>1. \A e \in Execs : (\E u \in Threads : WritesBack(u) /\ call[u].ex = e) <=> e = call[t].ex
    BY <1>2, <1>4
  <2>2. \A e \in Execs : e = call[t].ex =>
          (CHOOSE u \in Threads : WritesBack(u) /\ call[u].ex = e) = t
    BY <1>2, <1>4
  <2>3. Machine = [e \in Execs |-> IF e = call[t].ex THEN pre[t] ELSE user[e]]
    BY <2>1, <2>2 DEF Machine
  <2> QED BY <1>1, <2>3
<1>5. CASE \E t \in Threads : WritesBack(t)
  BY <1>4, <1>5 DEF MachineParts
<1> QED BY <1>3, <1>5

LEMMA MachineOfNext == SafetyInv' => MachineParts'
BY MachineOf, PTL

(* A stage of the loop body changes nothing but its own client's machine,   *)
(* and that only in the write-back or when WriteMem is refused.             *)
Stays(t) ==
    /\ ~WritesBack(t) /\ ~WritesBack(t)'
    /\ user'[call[t].ex] = user[call[t].ex]
Enters(t) ==
    /\ ~WritesBack(t) /\ WritesBack(t)'
    /\ user[call[t].ex] = pre[t] /\ pre' = pre
GoesOn(t) == WritesBack(t) /\ WritesBack(t)' /\ pre' = pre
Retires(t) ==
    /\ WritesBack(t) /\ ~WritesBack(t)'
    /\ gXedd.ok /\ user'[call[t].ex] = ISA(gXedd, pre[t])
Tears(t) ==
    /\ WritesBack(t) /\ ~WritesBack(t)'
    /\ gXedd.ok /\ user'[call[t].ex].reg[IP] = pre[t].reg[IP]
    /\ Between(user'[call[t].ex], pre[t], ISA(gXedd, pre[t]))

LEMMA OwnClient ==
    ASSUME SafetyInv, NEW t \in Threads, Progress(t), pc[t] \notin Outside
    PROVE  /\ \A e \in Execs \ {call[t].ex} : user'[e] = user[e]
           /\ \A u \in Threads \ {t} : pc'[u] = pc[u]
           /\ call'[t].ex = call[t].ex
<1>1. TypeOK /\ pc \in [Threads -> Stages] /\ call \in [Threads -> Call_]
      /\ user \in [Execs -> State] /\ call[t] \in Call_ /\ call[t].ex \in Execs
  BY DEF SafetyInv, TypeOK, CallsType, ClientsType, Call_
<1>2. \A e \in Execs \ {call[t].ex} : user'[e] = user[e]
  <2>1. CASE UNCHANGED user
    BY <2>1
  <2>2. CASE \E c : user' = [user EXCEPT ![call[t].ex] = c]
    BY <1>1, <2>2
  <2>3. CASE WriteMemory(t)
    BY <1>1, <2>3 DEF WriteMemory
  <2>4. CASE WriteFPU(t)
    BY <1>1, <2>4 DEF WriteFPU
  <2>5. CASE WriteFlags(t)
    BY <1>1, <2>5 DEF WriteFlags
  <2>6. CASE WriteRegisters(t)
    BY <1>1, <2>6 DEF WriteRegisters
  <2>7. CASE \/ Lock(t) \/ Finish(t) \/ Begin(t) \/ ReadPC(t) \/ Fetch(t) \/ ReadFlags(t)
             \/ ReadRegisters(t) \/ ReadFPU(t) \/ ReadMemory(t) \/ Return(t)
    BY <2>1, <2>7 DEF Lock, Finish, Begin, ReadPC, Fetch, ReadFlags, ReadRegisters, ReadFPU,
                      ReadMemory, Return
  <2>8. CASE \/ Emulate(t) \/ Encode(t) \/ InstallHandlers(t) \/ LoadFPU(t) \/ SigSetJmp(t)
             \/ ExecuteNative(t) \/ ExecuteNativeAVX(t) \/ StoreFPU(t) \/ RestoreHandlers(t)
    BY <2>1, <2>8 DEF Emulate, Encode, InstallHandlers, LoadFPU, SigSetJmp, ExecuteNative,
                      ExecuteNativeAVX, StoreFPU, RestoreHandlers
  <2> QED BY <2>3, <2>4, <2>5, <2>6, <2>7, <2>8 DEF Progress
<1>3. /\ \A stage : Continue(t, stage) =>
           call' = call /\ \A u \in Threads \ {t} : pc'[u] = pc[u]
      /\ \A status : Leave(t, status) =>
           call'[t].ex = call[t].ex /\ \A u \in Threads \ {t} : pc'[u] = pc[u]
  BY <1>1, Goes, Leaves
<1>4. call'[t].ex = call[t].ex /\ \A u \in Threads \ {t} : pc'[u] = pc[u]
  <2>1. CASE Lock(t) \/ Return(t)
    <3>1. pc[t] # "lock" /\ pc[t] # "ret"
      BY DEF Outside
    <3> QED BY <2>1, <3>1 DEF Lock, Return
  <2>2. CASE Finish(t) \/ Begin(t) \/ ReadPC(t)
    BY <1>3, <2>2 DEF Finish, Begin, ReadPC
  <2>9. CASE Fetch(t) \/ ReadFlags(t)
    BY <1>3, <2>9 DEF Fetch, ReadFlags
  <2>10. CASE ReadFPU(t) \/ ReadMemory(t)
    BY <1>3, <2>10 DEF ReadFPU, ReadMemory
  <2>11. ASSUME \E n : call' = [call EXCEPT ![t].next = n], \E s : pc' = [pc EXCEPT ![t] = s]
         PROVE  call'[t].ex = call[t].ex /\ \A u \in Threads \ {t} : pc'[u] = pc[u]
    BY <1>1, <2>11 DEF Call_
  <2>3. CASE ReadRegisters(t)
    <3>1. CASE \E status : Leave(t, status)
      BY <1>3, <3>1
    <3>2. CASE /\ call' = [call EXCEPT ![t].next = Fall(gRegs'[IP])]
               /\ pc' = [pc EXCEPT ![t] =
                           IF gXedd.kind = "nop" THEN "writeflags" ELSE "readfpu"]
      BY <2>11, <3>2
    <3> QED BY <2>3, <3>1, <3>2 DEF ReadRegisters
  <2>4. CASE Emulate(t)
    <3> DEFINE out == Effect(gXedd, [reg |-> gRegs, flag |-> gFlags, slot |-> SlotData,
                                     adr |-> SlotAddress, fpu |-> gFPU, pc |-> gRegs[IP]])
    <3>1. CASE (\E status : Leave(t, status)) \/ (\E s : Continue(t, s))
      BY <1>3, <3>1
    <3>2. CASE call' = [call EXCEPT ![t].next = out.pc] /\ pc' = [pc EXCEPT ![t] = "writemem"]
      <4> HIDE DEF out
      <4> QED BY <2>11, <3>2
    <3> QED BY <2>4, <3>1, <3>2 DEF Emulate
  <2>5. CASE \/ Encode(t) \/ InstallHandlers(t) \/ LoadFPU(t) \/ SigSetJmp(t)
             \/ ExecuteNativeAVX(t) \/ StoreFPU(t) \/ RestoreHandlers(t)
    BY <1>3, <2>5 DEF Encode, InstallHandlers, LoadFPU, SigSetJmp, ExecuteNativeAVX, StoreFPU,
                      RestoreHandlers
  <2>6. CASE ExecuteNative(t)
    <3>1. gRecoveryTarget = t
      BY <2>6 DEF ExecuteNative, SafetyInv, WindowInv
    <3> QED BY <1>3, <2>6, <3>1 DEF ExecuteNative
  <2>7. CASE WriteMemory(t) \/ WriteFPU(t) \/ WriteFlags(t)
    BY <1>3, <2>7 DEF WriteMemory, WriteFPU, WriteFlags
  <2>8. CASE WriteRegisters(t)
    BY <1>1, <1>3, <2>8 DEF WriteRegisters, Call_
  <2> QED BY <2>1, <2>2, <2>3, <2>4, <2>5, <2>6, <2>7, <2>8, <2>9, <2>10 DEF Progress
<1> QED BY <1>2, <1>4

(* Every step inside the loop body is of one of the five forms. *)
LEMMA LoopStep ==
    ASSUME SafetyInv, ValueInv, ValueInv', NEW t \in Threads, Exchanged(gXedd),
           [Next]_vars, Progress(t), pc[t] \notin Outside
    PROVE  Stays(t) \/ Enters(t) \/ GoesOn(t) \/ Retires(t) \/ Tears(t)
<1>1. TypeOK /\ StageInv(t) /\ StageInv(t)' /\ pc \in [Threads -> Stages]
      /\ call \in [Threads -> Call_] /\ call[t].num \in Nat
  BY DEF SafetyInv, ValueInv, TypeOK, CallsType, Call_
<1>2. pc[t] \in Untouched => user[call[t].ex] = pre[t]
  BY <1>1 DEF StageInv, ClientInv, Client
<1>3. /\ \A stage : Continue(t, stage) => pc'[t] = stage
      /\ \A status : Leave(t, status) => pc'[t] = "ret" /\ call'[t].status = status
  BY <1>1, Goes, Leaves
<1>4. CASE Fails(t)
  <2>1. CASE EarlyError(t) \/ MemoryError(t)
    <3>1. user'[call[t].ex] = pre[t]
      BY <1>4, <2>1, Failure, FailureKeepsClient
    <3>2. pc[t] \in Untouched /\ pc'[t] = "ret"
      BY <1>4, <2>1 DEF EarlyError, MemoryError, Untouched, Fails
    <3> QED BY <1>2, <3>1, <3>2
            DEF Stays, WritesBack, Untouched, BeforeRegs, BeforeRun, BeforeNative, AfterNative
  <2>2. CASE FPUError(t) \/ FlagsError(t) \/ RegistersError(t)
    <3>1. WritesBack(t) /\ ~WritesBack(t)'
      BY <1>4, <2>2 DEF FPUError, FlagsError, RegistersError, Fails, WritesBack
    <3> QED BY <1>4, <2>2, <3>1, Failure, RefusedWriteBack DEF Tears
  <2> QED BY <1>4, <2>1, <2>2, Failure
<1>5. ASSUME pc[t] \in Untouched \ {"writemem"}, user' = user, pre' = pre
      PROVE  Stays(t) \/ Enters(t)
  BY <1>2, <1>5
  DEF Stays, Enters, WritesBack, Untouched, BeforeRegs, BeforeRun, BeforeNative, AfterNative
<1>6. ASSUME ~Fails(t), NEW status, Leave(t, status) PROVE status = "kGood"
  BY <1>3, <1>6 DEF Fails
<1>7. CASE Finish(t) \/ Begin(t)
  <2>1. pc[t] = "loop" /\ pc'[t] \in {"ret", "readpc"} /\ user' = user
    BY <1>3, <1>7 DEF Finish, Begin
  <2> QED BY <2>1 DEF Stays, WritesBack
<1>8. CASE \/ ReadPC(t) \/ Fetch(t) \/ ReadFlags(t) \/ ReadRegisters(t) \/ ReadFPU(t)
           \/ ReadMemory(t)
  <2>1. pc[t] \in Untouched \ {"writemem"} /\ user' = user /\ pre' = pre
    BY <1>8 DEF ReadPC, Fetch, ReadFlags, ReadRegisters, ReadFPU, ReadMemory, Untouched,
                BeforeRegs, BeforeRun
  <2> QED BY <1>5, <2>1
<1>9. CASE \/ Emulate(t) \/ Encode(t) \/ InstallHandlers(t) \/ LoadFPU(t) \/ SigSetJmp(t)
           \/ ExecuteNative(t) \/ ExecuteNativeAVX(t) \/ StoreFPU(t) \/ RestoreHandlers(t)
  <2>1. pc[t] \in Untouched \ {"writemem"} /\ user' = user /\ pre' = pre
    BY <1>9 DEF Emulate, Encode, InstallHandlers, LoadFPU, SigSetJmp, ExecuteNative,
                ExecuteNativeAVX, StoreFPU, RestoreHandlers, Untouched, BeforeRun, BeforeNative,
                AfterNative
  <2> QED BY <1>5, <2>1
<1>10. CASE ~Fails(t) /\ WriteMemory(t)
  <2>1. pc[t] = "writemem" /\ pc'[t] = "writefpu" /\ pre' = pre
    BY <1>3, <1>6, <1>10 DEF WriteMemory
  <2> QED BY <1>2, <2>1 DEF Enters, WritesBack, Untouched
<1>11. CASE ~Fails(t) /\ (WriteFPU(t) \/ WriteFlags(t))
  <2>1. /\ pc[t] \in {"writefpu", "writeflags"} /\ pc'[t] \in {"writeflags", "writeregs"}
        /\ pre' = pre
    BY <1>3, <1>6, <1>11 DEF WriteFPU, WriteFlags
  <2> QED BY <2>1 DEF GoesOn, WritesBack
<1>12. CASE ~Fails(t) /\ WriteRegisters(t)
  <2>1. /\ pc[t] = "writeregs" /\ pre' = pre /\ gXedd' = gXedd
        /\ pc' = [pc EXCEPT ![t] = "loop"] /\ call' = [call EXCEPT ![t].num = @ + 1]
    BY <1>6, <1>12 DEF WriteRegisters
  <2>2. pc'[t] = "loop" /\ call'[t].num > 0 /\ call'[t].ex = call[t].ex
    BY <1>1, <2>1 DEF Call_
  <2>3. user'[call[t].ex] = ISA(gXedd, pre[t])
    BY <1>1, <2>1, <2>2 DEF StageInv, ClientInv, Client, After
  <2>4. gXedd.ok
    BY <1>1, <2>1 DEF StageInv, KindInv, Outside
  <2> QED BY <2>1, <2>2, <2>3, <2>4 DEF Retires, WritesBack
<1>13. ~Lock(t) /\ ~Return(t)
  BY DEF Lock, Return, Outside
<1> QED BY <1>4, <1>7, <1>8, <1>9, <1>10, <1>11, <1>12, <1>13 DEF Progress

(* Outside the loop a thread changes no client's machine. *)
LEMMA OutsideStep ==
    ASSUME SafetyInv, SafetyInv', NEW t \in Threads, pc[t] \in Outside,
           InitExecutor(t) \/ Call(t) \/ Progress(t)
    PROVE  Machine' = Machine
<1>1. InitExecutor(t) \/ Call(t) \/ Lock(t) \/ Return(t)
  BY DEF Progress, Finish, Begin, ReadPC, Fetch, ReadFlags, ReadRegisters, ReadFPU, ReadMemory,
         Emulate, Encode, InstallHandlers, LoadFPU, SigSetJmp, ExecuteNative,
         ExecuteNativeAVX, StoreFPU, RestoreHandlers, WriteMemory, WriteFPU, WriteFlags,
         WriteRegisters, Outside
<1>2. pc \in [Threads -> Stages] /\ call \in [Threads -> Call_]
  BY DEF SafetyInv, TypeOK, CallsType
<1>3. /\ user' = user /\ pre' = pre /\ ~WritesBack(t) /\ ~WritesBack(t)'
      /\ \A u \in Threads \ {t} : pc'[u] = pc[u] /\ call'[u] = call[u]
  BY <1>1, <1>2 DEF InitExecutor, callVars, Call, Lock, Leave, Return, WritesBack
<1>4. MachineParts /\ MachineParts'
  BY MachineOf, MachineOfNext
<1>5. \A u \in Threads : WritesBack(u)' <=> WritesBack(u)
  BY <1>3 DEF WritesBack
<1>6. CASE \A u \in Threads : ~WritesBack(u)
  BY <1>3, <1>4, <1>5, <1>6 DEF MachineParts
<1>7. ASSUME NEW u \in Threads, WritesBack(u) PROVE Machine' = Machine
  <2>1. u # t /\ call'[u] = call[u] /\ WritesBack(u)'
    BY <1>3, <1>5, <1>7
  <2>2. \A e \in Execs : Machine'[e] = Machine[e]
    BY <1>3, <1>4, <1>7, <2>1 DEF MachineParts
  <2> QED BY <1>4, <2>2 DEF MachineParts
<1> QED BY <1>6, <1>7


(* Both speak of the same processor. *)
LEMMA SameProcessor == \A i, s : Atomic!ISA(i, s) = ISA(i, s)
BY DEF Elems, Needed, Operands, FlagsIn, UsesMMX, UsesFPU, Loaded, Addressed, Stored,
       Skipped, Written, NoFPU, Effect, MergeMMX, ISAEffect, ISA, Slots, Atomic!Elems,
       Atomic!Needed, Atomic!Operands, Atomic!FlagsIn, Atomic!UsesMMX, Atomic!UsesFPU,
       Atomic!Loaded, Atomic!Addressed, Atomic!Stored, Atomic!Skipped, Atomic!Written,
       Atomic!NoFPU, Atomic!Effect, Atomic!MergeMMX, Atomic!ISAEffect, Atomic!ISA,
       Atomic!Slots

(* A stage of the loop is a stutter of AtomicExecutor, or its Retire or     *)
(* Tear.                                                                    *)
LEMMA LoopImplements ==
    ASSUME SafetyInv, SafetyInv', NEW t \in Threads, Progress(t), pc[t] \notin Outside,
           Stays(t) \/ Enters(t) \/ GoesOn(t) \/ Retires(t) \/ Tears(t)
    PROVE  Atomic!Next \/ Machine' = Machine
<1> DEFINE ex == call[t].ex
<1>1. ex \in Execs /\ gXedd \in Instrs /\ pre \in [Threads -> State]
  BY DEF SafetyInv, TypeOK, CallsType, Call_, ClientsType
<1>2. /\ \A e \in Execs \ {ex} : user'[e] = user[e]
      /\ \A u \in Threads \ {t} : pc'[u] = pc[u]
      /\ call'[t].ex = ex
  BY OwnClient
<1>3. \A u \in Threads \ {t} : ~WritesBack(u) /\ ~WritesBack(u)'
  BY <1>2, Alone DEF WritesBack, Outside
<1>4. MachineParts /\ MachineParts'
  BY MachineOf, MachineOfNext
<1>5. Machine \in [Execs -> State] /\ Machine' \in [Execs -> State]
  BY <1>4 DEF MachineParts
<1>6. /\ WritesBack(t) => Machine[ex] = pre[t]
      /\ ~WritesBack(t) => Machine[ex] = user[ex]
      /\ \A e \in Execs \ {ex} : Machine[e] = user[e]
  BY <1>3, <1>4 DEF MachineParts
<1>7. /\ WritesBack(t)' => Machine'[ex] = pre'[t]
      /\ ~WritesBack(t)' => Machine'[ex] = user'[ex]
      /\ \A e \in Execs \ {ex} : Machine'[e] = user'[e]
  BY <1>2, <1>3, <1>4 DEF MachineParts
<1>8. \A e \in Execs \ {ex} : Machine'[e] = Machine[e]
  BY <1>2, <1>6, <1>7
<1> HIDE DEF ex
<1>9. CASE Stays(t) \/ Enters(t) \/ GoesOn(t)
  <2>1. Machine'[ex] = Machine[ex]
    BY <1>6, <1>7, <1>9 DEF Stays, Enters, GoesOn, ex
  <2> QED BY <1>5, <1>8, <2>1
<1>10. CASE Retires(t)
  <2>1. Machine'[ex] = ISA(gXedd, Machine[ex]) /\ gXedd.ok
    BY <1>6, <1>7, <1>10 DEF Retires, ex
  <2>2. Machine' = [Machine EXCEPT ![ex] = ISA(gXedd, @)]
    BY <1>1, <1>5, <1>8, <2>1
  <2>3. Atomic!Retire(ex)
    BY <1>1, <2>1, <2>2, SameProcessor DEF Atomic!Retire
  <2> QED BY <1>1, <2>3 DEF Atomic!Next
<1>11. CASE Tears(t)
  <2>1. /\ Machine'[ex].reg[IP] = Machine[ex].reg[IP] /\ gXedd.ok
        /\ Between(Machine'[ex], Machine[ex], ISA(gXedd, Machine[ex]))
    BY <1>6, <1>7, <1>11 DEF Tears, ex
  <2>2. Atomic!Tear(ex)
    BY <1>1, <1>8, <2>1, SameProcessor DEF Atomic!Tear, Atomic!Between, Between
  <2> QED BY <1>1, <2>2 DEF Atomic!Next
<1> QED BY <1>9, <1>10, <1>11

LEMMA StepImplements ==
    ASSUME AllExchanged
    PROVE  SafetyInv /\ SafetyInv' /\ ValueInv /\ ValueInv' /\ [Next]_vars
             => [Atomic!Next]_Machine
<1> SUFFICES ASSUME SafetyInv, SafetyInv', ValueInv, ValueInv', [Next]_vars
             PROVE  Atomic!Next \/ Machine' = Machine
  OBVIOUS
<1>1. Exchanged(gXedd)
  BY DEF AllExchanged, SafetyInv, TypeOK, CallsType
<1>2. ASSUME NEW t \in Threads, InitExecutor(t) \/ Call(t) \/ Progress(t)
      PROVE  Atomic!Next \/ Machine' = Machine
  <2>1. CASE pc[t] \in Outside
    BY <1>2, <2>1, OutsideStep
  <2>2. CASE pc[t] \notin Outside
    <3>1. Progress(t)
      <4>1. ~Call(t)
        BY <2>2 DEF Call, Outside
      <4>2. ~InitExecutor(t)
        BY <2>2 DEF InitExecutor, Outside
      <4> QED BY <1>2, <4>1, <4>2
    <3> QED BY <1>1, <2>2, <3>1, LoopStep, LoopImplements
  <2> QED BY <2>1, <2>2
<1>3. CASE UNCHANGED vars
  <2>1. pc' = pc /\ call' = call /\ user' = user /\ pre' = pre
    BY <1>3 DEF vars, callVars
  <2>2. Machine' = Machine
    BY <2>1 DEF Machine, WritesBack
  <2> QED BY <2>2
<1> QED BY <1>2, <1>3 DEF Next, Done

LEMMA InitImplements == Init => Atomic!Init
<1> SUFFICES ASSUME Init PROVE Machine \in [Execs -> UserStates]
  BY DEF Atomic!Init
<1>1. user \in [Execs -> UserStates] /\ \A t \in Threads : ~WritesBack(t)
  BY DEF Init, WritesBack
<1> QED BY <1>1 DEF Machine

(* Execute, stage by stage, with its shared globals, signals and failing    *)
(* callbacks, implements one instruction at a time on each client's         *)
(* machine.                                                                 *)
THEOREM Implements ==
    ASSUME AllExchanged
    PROVE  Spec => ImplementsAtomic
<1>1. SafetyInv /\ SafetyInv' /\ ValueInv /\ ValueInv' /\ [Next]_vars => [Atomic!Next]_Machine
  BY StepImplements
<1> QED BY <1>1, InitImplements, SafetyInvariant, ValueInvariant, PTL
        DEF ImplementsAtomic, Atomic!Spec, Spec

===============================================================================
