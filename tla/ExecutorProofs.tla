--------------------------- MODULE ExecutorProofs ---------------------------
(***************************************************************************)
(* Proofs about Executor, for any threads, clients, instructions and       *)
(* processor that satisfy the assumptions of Instruction and Executor.     *)
(***************************************************************************)
EXTENDS Executor, TLAPS

(* The operands an effect is computed from are operands. *)
LEMMA EffectType ==
    ASSUME NEW i \in Instrs,
           NEW reg \in [Regs -> Val], NEW flag \in [Flags -> Bit],
           NEW slot \in [Slots -> Val], NEW adr \in [Slots -> Val], NEW fpu \in FPU,
           NEW p \in Val
    PROVE  Effect(i, [reg |-> reg, flag |-> flag, slot |-> slot, adr |-> adr,
                      fpu |-> fpu, pc |-> p]) \in Outputs
<1> DEFINE in == [reg  |-> [r \in Regs |-> IF r \in Operands(i) \ (MMXRegs \cup {FL, IP})
                                           THEN reg[r] ELSE Zero],
                  flag |-> [f \in Flags |-> IF f \in FlagsIn(i) THEN flag[f] ELSE 0],
                  slot |-> [s \in Slots |-> IF s \in Loaded(i) THEN slot[s] ELSE Zero],
                  adr  |-> [s \in Slots |-> IF s \in Addressed(i) THEN adr[s] ELSE Zero],
                  fpu  |-> IF UsesFPU(i) THEN fpu ELSE NoFPU,
                  pc   |-> p]
<1>1. NoFPU \in FPU
  BY WordAssumption DEF NoFPU, FPU
<1>2. in.reg \in [Regs -> Val] /\ in.slot \in [Slots -> Val] /\ in.adr \in [Slots -> Val]
  BY WordAssumption
<1>3. in.flag \in [Flags -> Bit]
  BY DEF Bit
<1>4. in \in Inputs
  BY <1>1, <1>2, <1>3 DEF Inputs
<1> HIDE DEF in
<1>5. Sem(i, in) \in Outputs
  BY <1>4, SemAssumption
<1> QED BY <1>5 DEF Effect, in

(* The initial globals have their types. *)
LEMMA InitType == Init => TypeOK
<1> SUFFICES ASSUME Init PROVE TypeOK
  OBVIOUS
<1>1. (CHOOSE e \in Execs : TRUE) \in Execs /\ (CHOOSE i \in Instrs : TRUE) \in Instrs
  BY ClientAssumption
<1>2. NoFPU \in FPU
  BY WordAssumption DEF NoFPU, FPU
<1>3. CallsType
  <2> DEFINE c == [ex |-> CHOOSE e \in Execs : TRUE, max |-> 0, num |-> 0, next |-> Zero,
                   status |-> "kGood"]
  <2>1. c \in Call_
    BY <1>1, WordAssumption, BoundAssumption DEF Call_, Statuses
  <2>2. call = [t \in Threads |-> c]
    BY DEF Init
  <2> HIDE DEF c
  <2>3. call \in [Threads -> Call_]
    BY <2>1, <2>2
  <2>4. pc \in [Threads -> Stages]
    BY DEF Init, Stages
  <2>5. calls = 0 /\ calls \in 0 .. MaxCalls
    <3>1. calls = 0
      BY DEF Init
    <3> QED BY <3>1, BoundAssumption
  <2>6. gExecutorLock \in Threads \cup {NoThread} /\ gIsInitialized \in BOOLEAN
    BY DEF Init
  <2>7. gXedd \in Instrs
    BY <1>1 DEF Init
  <2> QED BY <2>3, <2>4, <2>5, <2>6, <2>7 DEF CallsType
<1>4. ClientsType
  BY <1>3, ClientAssumption DEF Init, ClientsType, CallsType, Call_
<1>5. MemoryType
  BY WordAssumption DEF Init, MemoryType, MemoryOperand
<1>6. RegsType /\ FlagsType
  BY WordAssumption DEF Init, RegsType, FlagsType, Bit
<1>7. FPUType
  BY <1>2, HostAssumption DEF Init, FPUType
<1>8. SignalsType
  BY DEF Init, SignalsType
<1> QED
  BY <1>3, <1>4, <1>5, <1>6, <1>7, <1>8 DEF TypeOK

(* A stage that goes on to the next one, and one that returns, leave the    *)
(* locals of Execute well typed.                                            *)
LEMMA ContinueType ==
    ASSUME CallsType, NEW t \in Threads \cup {NoThread}, NEW stage \in Stages, Continue(t, stage),
           calls' = calls, gIsInitialized' = gIsInitialized, gXedd' \in Instrs
    PROVE  CallsType'
BY DEF CallsType, Continue

(* So does returning from it. *)
LEMMA LeaveType ==
    ASSUME CallsType, NEW t \in Threads, NEW status \in Statuses, Leave(t, status),
           calls' = calls, gIsInitialized' = gIsInitialized, gXedd' \in Instrs
    PROVE  CallsType'
<1>1. call' \in [Threads -> Call_]
  BY DEF CallsType, Leave, Call_
<1>2. pc' \in [Threads -> Stages]
  BY DEF CallsType, Leave, Stages
<1>3. gExecutorLock' \in Threads \cup {NoThread}
  BY DEF Leave
<1> QED BY <1>1, <1>2, <1>3 DEF CallsType

(* ReadRegister stores client values. *)
LEMMA ReadRegisterType ==
    ASSUME TypeOK, NEW t \in Threads, NEW rs \in SUBSET Regs, NEW failed \in SUBSET Regs,
           ReadRegister(t, rs, failed)
    PROVE  /\ gUsedRegs' \in SUBSET Regs /\ gStoreRegs' \in SUBSET Regs
           /\ gRegs' \in [Regs -> Val]
<1>1. Client(t) \in State
  BY DEF TypeOK, CallsType, ClientsType, Call_, Client
<1>2. Client(t).reg \in [Regs -> Val]
  BY <1>1 DEF State
<1> QED BY <1>2, WordAssumption DEF ReadRegister, TypeOK, RegsType

(* Every register that ReadRegisters visits is a register. *)
LEMMA VisitsType ==
    ASSUME NEW i \in Instrs
    PROVE  /\ Visits(i) \in Seq(Regs)
           /\ \A k \in 1 .. Len(Visits(i)) : Visits(i)[k] \in Regs
           /\ Elems(i.wr) \subseteq Regs /\ Elems(i.rd) \subseteq Regs
           /\ i.inc \subseteq Regs /\ i.fwrite \subseteq Flags
<1>1. i \in Instr
  BY InstrAssumption
<1>2. i.addr \in Seq(Regs) /\ i.rd \in Seq(Regs) /\ i.wr \in Seq(Regs)
      /\ i.inc \subseteq Regs /\ i.fwrite \subseteq Flags
  BY <1>1 DEF Instr
<1>3. Elems(i.wr) \subseteq Regs /\ Elems(i.rd) \subseteq Regs
  BY <1>2 DEF Elems
<1>4. Visits(i) \in Seq(Regs)
  <2>1. i.addr \o i.rd \in Seq(Regs)
    BY <1>2
  <2> QED BY <1>2, <2>1 DEF Visits
<1>5. \A k \in 1 .. Len(Visits(i)) : Visits(i)[k] \in Regs
  BY <1>4
<1> QED BY <1>2, <1>3, <1>4, <1>5

(* The client's state in each thread's call, taken apart. *)
LEMMA ClientType ==
    ASSUME TypeOK, NEW t \in Threads
    PROVE  /\ call[t] \in Call_ /\ call[t].ex \in Execs
           /\ Client(t) \in State /\ Client(t) = user[call[t].ex]
           /\ Client(t).reg \in [Regs -> Val] /\ Client(t).flag \in [Flags -> Bit]
           /\ Client(t).mem \in [Val -> Val] /\ Client(t).fpu \in FPU
<1>1. call[t] \in Call_ /\ call[t].ex \in Execs
  BY DEF TypeOK, CallsType, Call_
<1>2. Client(t) \in State
  BY <1>1 DEF TypeOK, ClientsType, Client
<1> QED BY <1>1, <1>2 DEF State, Client

(* The effects that Emulate and ExecuteNative compute have their types. *)
LEMMA OutputType ==
    ASSUME TypeOK, NEW reg \in [Regs -> Val], NEW fpu \in FPU,
           NEW out, out = Effect(gXedd, [reg |-> reg, flag |-> gFlags, slot |-> SlotData,
                                         adr |-> SlotAddress, fpu |-> fpu, pc |-> gRegs[IP]])
    PROVE  /\ out.reg \in [Regs -> Val] /\ out.flag \in [Flags -> Bit]
           /\ out.slot \in [Slots -> Val] /\ out.fpu \in FPU /\ out.pc \in Val
           /\ out.sig \in Signals \cup {"none"}
           /\ StoreFlags(gXedd, out) \in [Flags -> Bit]
           /\ StoreSlots(gXedd, out) \in [Slots -> MemoryOperand]
<1>1. SlotData \in [Slots -> Val] /\ SlotAddress \in [Slots -> Val]
  BY DEF TypeOK, MemoryType, MemoryOperand, SlotData, SlotAddress
<1>2. gXedd \in Instrs /\ gFlags \in [Flags -> Bit] /\ gRegs[IP] \in Val
  BY RegAssumption DEF TypeOK, CallsType, FlagsType, RegsType
<1>3. out \in Outputs
  BY <1>1, <1>2, EffectType
<1>4. /\ out.reg \in [Regs -> Val] /\ out.flag \in [Flags -> Bit]
      /\ out.slot \in [Slots -> Val] /\ out.fpu \in FPU /\ out.pc \in Val
      /\ out.sig \in Signals \cup {"none"}
  BY <1>3 DEF Outputs
<1>5. StoreFlags(gXedd, out) \in [Flags -> Bit]
  BY <1>2, <1>4 DEF StoreFlags
<1>6. StoreSlots(gXedd, out) \in [Slots -> MemoryOperand]
  BY <1>4 DEF StoreSlots, TypeOK, MemoryType, MemoryOperand
<1> QED BY <1>4, <1>5, <1>6

(* What ReadMemory puts in an operand's place is an operand. *)
LEMMA MemoryReadType ==
    ASSUME TypeOK, NEW s \in Slots, NEW v \in Val
    PROVE  MemoryRead(s, v) \in MemoryOperand /\ Unread(s) \in MemoryOperand
           /\ Address(gXedd, s, gRegs) \in Val
<1>1. gXedd \in Instrs /\ gRegs \in [Regs -> Val] /\ gMemory[s] \in MemoryOperand
  BY DEF TypeOK, CallsType, RegsType, MemoryType
<1>2. Address(gXedd, s, gRegs) \in Val
  BY <1>1, SemAssumption
<1>3. gXedd.mem[s].written \in BOOLEAN
  BY <1>1, InstrAssumption DEF Instr, Memop
<1> QED BY <1>1, <1>2, <1>3 DEF MemoryRead, Unread, MemoryOperand

(* Writing back one part of a client's state leaves a state. *)
LEMMA WriteBackType ==
    ASSUME TypeOK, NEW t \in Threads,
           \/ \E reg \in [Regs -> Val] : user' = [user EXCEPT ![call[t].ex].reg = reg]
           \/ \E flag \in [Flags -> Bit] : user' = [user EXCEPT ![call[t].ex].flag = flag]
           \/ \E mem \in [Val -> Val] : user' = [user EXCEPT ![call[t].ex].mem = mem]
           \/ \E fpu \in FPU : user' = [user EXCEPT ![call[t].ex].fpu = fpu],
           pre' = pre
    PROVE  ClientsType'
<1> DEFINE e == call[t].ex
<1>1. e \in Execs /\ user[e] \in State /\ user \in [Execs -> State]
  BY ClientType DEF TypeOK, ClientsType
<1> HIDE DEF e
<1>2. CASE \E reg \in [Regs -> Val] : user' = [user EXCEPT ![call[t].ex].reg = reg]
  <2> PICK reg \in [Regs -> Val] : user' = [user EXCEPT ![e].reg = reg]
    BY <1>2 DEF e
  <2>1. [user[e] EXCEPT !.reg = reg] \in State
    BY <1>1 DEF State
  <2> QED BY <1>1, <2>1 DEF TypeOK, ClientsType
<1>3. CASE \E flag \in [Flags -> Bit] : user' = [user EXCEPT ![call[t].ex].flag = flag]
  <2> PICK flag \in [Flags -> Bit] : user' = [user EXCEPT ![e].flag = flag]
    BY <1>3 DEF e
  <2>1. [user[e] EXCEPT !.flag = flag] \in State
    BY <1>1 DEF State
  <2> QED BY <1>1, <2>1 DEF TypeOK, ClientsType
<1>4. CASE \E mem \in [Val -> Val] : user' = [user EXCEPT ![call[t].ex].mem = mem]
  <2> PICK mem \in [Val -> Val] : user' = [user EXCEPT ![e].mem = mem]
    BY <1>4 DEF e
  <2>1. [user[e] EXCEPT !.mem = mem] \in State
    BY <1>1 DEF State
  <2> QED BY <1>1, <2>1 DEF TypeOK, ClientsType
<1>5. CASE \E fpu \in FPU : user' = [user EXCEPT ![call[t].ex].fpu = fpu]
  <2> PICK fpu \in FPU : user' = [user EXCEPT ![e].fpu = fpu]
    BY <1>5 DEF e
  <2>1. [user[e] EXCEPT !.fpu = fpu] \in State
    BY <1>1 DEF State
  <2> QED BY <1>1, <2>1 DEF TypeOK, ClientsType
<1> QED BY <1>2, <1>3, <1>4, <1>5

(* However far ReadRegisters gets, its register sets and values are typed. *)
LEMMA VisitType ==
    ASSUME TypeOK, NEW t \in Threads, NEW n \in Nat, n <= Len(Visits(gXedd)),
           NEW failed \in SUBSET Regs, Visit(t, n, failed)
    PROVE  /\ gUsedRegs' \in SUBSET Regs /\ gStoreRegs' \in SUBSET Regs
           /\ gRegs' \in [Regs -> Val] /\ gModifiedRegs' \in SUBSET Regs
           /\ gUsesFPU' \in BOOLEAN /\ gUsesMMX' \in BOOLEAN
<1> DEFINE seen == {Visits(gXedd)[k] : k \in 1 .. n}
           wr == Len(gXedd.addr) + Len(gXedd.rd)
           marked == {Visits(gXedd)[k] : k \in (wr + 1) .. n}
<1>1. /\ Len(Visits(gXedd)) \in Nat
      /\ \A k \in 1 .. Len(Visits(gXedd)) : Visits(gXedd)[k] \in Regs
  BY VisitsType DEF TypeOK, CallsType
<1>2. seen \in SUBSET Regs
  BY <1>1
<1>3. wr \in Nat
  <2>1. gXedd \in Instr
    BY InstrAssumption DEF TypeOK, CallsType
  <2>2. gXedd.addr \in Seq(Regs) /\ gXedd.rd \in Seq(Regs)
    BY <2>1 DEF Instr
  <2>3. Len(gXedd.addr) \in Nat /\ Len(gXedd.rd) \in Nat
    BY <2>2
  <2>4. \A a, b \in Nat : a + b \in Nat
    OBVIOUS
  <2> QED BY <2>3, <2>4, Zenon
<1>4. marked \in SUBSET Regs
  <2> HIDE DEF wr
  <2>1. \A k \in (wr + 1) .. n : k \in 1 .. Len(Visits(gXedd))
    BY <1>1, <1>3
  <2> QED BY <1>1, <2>1
<1>5. /\ ReadRegister(t, seen, failed)
      /\ gModifiedRegs' = gModifiedRegs \cup marked
      /\ gUsesMMX' \in BOOLEAN /\ gUsesFPU' \in BOOLEAN
  BY DEF Visit
<1> HIDE DEF seen, marked, wr
<1> QED BY <1>2, <1>4, <1>5, ReadRegisterType DEF TypeOK, RegsType

(* ReadRegisters visits all of the registers, or stops at one. *)
LEMMA ReadRegistersVisits ==
    ASSUME TypeOK, NEW t \in Threads, ReadRegisters(t)
    PROVE  \E n \in Nat : \E failed \in SUBSET Regs :
              n <= Len(Visits(gXedd)) /\ Visit(t, n, failed)
<1>1. /\ Len(Visits(gXedd)) \in Nat
      /\ \A k \in 1 .. Len(Visits(gXedd)) : Visits(gXedd)[k] \in Regs
  BY VisitsType DEF TypeOK, CallsType
<1>2. CASE Visit(t, Len(Visits(gXedd)), {})
  BY <1>1, <1>2
<1>3. CASE \E n \in 1 .. Len(Visits(gXedd)) : Visit(t, n, {Visits(gXedd)[n]})
  BY <1>1, <1>3
<1> QED BY <1>2, <1>3 DEF ReadRegisters

(* Each action keeps the types, up to the reading of the registers. *)
LEMMA ReadingType ==
    ASSUME TypeOK, NEW t \in Threads,
           \/ InitExecutor(t) \/ Call(t) \/ Lock(t) \/ Finish(t) \/ Begin(t)
           \/ ReadPC(t) \/ Fetch(t) \/ ReadFlags(t) \/ ReadRegisters(t)
    PROVE  TypeOK'
<1>1. ASSUME InitExecutor(t) PROVE TypeOK'
  <2>1. CallsType'
    BY <1>1 DEF InitExecutor, TypeOK, CallsType, callVars
  <2>2. RegsType' /\ FlagsType'
    BY <1>1, WordAssumption DEF InitExecutor, TypeOK, RegsType, FlagsType, Bit
  <2>3. FPUType' /\ MemoryType' /\ SignalsType' /\ ClientsType'
    BY <1>1 DEF InitExecutor, TypeOK, FPUType, MemoryType, SignalsType, ClientsType, fpuVars, sigVars
  <2> QED BY <2>1, <2>2, <2>3 DEF TypeOK
<1>2. ASSUME Call(t) PROVE TypeOK'
  <2>1. CallsType'
    <3> PICK e \in Execs, n \in 0 .. MaxExecutions :
          /\ call' = [call EXCEPT ![t] = [ex |-> e, max |-> n, num |-> 0, next |-> Zero,
                                          status |-> "kGood"]]
          /\ pc' = [pc EXCEPT ![t] = IF n = 0 THEN "ret" ELSE "lock"]
      BY <1>2 DEF Call
    <3>1. [ex |-> e, max |-> n, num |-> 0, next |-> Zero, status |-> "kGood"] \in Call_
      BY WordAssumption, BoundAssumption DEF Call_, Statuses
    <3>2. call' \in [Threads -> Call_]
      BY <3>1 DEF TypeOK, CallsType
    <3>3. pc' \in [Threads -> Stages]
      BY DEF TypeOK, CallsType, Stages
    <3>4. calls' \in 0 .. MaxCalls
      BY <1>2, BoundAssumption DEF Call, TypeOK, CallsType
    <3>5. /\ gExecutorLock' \in Threads \cup {NoThread} /\ gIsInitialized' \in BOOLEAN
          /\ gXedd' \in Instrs
      BY <1>2 DEF Call, TypeOK, CallsType
    <3> QED BY <3>2, <3>3, <3>4, <3>5 DEF CallsType
  <2>2. RegsType' /\ FlagsType' /\ FPUType' /\ MemoryType' /\ SignalsType' /\ ClientsType'
    BY <1>2 DEF Call, TypeOK, RegsType, FlagsType, FPUType, MemoryType, SignalsType, ClientsType, regVars, flagVars, fpuVars, sigVars
  <2> QED BY <2>1, <2>2 DEF TypeOK
<1>3. ASSUME Lock(t) PROVE TypeOK'
  <2>1. CallsType'
    <3>1. CASE gIsInitialized
      BY <1>3, <3>1 DEF Lock, TypeOK, CallsType, Stages
    <3>2. CASE ~gIsInitialized
      <4>1. Leave(t, "kErrorNotInitialized") /\ calls' = calls
            /\ gIsInitialized' = gIsInitialized /\ gXedd' = gXedd
        BY <1>3, <3>2 DEF Lock
      <4> QED BY <4>1, LeaveType DEF TypeOK, CallsType, Statuses
    <3> QED BY <3>1, <3>2
  <2>2. RegsType' /\ FlagsType' /\ FPUType' /\ MemoryType' /\ SignalsType' /\ ClientsType'
    BY <1>3 DEF Lock, TypeOK, RegsType, FlagsType, FPUType, MemoryType, SignalsType, ClientsType, regVars, flagVars, fpuVars, sigVars
  <2> QED BY <2>1, <2>2 DEF TypeOK
<1>4. ASSUME Finish(t) PROVE TypeOK'
  <2>1. CallsType'
    <3>1. calls' = calls /\ gIsInitialized' = gIsInitialized /\ gXedd' \in Instrs
      BY <1>4 DEF Finish, TypeOK, CallsType
    <3>2. \/ Leave(t, "kGood")
      BY <1>4 DEF Finish
    <3>3. CASE Leave(t, "kGood")
      BY <3>1, <3>3, LeaveType DEF TypeOK, Statuses
    <3> QED BY <3>2, <3>3
  <2>2. RegsType' /\ FlagsType' /\ FPUType' /\ MemoryType' /\ SignalsType' /\ ClientsType'
    BY <1>4 DEF Finish, TypeOK, RegsType, FlagsType, FPUType, MemoryType, SignalsType, ClientsType, regVars, flagVars, fpuVars, sigVars
  <2> QED BY <2>1, <2>2 DEF TypeOK
<1>5. ASSUME Begin(t) PROVE TypeOK'
  <2>1. CallsType'
    <3>1. Continue(t, "readpc") /\ calls' = calls /\ gIsInitialized' = gIsInitialized
          /\ gXedd' = gXedd
      BY <1>5 DEF Begin
    <3> QED BY <3>1, ContinueType DEF TypeOK, CallsType, Stages
  <2>2. RegsType'
    BY <1>5 DEF Begin, TypeOK, RegsType
  <2>3. FPUType'
    BY <1>5 DEF Begin, TypeOK, FPUType
  <2>4. ClientsType'
    BY <1>5, ClientType DEF Begin, TypeOK, ClientsType
  <2>5. FlagsType' /\ MemoryType' /\ SignalsType'
    BY <1>5 DEF Begin, TypeOK, FlagsType, MemoryType, SignalsType, flagVars, sigVars
  <2> QED BY <2>1, <2>2, <2>3, <2>4, <2>5 DEF TypeOK
<1>6. ASSUME ReadPC(t) PROVE TypeOK'
  <2>1. CallsType'
    <3>1. calls' = calls /\ gIsInitialized' = gIsInitialized /\ gXedd' \in Instrs
      BY <1>6 DEF ReadPC, TypeOK, CallsType
    <3>2. \/ Continue(t, "fetch")
          \/ Leave(t, "kErrorReadReg")
      BY <1>6 DEF ReadPC
    <3>3. CASE Continue(t, "fetch")
      BY <3>1, <3>3, ContinueType DEF TypeOK, Stages
    <3>4. CASE Leave(t, "kErrorReadReg")
      BY <3>1, <3>4, LeaveType DEF TypeOK, Statuses
    <3> QED BY <3>2, <3>3, <3>4
  <2>2. RegsType'
    <3>1. \E failed \in SUBSET Regs : ReadRegister(t, {IP}, failed)
      BY <1>6, RegAssumption DEF ReadPC
    <3> QED BY <1>6, <3>1, ReadRegisterType, RegAssumption DEF ReadPC, TypeOK, RegsType
  <2>3. FlagsType' /\ FPUType' /\ MemoryType' /\ SignalsType' /\ ClientsType'
    BY <1>6 DEF ReadPC, TypeOK, FlagsType, FPUType, MemoryType, SignalsType, ClientsType, flagVars, fpuVars, sigVars
  <2> QED BY <2>1, <2>2, <2>3 DEF TypeOK
<1>7. ASSUME Fetch(t) PROVE TypeOK'
  <2>1. CallsType'
    <3>1. calls' = calls /\ gIsInitialized' = gIsInitialized /\ gXedd' \in Instrs
      BY <1>7 DEF Fetch, TypeOK, CallsType
    <3>2. \/ Continue(t, "readflags")
          \/ Leave(t, "kErrorReadInstMem")
          \/ Leave(t, "kErrorDecode")
          \/ Leave(t, "kErrorUnsupportedFeatures")
      BY <1>7 DEF Fetch
    <3>3. CASE Continue(t, "readflags")
      BY <3>1, <3>3, ContinueType DEF TypeOK, Stages
    <3>4. CASE Leave(t, "kErrorReadInstMem")
      BY <3>1, <3>4, LeaveType DEF TypeOK, Statuses
    <3>5. CASE Leave(t, "kErrorDecode")
      BY <3>1, <3>5, LeaveType DEF TypeOK, Statuses
    <3>6. CASE Leave(t, "kErrorUnsupportedFeatures")
      BY <3>1, <3>6, LeaveType DEF TypeOK, Statuses
    <3> QED BY <3>2, <3>3, <3>4, <3>5, <3>6
  <2>2. RegsType' /\ FlagsType' /\ FPUType' /\ MemoryType' /\ SignalsType' /\ ClientsType'
    BY <1>7 DEF Fetch, TypeOK, RegsType, FlagsType, FPUType, MemoryType, SignalsType, ClientsType, regVars, flagVars, fpuVars, sigVars
  <2> QED BY <2>1, <2>2 DEF TypeOK
<1>8. ASSUME ReadFlags(t) PROVE TypeOK'
  <2>1. CallsType'
    <3>1. calls' = calls /\ gIsInitialized' = gIsInitialized /\ gXedd' \in Instrs
      BY <1>8 DEF ReadFlags, TypeOK, CallsType
    <3>2. \/ Continue(t, "readregs")
          \/ Leave(t, "kErrorReadFlags")
      BY <1>8 DEF ReadFlags
    <3>3. CASE Continue(t, "readregs")
      BY <3>1, <3>3, ContinueType DEF TypeOK, Stages
    <3>4. CASE Leave(t, "kErrorReadFlags")
      BY <3>1, <3>4, LeaveType DEF TypeOK, Statuses
    <3> QED BY <3>2, <3>3, <3>4
  <2>2. RegsType'
    BY <1>8, RegAssumption DEF ReadFlags, TypeOK, RegsType
  <2>3. FlagsType'
    <3>1. gWriteBackFlags' \in SUBSET Flags
      BY <1>8, VisitsType DEF ReadFlags, TypeOK, CallsType
    <3>2. Client(t).flag \in [Flags -> Bit]
      BY ClientType
    <3>3. \/ gFlags' = gFlags
          \/ \E host \in HostFlags :
               gFlags' = [f \in Flags |-> IF f \in FlagsIn(gXedd)
                                          THEN Client(t).flag[f] ELSE host[f]]
      BY <1>8 DEF ReadFlags
    <3> QED BY <3>1, <3>2, <3>3, HostAssumption DEF TypeOK, FlagsType
  <2>4. FPUType' /\ MemoryType' /\ SignalsType' /\ ClientsType'
    BY <1>8 DEF ReadFlags, TypeOK, FPUType, MemoryType, SignalsType, ClientsType, fpuVars, sigVars
  <2> QED BY <2>1, <2>2, <2>3, <2>4 DEF TypeOK
<1>9. ASSUME ReadRegisters(t) PROVE TypeOK'
  <2>1. CallsType'
    <3>1. calls' = calls /\ gIsInitialized' = gIsInitialized /\ gXedd' = gXedd
      BY <1>9 DEF ReadRegisters
    <3>2. CASE Leave(t, "kErrorReadReg")
      BY <3>1, <3>2, LeaveType DEF TypeOK, CallsType, Statuses
    <3>3. CASE /\ Visit(t, Len(Visits(gXedd)), {})
               /\ call' = [call EXCEPT ![t].next = Fall(gRegs'[IP])]
               /\ pc' = [pc EXCEPT ![t] = IF gXedd.kind = "nop" THEN "writeflags"
                                                                ELSE "readfpu"]
               /\ UNCHANGED gExecutorLock
      <4>1. Len(Visits(gXedd)) \in Nat
        BY VisitsType DEF TypeOK, CallsType
      <4>2. gRegs' \in [Regs -> Val]
        BY <3>3, <4>1, VisitType
      <4>3. Fall(gRegs'[IP]) \in Val
        BY <4>2, RegAssumption, SemAssumption
      <4>4. call' \in [Threads -> Call_]
        BY <3>3, <4>3 DEF TypeOK, CallsType, Call_
      <4>5. pc' \in [Threads -> Stages]
        BY <3>3 DEF TypeOK, CallsType, Stages
      <4> QED BY <3>1, <3>3, <4>4, <4>5 DEF TypeOK, CallsType
    <3> QED BY <1>9, <3>2, <3>3 DEF ReadRegisters
  <2>2. RegsType' /\ FPUType'
    <3>1. PICK n \in Nat, failed \in SUBSET Regs :
               n <= Len(Visits(gXedd)) /\ Visit(t, n, failed)
      BY <1>9, ReadRegistersVisits
    <3>2. /\ gUsedRegs' \in SUBSET Regs /\ gStoreRegs' \in SUBSET Regs
          /\ gRegs' \in [Regs -> Val] /\ gModifiedRegs' \in SUBSET Regs
          /\ gUsesFPU' \in BOOLEAN /\ gUsesMMX' \in BOOLEAN
      BY <3>1, VisitType
    <3>3. RegsType'
      BY <1>9, <3>2 DEF ReadRegisters, TypeOK, RegsType
    <3>4. FPUType'
      BY <1>9, <3>2 DEF ReadRegisters, TypeOK, FPUType
    <3> QED BY <3>3, <3>4
  <2>3. FlagsType' /\ MemoryType' /\ SignalsType' /\ ClientsType'
    BY <1>9 DEF ReadRegisters, TypeOK, FlagsType, MemoryType, SignalsType, ClientsType, flagVars, sigVars
  <2> QED BY <2>1, <2>2, <2>3 DEF TypeOK
<1> QED BY <1>1, <1>2, <1>3, <1>4, <1>5, <1>6, <1>7, <1>8, <1>9

(* So does each action from the reading of the FPU to the return. *)
LEMMA RunningType ==
    ASSUME TypeOK, NEW t \in Threads,
           \/ ReadFPU(t) \/ ReadMemory(t) \/ Emulate(t) \/ Encode(t) \/ InstallHandlers(t)
           \/ LoadFPU(t) \/ SigSetJmp(t) \/ ExecuteNative(t) \/ ExecuteNativeAVX(t)
           \/ StoreFPU(t) \/ RestoreHandlers(t) \/ WriteMemory(t) \/ WriteFPU(t)
           \/ WriteFlags(t) \/ WriteRegisters(t) \/ Return(t)
    PROVE  TypeOK'
<1>1. ASSUME ReadFPU(t) PROVE TypeOK'
  <2>1. CallsType'
    <3>1. calls' = calls /\ gIsInitialized' = gIsInitialized /\ gXedd' \in Instrs
      BY <1>1 DEF ReadFPU, TypeOK, CallsType
    <3>2. \/ Continue(t, "readmem")
          \/ Leave(t, "kErrorReadFPU")
      BY <1>1 DEF ReadFPU
    <3>3. CASE Continue(t, "readmem")
      BY <3>1, <3>3, ContinueType DEF TypeOK, Stages
    <3>4. CASE Leave(t, "kErrorReadFPU")
      BY <3>1, <3>4, LeaveType DEF TypeOK, Statuses
    <3> QED BY <3>2, <3>3, <3>4
  <2>2. FPUType'
    <3>1. Client(t).fpu \in FPU /\ gFPU \in FPU /\ gRegs \in [Regs -> Val]
      BY ClientType DEF TypeOK, FPUType, RegsType
    <3>2. \A fpu \in FPU : [fpu EXCEPT !.mm = [m \in MMXRegs |->
             IF m \in gUsedRegs THEN gRegs[m] ELSE fpu.mm[m]]] \in FPU
      BY <3>1, RegAssumption DEF FPU
    <3>3. gFPU' \in FPU
      BY <1>1, <3>1, <3>2 DEF ReadFPU
    <3> QED BY <1>1, <3>3 DEF ReadFPU, TypeOK, FPUType
  <2>3. RegsType' /\ FlagsType' /\ MemoryType' /\ SignalsType' /\ ClientsType'
    BY <1>1 DEF ReadFPU, TypeOK, RegsType, FlagsType, MemoryType, SignalsType, ClientsType, regVars, flagVars, sigVars
  <2> QED BY <2>1, <2>2, <2>3 DEF TypeOK
<1>2. ASSUME ReadMemory(t) PROVE TypeOK'
  <2>1. CallsType'
    <3>1. calls' = calls /\ gIsInitialized' = gIsInitialized /\ gXedd' \in Instrs
      BY <1>2 DEF ReadMemory, TypeOK, CallsType
    <3>2. \/ Continue(t, "emulate")
          \/ Leave(t, "kErrorReadMem")
      BY <1>2 DEF ReadMemory
    <3>3. CASE Continue(t, "emulate")
      BY <3>1, <3>3, ContinueType DEF TypeOK, Stages
    <3>4. CASE Leave(t, "kErrorReadMem")
      BY <3>1, <3>4, LeaveType DEF TypeOK, Statuses
    <3> QED BY <3>2, <3>3, <3>4
  <2>2. MemoryType'
    <3>1. \A s \in Slots : Address(gXedd, s, gRegs) \in Val
      BY MemoryReadType, WordAssumption
    <3>2. \A s \in Slots : Client(t).mem[Address(gXedd, s, gRegs)] \in Val
      BY <3>1, ClientType
    <3>3. \A s \in Slots : Unread(s) \in MemoryOperand
      BY MemoryReadType, WordAssumption
    <3>4. \A s \in Slots : MemoryRead(s, Zero) \in MemoryOperand
      BY MemoryReadType, WordAssumption
    <3>5. \A s \in Slots :
             MemoryRead(s, Client(t).mem[Address(gXedd, s, gRegs)]) \in MemoryOperand
      BY MemoryReadType, <3>2
    <3> QED BY <1>2, <3>3, <3>4, <3>5 DEF ReadMemory, MemoryType
  <2>3. RegsType' /\ FlagsType' /\ FPUType' /\ SignalsType' /\ ClientsType'
    BY <1>2 DEF ReadMemory, TypeOK, RegsType, FlagsType, FPUType, SignalsType, ClientsType, regVars, flagVars, fpuVars, sigVars
  <2> QED BY <2>1, <2>2, <2>3 DEF TypeOK
<1>3. ASSUME Emulate(t) PROVE TypeOK'
  <2> DEFINE out == Effect(gXedd, [reg |-> gRegs, flag |-> gFlags, slot |-> SlotData,
                                   adr |-> SlotAddress, fpu |-> gFPU, pc |-> gRegs[IP]])
  <2>1. /\ out.reg \in [Regs -> Val] /\ out.flag \in [Flags -> Bit] /\ out.pc \in Val
        /\ StoreFlags(gXedd, out) \in [Flags -> Bit]
        /\ StoreSlots(gXedd, out) \in [Slots -> MemoryOperand]
    BY OutputType DEF TypeOK, RegsType, FPUType
  <2>2. /\ calls' = calls /\ gIsInitialized' = gIsInitialized /\ gXedd' = gXedd
        /\ UNCHANGED <<gUsedRegs, gStoreRegs, gStackPtrAlias, gWriteBackFlags, fpuVars,
                       sigVars, user, pre>>
    BY <1>3 DEF Emulate
  <2>3. CASE /\ gXedd.kind = "emulated"
             /\ gRegs' = [r \in Regs |-> IF r \in Written(gXedd, gRegs) THEN out.reg[r]
                                                                        ELSE gRegs[r]]
             /\ gModifiedRegs' = IF Skipped(gXedd, gRegs) THEN gModifiedRegs
                                 ELSE gModifiedRegs \cup gXedd.inc
             /\ gFlags' = StoreFlags(gXedd, out)
             /\ gMemory' = StoreSlots(gXedd, out)
             /\ pc' = [pc EXCEPT ![t] = "writemem"]
             /\ call' = [call EXCEPT ![t].next = out.pc]
             /\ UNCHANGED gExecutorLock
    <3> HIDE DEF out
    <3>1. gXedd.inc \subseteq Regs
      BY VisitsType DEF TypeOK, CallsType
    <3>2. RegsType'
      BY <2>1, <2>2, <2>3, <3>1 DEF TypeOK, RegsType
    <3>3. FlagsType' /\ MemoryType'
      BY <2>1, <2>2, <2>3 DEF TypeOK, FlagsType, MemoryType
    <3>4. call' \in [Threads -> Call_]
      BY <2>1, <2>3 DEF TypeOK, CallsType, Call_
    <3>5. pc' \in [Threads -> Stages]
      BY <2>3 DEF TypeOK, CallsType, Stages
    <3>6. CallsType'
      BY <2>2, <2>3, <3>4, <3>5 DEF TypeOK, CallsType
    <3> QED BY <2>2, <3>2, <3>3, <3>6 DEF TypeOK, FPUType, SignalsType, ClientsType,
                                          fpuVars, sigVars
  <2>4. CASE /\ \/ Leave(t, "kErrorUnsupportedCFI")
                \/ Leave(t, "kErrorUnsupportedStack")
                \/ Continue(t, "encode")
             /\ UNCHANGED <<gRegs, gModifiedRegs, gFlags, gMemory>>
    <3>1. gXedd' \in Instrs
      BY <2>2 DEF TypeOK, CallsType
    <3>2. "encode" \in Stages /\ "kErrorUnsupportedCFI" \in Statuses
          /\ "kErrorUnsupportedStack" \in Statuses
      BY DEF Stages, Statuses
    <3>3. CallsType'
      BY <2>2, <2>4, <3>1, <3>2, ContinueType, LeaveType DEF TypeOK
    <3> QED BY <2>2, <2>4, <3>3 DEF TypeOK, RegsType, FlagsType, MemoryType, FPUType,
                                    SignalsType, ClientsType, fpuVars, sigVars
  <2> QED BY <1>3, <2>3, <2>4 DEF Emulate
<1>4. ASSUME Encode(t) PROVE TypeOK'
  <2>1. CallsType'
    <3>1. calls' = calls /\ gIsInitialized' = gIsInitialized /\ gXedd' \in Instrs
      BY <1>4 DEF Encode, TypeOK, CallsType
    <3>2. \/ Continue(t, "install")
          \/ Leave(t, "kErrorExecute")
      BY <1>4 DEF Encode
    <3>3. CASE Continue(t, "install")
      BY <3>1, <3>3, ContinueType DEF TypeOK, Stages
    <3>4. CASE Leave(t, "kErrorExecute")
      BY <3>1, <3>4, LeaveType DEF TypeOK, Statuses
    <3> QED BY <3>2, <3>3, <3>4
  <2>2. RegsType'
    <3>1. StackPointerAlias \in AliasRegs \cup {NoReg}
      <4>1. FreeAliases \in SUBSET AliasRegs
        BY DEF FreeAliases
      <4> QED BY <4>1, AliasAssumption DEF StackPointerAlias
    <3>2. gStackPtrAlias' \in AliasRegs \cup {NoReg}
      BY <1>4, <3>1 DEF Encode
    <3>3. gRegs[SP] \in Val
      BY RegAssumption DEF TypeOK, RegsType
    <3>4. gRegs' \in [Regs -> Val]
      BY <1>4, <3>3 DEF Encode, TypeOK, RegsType
    <3> QED BY <1>4, <3>2, <3>4 DEF Encode, TypeOK, RegsType
  <2>3. FlagsType' /\ FPUType' /\ MemoryType' /\ SignalsType' /\ ClientsType'
    BY <1>4 DEF Encode, TypeOK, FlagsType, FPUType, MemoryType, SignalsType, ClientsType, flagVars, fpuVars, sigVars
  <2> QED BY <2>1, <2>2, <2>3 DEF TypeOK
<1>5. ASSUME InstallHandlers(t) PROVE TypeOK'
  <2>1. CallsType'
    <3>1. Continue(t, "loadfpu") /\ calls' = calls /\ gIsInitialized' = gIsInitialized
          /\ gXedd' = gXedd
      BY <1>5 DEF InstallHandlers
    <3> QED BY <3>1, ContinueType DEF TypeOK, CallsType, Stages
  <2>2. SignalsType'
    BY <1>5 DEF InstallHandlers, TypeOK, SignalsType, ClearedSignal
  <2>3. RegsType' /\ FlagsType' /\ FPUType' /\ MemoryType' /\ ClientsType'
    BY <1>5 DEF InstallHandlers, TypeOK, RegsType, FlagsType, FPUType, MemoryType, ClientsType, regVars, flagVars, fpuVars
  <2> QED BY <2>1, <2>2, <2>3 DEF TypeOK
<1>6. ASSUME LoadFPU(t) PROVE TypeOK'
  <2>1. CallsType'
    <3>1. Continue(t, "sigsetjmp") /\ calls' = calls /\ gIsInitialized' = gIsInitialized
          /\ gXedd' = gXedd
      BY <1>6 DEF LoadFPU
    <3> QED BY <3>1, ContinueType DEF TypeOK, CallsType, Stages
  <2>2. FPUType'
    BY <1>6 DEF LoadFPU, TypeOK, FPUType
  <2>3. RegsType' /\ FlagsType' /\ MemoryType' /\ SignalsType' /\ ClientsType'
    BY <1>6 DEF LoadFPU, TypeOK, RegsType, FlagsType, MemoryType, SignalsType, ClientsType, regVars, flagVars, sigVars
  <2> QED BY <2>1, <2>2, <2>3 DEF TypeOK
<1>7. ASSUME SigSetJmp(t) PROVE TypeOK'
  <2>1. CallsType'
    <3>1. Continue(t, "native") /\ calls' = calls /\ gIsInitialized' = gIsInitialized
          /\ gXedd' = gXedd
      BY <1>7 DEF SigSetJmp
    <3> QED BY <3>1, ContinueType DEF TypeOK, CallsType, Stages
  <2>2. SignalsType'
    BY <1>7 DEF SigSetJmp, TypeOK, SignalsType
  <2>3. RegsType' /\ FlagsType' /\ FPUType' /\ MemoryType' /\ ClientsType'
    BY <1>7 DEF SigSetJmp, TypeOK, RegsType, FlagsType, FPUType, MemoryType, ClientsType, regVars, flagVars, fpuVars
  <2> QED BY <2>1, <2>2, <2>3 DEF TypeOK
<1>8. ASSUME ExecuteNative(t) PROVE TypeOK'
  <2>1. PICK host \in HostVals :
     LET alias == gStackPtrAlias
         reg == [r \in Regs |-> IF r = SP /\ alias # NoReg THEN gRegs[alias]
                                ELSE IF r \in NativeRegs THEN gRegs[r] ELSE host]
         out == Effect(gXedd, [reg |-> reg, flag |-> gFlags, slot |-> SlotData,
                               adr |-> SlotAddress, fpu |-> hwFPU[t], pc |-> gRegs[IP]])
     IN  \/ /\ out.sig = "none"
            /\ gRegs' = [r \in Regs |->
                  IF r = alias THEN IF SP \in Elems(gXedd.wr) THEN out.reg[SP] ELSE gRegs[r]
                  ELSE IF r \in NativeRegs \cap Elems(gXedd.wr) THEN out.reg[r]
                  ELSE gRegs[r]]
            /\ gFlags' = StoreFlags(gXedd, out)
            /\ gMemory' = StoreSlots(gXedd, out)
            /\ hwFPU' = IF gUsesFPU THEN [hwFPU EXCEPT ![t] = out.fpu] ELSE hwFPU
            /\ UNCHANGED gSignal
            /\ Continue(t, "storefpu")
         \/ /\ out.sig # "none"
            /\ gSignal' = out.sig
            /\ gRegs' = [r \in Regs |-> IF r \in NativeRegs THEN host ELSE gRegs[r]]
            /\ UNCHANGED <<gFlags, gMemory, hwFPU>>
            /\ Continue(gRecoveryTarget, "storefpu")
    BY <1>8 DEF ExecuteNative
  <2> DEFINE reg == [r \in Regs |-> IF r = SP /\ gStackPtrAlias # NoReg
                                    THEN gRegs[gStackPtrAlias]
                                    ELSE IF r \in NativeRegs THEN gRegs[r] ELSE host]
             out == Effect(gXedd, [reg |-> reg, flag |-> gFlags, slot |-> SlotData,
                                   adr |-> SlotAddress, fpu |-> hwFPU[t], pc |-> gRegs[IP]])
  <2>2. /\ calls' = calls /\ gIsInitialized' = gIsInitialized /\ gXedd' \in Instrs
        /\ UNCHANGED <<gUsedRegs, gModifiedRegs, gStoreRegs, gStackPtrAlias,
                       gWriteBackFlags, gUsesFPU, gUsesMMX, gFPU, gNativeFPU,
                       gRecoveryTarget, gSavedHandlers, handlers, user, pre>>
    BY <1>8 DEF ExecuteNative, TypeOK, CallsType
  <2>3. reg \in [Regs -> Val]
    BY RegAssumption, HostAssumption DEF TypeOK, RegsType
  <2>4. /\ out.reg \in [Regs -> Val] /\ out.flag \in [Flags -> Bit] /\ out.fpu \in FPU
        /\ out.sig \in Signals \cup {"none"}
        /\ StoreFlags(gXedd, out) \in [Flags -> Bit]
        /\ StoreSlots(gXedd, out) \in [Slots -> MemoryOperand]
    BY <2>3, OutputType DEF TypeOK, RegsType, FPUType
  <2>5. CallsType'
    <3>1. Continue(t, "storefpu") \/ Continue(gRecoveryTarget, "storefpu")
      BY <2>1
    <3>2. "storefpu" \in Stages /\ gRecoveryTarget \in Threads \cup {NoThread}
      BY DEF Stages, TypeOK, SignalsType
    <3> QED BY <2>2, <3>1, <3>2, ContinueType DEF TypeOK
  <2>6. gRegs' \in [Regs -> Val]
    <3> HIDE DEF out, reg
    <3>1. \/ gRegs' = [r \in Regs |->
                  IF r = gStackPtrAlias
                  THEN IF SP \in Elems(gXedd.wr) THEN out.reg[SP] ELSE gRegs[r]
                  ELSE IF r \in NativeRegs \cap Elems(gXedd.wr) THEN out.reg[r]
                  ELSE gRegs[r]]
          \/ gRegs' = [r \in Regs |-> IF r \in NativeRegs THEN host ELSE gRegs[r]]
      BY <2>1 DEF out, reg
    <3> QED BY <2>4, <3>1, RegAssumption, HostAssumption DEF TypeOK, RegsType
  <2>7. /\ gFlags' \in [Flags -> Bit] /\ gMemory' \in [Slots -> MemoryOperand]
        /\ hwFPU' \in [Threads -> FPU] /\ gSignal' \in Signals \cup {"none"}
    <3> HIDE DEF out, reg
    <3>1. \/ /\ gFlags' = StoreFlags(gXedd, out) /\ gMemory' = StoreSlots(gXedd, out)
             /\ hwFPU' = IF gUsesFPU THEN [hwFPU EXCEPT ![t] = out.fpu] ELSE hwFPU
             /\ UNCHANGED gSignal
          \/ gSignal' = out.sig /\ UNCHANGED <<gFlags, gMemory, hwFPU>>
      BY <2>1 DEF out, reg
    <3> QED BY <2>4, <3>1 DEF TypeOK, FlagsType, MemoryType, FPUType, SignalsType
  <2>8. RegsType' /\ FlagsType' /\ FPUType' /\ MemoryType' /\ SignalsType' /\ ClientsType'
    BY <2>2, <2>6, <2>7 DEF TypeOK, RegsType, FlagsType, FPUType, MemoryType, SignalsType,
                            ClientsType
  <2> QED BY <2>1, <2>2, <2>3, <2>4, <2>5, <2>6, <2>7, <2>8 DEF TypeOK
<1>9. ASSUME ExecuteNativeAVX(t) PROVE TypeOK'
  <2>1. CallsType'
    <3>1. Continue(t, "storefpu") /\ calls' = calls /\ gIsInitialized' = gIsInitialized
          /\ gXedd' = gXedd
      BY <1>9 DEF ExecuteNativeAVX
    <3> QED BY <3>1, ContinueType DEF TypeOK, CallsType, Stages
  <2>2. SignalsType'
    BY <1>9 DEF ExecuteNativeAVX, TypeOK, SignalsType, Signals
  <2>3. RegsType' /\ FlagsType' /\ FPUType' /\ MemoryType' /\ ClientsType'
    BY <1>9 DEF ExecuteNativeAVX, TypeOK, RegsType, FlagsType, FPUType, MemoryType, ClientsType, regVars, flagVars, fpuVars
  <2> QED BY <2>1, <2>2, <2>3 DEF TypeOK
<1>10. ASSUME StoreFPU(t) PROVE TypeOK'
  <2>1. CallsType'
    <3>1. Continue(t, "restore") /\ calls' = calls /\ gIsInitialized' = gIsInitialized
          /\ gXedd' = gXedd
      BY <1>10 DEF StoreFPU
    <3> QED BY <3>1, ContinueType DEF TypeOK, CallsType, Stages
  <2>2. FPUType'
    BY <1>10 DEF StoreFPU, TypeOK, FPUType
  <2>3. RegsType' /\ FlagsType' /\ MemoryType' /\ SignalsType' /\ ClientsType'
    BY <1>10 DEF StoreFPU, TypeOK, RegsType, FlagsType, MemoryType, SignalsType, ClientsType, regVars, flagVars, sigVars
  <2> QED BY <2>1, <2>2, <2>3 DEF TypeOK
<1>11. ASSUME RestoreHandlers(t) PROVE TypeOK'
  <2>1. CallsType'
    <3>1. calls' = calls /\ gIsInitialized' = gIsInitialized /\ gXedd' \in Instrs
      BY <1>11 DEF RestoreHandlers, TypeOK, CallsType
    <3>2. \/ Continue(t, "writemem")
          \/ Leave(t, "kErrorFault")
          \/ Leave(t, "kErrorFloatingPointException")
          \/ Leave(t, "kErrorExecute")
      BY <1>11 DEF RestoreHandlers
    <3>3. CASE Continue(t, "writemem")
      BY <3>1, <3>3, ContinueType DEF TypeOK, Stages
    <3>4. CASE Leave(t, "kErrorFault")
      BY <3>1, <3>4, LeaveType DEF TypeOK, Statuses
    <3>5. CASE Leave(t, "kErrorFloatingPointException")
      BY <3>1, <3>5, LeaveType DEF TypeOK, Statuses
    <3>6. CASE Leave(t, "kErrorExecute")
      BY <3>1, <3>6, LeaveType DEF TypeOK, Statuses
    <3> QED BY <3>2, <3>3, <3>4, <3>5, <3>6
  <2>2. SignalsType'
    BY <1>11 DEF RestoreHandlers, TypeOK, SignalsType, RestoredHandlers
  <2>3. RegsType' /\ FlagsType' /\ FPUType' /\ MemoryType' /\ ClientsType'
    BY <1>11 DEF RestoreHandlers, TypeOK, RegsType, FlagsType, FPUType, MemoryType, ClientsType, regVars, flagVars, fpuVars
  <2> QED BY <2>1, <2>2, <2>3 DEF TypeOK
<1>12. ASSUME WriteMemory(t) PROVE TypeOK'
  <2>1. CallsType'
    <3>1. calls' = calls /\ gIsInitialized' = gIsInitialized /\ gXedd' \in Instrs
      BY <1>12 DEF WriteMemory, TypeOK, CallsType
    <3>2. \/ Continue(t, "writefpu")
          \/ Leave(t, "kErrorWriteMem")
      BY <1>12 DEF WriteMemory
    <3>3. CASE Continue(t, "writefpu")
      BY <3>1, <3>3, ContinueType DEF TypeOK, Stages
    <3>4. CASE Leave(t, "kErrorWriteMem")
      BY <3>1, <3>4, LeaveType DEF TypeOK, Statuses
    <3> QED BY <3>2, <3>3, <3>4
  <2>2. ClientsType'
    <3>1. \A slots \in SUBSET Slots : MemoryWith(Client(t).mem, slots) \in [Val -> Val]
      <4> TAKE slots \in SUBSET Slots
      <4>1. Client(t).mem \in [Val -> Val]
        BY ClientType
      <4>2. \A a \in Val : (\E s \in slots : gMemory[s].address = a) =>
              gMemory[CHOOSE s \in slots : gMemory[s].address = a].data \in Val
        BY DEF TypeOK, MemoryType, MemoryOperand
      <4> QED BY <4>1, <4>2 DEF MemoryWith
    <3>2. \E slots \in SUBSET Slots :
             user' = [user EXCEPT ![call[t].ex].mem = MemoryWith(@, slots)]
      BY <1>12 DEF WriteMemory, WriteBackSlots, WrittenBefore
    <3>3. \E mem \in [Val -> Val] : user' = [user EXCEPT ![call[t].ex].mem = mem]
      BY <3>1, <3>2 DEF Client
    <3> QED BY <1>12, <3>3, WriteBackType DEF WriteMemory
  <2>3. RegsType' /\ FlagsType' /\ FPUType' /\ MemoryType' /\ SignalsType'
    BY <1>12 DEF WriteMemory, TypeOK, RegsType, FlagsType, FPUType, MemoryType, SignalsType, regVars, flagVars, fpuVars, sigVars
  <2> QED BY <2>1, <2>2, <2>3 DEF TypeOK
<1>13. ASSUME WriteFPU(t) PROVE TypeOK'
  <2>1. CallsType'
    <3>1. calls' = calls /\ gIsInitialized' = gIsInitialized /\ gXedd' \in Instrs
      BY <1>13 DEF WriteFPU, TypeOK, CallsType
    <3>2. \/ Continue(t, "writeflags")
          \/ Leave(t, "kErrorWriteFPU")
      BY <1>13 DEF WriteFPU
    <3>3. CASE Continue(t, "writeflags")
      BY <3>1, <3>3, ContinueType DEF TypeOK, Stages
    <3>4. CASE Leave(t, "kErrorWriteFPU")
      BY <3>1, <3>4, LeaveType DEF TypeOK, Statuses
    <3> QED BY <3>2, <3>3, <3>4
  <2>2. ClientsType'
    <3>1. user' = user \/ user' = [user EXCEPT ![call[t].ex].fpu = gFPU]
      BY <1>13 DEF WriteFPU
    <3>2. CASE user' = user
      BY <1>13, <3>2 DEF WriteFPU, TypeOK, ClientsType
    <3>3. CASE user' = [user EXCEPT ![call[t].ex].fpu = gFPU]
      BY <1>13, <3>3, WriteBackType DEF WriteFPU, TypeOK, FPUType
    <3> QED BY <3>1, <3>2, <3>3
  <2>3. RegsType'
    <3>1. gFPU.mm \in [MMXRegs -> Val]
      BY DEF TypeOK, FPUType, FPU
    <3>2. gRegs' \in [Regs -> Val]
      BY <1>13, <3>1 DEF WriteFPU, TypeOK, RegsType
    <3> QED BY <1>13, <3>2 DEF WriteFPU, TypeOK, RegsType
  <2>4. FlagsType' /\ FPUType' /\ MemoryType' /\ SignalsType'
    BY <1>13 DEF WriteFPU, TypeOK, FlagsType, FPUType, MemoryType, SignalsType, flagVars, fpuVars, sigVars
  <2> QED BY <2>1, <2>2, <2>3, <2>4 DEF TypeOK
<1>14. ASSUME WriteFlags(t) PROVE TypeOK'
  <2>1. CallsType'
    <3>1. calls' = calls /\ gIsInitialized' = gIsInitialized /\ gXedd' \in Instrs
      BY <1>14 DEF WriteFlags, TypeOK, CallsType
    <3>2. \/ Continue(t, "writeregs")
          \/ Leave(t, "kErrorWriteFlags")
      BY <1>14 DEF WriteFlags
    <3>3. CASE Continue(t, "writeregs")
      BY <3>1, <3>3, ContinueType DEF TypeOK, Stages
    <3>4. CASE Leave(t, "kErrorWriteFlags")
      BY <3>1, <3>4, LeaveType DEF TypeOK, Statuses
    <3> QED BY <3>2, <3>3, <3>4
  <2>2. ClientsType'
    <3>1. \A fs \in SUBSET Flags : FlagsWith(Client(t).flag, fs) \in [Flags -> Bit]
      BY ClientType DEF FlagsWith, TypeOK, FlagsType
    <3>2. \/ user' = user
          \/ \E fs \in SUBSET Flags :
               user' = [user EXCEPT ![call[t].ex].flag = FlagsWith(@, fs)]
      BY <1>14 DEF WriteFlags, WrittenBefore, TypeOK, FlagsType
    <3>3. CASE user' = user
      BY <1>14, <3>3 DEF WriteFlags, TypeOK, ClientsType
    <3>4. CASE \E fs \in SUBSET Flags :
                 user' = [user EXCEPT ![call[t].ex].flag = FlagsWith(@, fs)]
      <4>1. \E flag \in [Flags -> Bit] : user' = [user EXCEPT ![call[t].ex].flag = flag]
        BY <3>1, <3>4 DEF Client
      <4> QED BY <1>14, <4>1, WriteBackType DEF WriteFlags
    <3> QED BY <3>2, <3>3, <3>4
  <2>3. RegsType' /\ FlagsType'
    BY <1>14 DEF WriteFlags, WithoutFlags, TypeOK, RegsType, FlagsType
  <2>4. FPUType' /\ MemoryType' /\ SignalsType'
    BY <1>14 DEF WriteFlags, TypeOK, FPUType, MemoryType, SignalsType, fpuVars, sigVars
  <2> QED BY <2>1, <2>2, <2>3, <2>4 DEF TypeOK
<1>15. ASSUME WriteRegisters(t) PROVE TypeOK'
  <2>1. call[t] \in Call_ /\ call[t].next \in Val /\ call[t].ex \in Execs
    BY DEF TypeOK, CallsType, Call_
  <2>2. gRegs' \in [Regs -> Val]
    <3>1. UnaliasedRegs \in [Regs -> Val]
      BY RegAssumption DEF UnaliasedRegs, TypeOK, RegsType
    <3> QED BY <1>15, <2>1, <3>1 DEF WriteRegisters
  <2>3. RegsType'
    BY <1>15, <2>2 DEF WriteRegisters, TypeOK, RegsType
  <2>4. ClientsType'
    <3>1. \A rs \in SUBSET Regs : RegistersWith(Client(t).reg, rs) \in [Regs -> Val]
      BY <2>2, ClientType DEF RegistersWith
    <3>2. \E rs \in SUBSET Regs :
             user' = [user EXCEPT ![call[t].ex].reg = RegistersWith(@, rs)]
      BY <1>15 DEF WriteRegisters, WrittenBefore, WriteBackRegs, TypeOK, RegsType
    <3>3. \E reg \in [Regs -> Val] : user' = [user EXCEPT ![call[t].ex].reg = reg]
      BY <3>1, <3>2 DEF Client
    <3> QED BY <1>15, <3>3, WriteBackType DEF WriteRegisters
  <2>5. CallsType'
    <3>1. calls' = calls /\ gIsInitialized' = gIsInitialized /\ gXedd' = gXedd
      BY <1>15 DEF WriteRegisters
    <3>2. CASE Leave(t, "kErrorWriteReg")
      BY <3>1, <3>2, LeaveType DEF TypeOK, CallsType, Statuses
    <3>3. CASE /\ pc' = [pc EXCEPT ![t] = "loop"]
               /\ call' = [call EXCEPT ![t].num = @ + 1]
               /\ UNCHANGED gExecutorLock
      <4>1. call' \in [Threads -> Call_]
        BY <3>3 DEF TypeOK, CallsType, Call_
      <4> QED BY <3>1, <3>3, <4>1 DEF TypeOK, CallsType, Stages
    <3> QED BY <1>15, <3>2, <3>3 DEF WriteRegisters
  <2>6. FlagsType' /\ FPUType' /\ MemoryType' /\ SignalsType'
    BY <1>15 DEF WriteRegisters, TypeOK, FlagsType, FPUType, MemoryType, SignalsType, flagVars, fpuVars, sigVars
  <2> QED BY <2>1, <2>2, <2>3, <2>4, <2>5, <2>6 DEF TypeOK
<1>16. ASSUME Return(t) PROVE TypeOK'
  <2>1. CallsType'
    BY <1>16 DEF Return, TypeOK, CallsType, Stages
  <2>2. RegsType' /\ FlagsType' /\ FPUType' /\ MemoryType' /\ SignalsType' /\ ClientsType'
    BY <1>16 DEF Return, TypeOK, RegsType, FlagsType, FPUType, MemoryType, SignalsType, ClientsType, regVars, flagVars, fpuVars, sigVars
  <2> QED BY <2>1, <2>2 DEF TypeOK
<1> QED BY <1>1, <1>2, <1>3, <1>4, <1>5, <1>6, <1>7, <1>8, <1>9, <1>10, <1>11, <1>12, <1>13, <1>14, <1>15, <1>16

(* Every step keeps the types. *)
LEMMA NextType == TypeOK /\ [Next]_vars => TypeOK'
<1>1. ASSUME TypeOK, NEW t \in Threads, InitExecutor(t) \/ Call(t) \/ Progress(t)
      PROVE  TypeOK'
  BY <1>1, ReadingType, RunningType DEF Progress
<1>2. ASSUME TypeOK, UNCHANGED vars
      PROVE  TypeOK'
  BY <1>2 DEF TypeOK, CallsType, RegsType, FlagsType, FPUType, MemoryType, SignalsType,
              ClientsType, vars, callVars, regVars, flagVars, fpuVars, sigVars
<1> QED BY <1>1, <1>2 DEF Next, Done

(* The globals of Executor.cpp, the clients' states and the locals of every *)
(* call keep their types, for any clients, instructions and failures.       *)
THEOREM TypeCorrect == Spec => []TypeOK
<1> QED BY InitType, NextType, PTL DEF Spec

-----------------------------------------------------------------------------
(* The inductive invariant behind mutual exclusion, the restored host and   *)
(* the iteration bound. They need each other: a fault in the JITed          *)
(* instruction resumes the thread in gRecoveryTarget, which is the one that *)
(* holds the lock only because no other thread can be in the window.        *)
SafetyInv == TypeOK /\ MutualExclusion /\ WindowInv /\ HostRestored /\ IterationBound

Body == Stages \ (Outside \cup {"loop"})

(* t moves from one stage of the loop body to another.                      *)
Moves(t, stage) ==
    /\ pc' = [pc EXCEPT ![t] = stage] /\ gExecutorLock' = gExecutorLock
    /\ \A u \in Threads : call'[u].num = call[u].num /\ call'[u].max = call[u].max
                          /\ call'[u].status = call[u].status

(* While t is in the critical section it is alone there. *)
LEMMA Alone ==
    ASSUME SafetyInv, NEW t \in Threads, pc[t] \notin Outside
    PROVE  gExecutorLock = t /\ \A u \in Threads \ {t} : pc[u] \in Outside
BY DEF SafetyInv, MutualExclusion

(* The stages of the loop body go on, or return an error. *)
LEMMA BodyControl ==
    ASSUME SafetyInv, NEW t \in Threads, pc[t] \in Body,
           \/ \E stage \in Body : Moves(t, stage)
           \/ \E status \in Statuses \ {"kGood"} : Leave(t, status)
    PROVE  MutualExclusion' /\ IterationBound'
<1>1. gExecutorLock = t /\ \A u \in Threads \ {t} : pc[u] \in Outside
  BY Alone DEF Body
<1>2. /\ call[t].num < call[t].max /\ pc \in [Threads -> Stages]
      /\ call \in [Threads -> Call_] /\ t # NoThread
      /\ \A u \in Threads : call[u].num \in Nat /\ call[u].max \in Nat
  BY BoundAssumption, ThreadAssumption
  DEF SafetyInv, IterationBound, Body, TypeOK, CallsType, Call_
<1>3. CASE \E stage \in Body : Moves(t, stage)
  <2> PICK stage \in Body : Moves(t, stage)
    BY <1>3
  <2>1. MutualExclusion'
    BY <1>1, <1>2 DEF MutualExclusion, Moves, Body
  <2>2. IterationBound'
    BY <1>2 DEF SafetyInv, IterationBound, Moves, Body, Outside
  <2> QED BY <2>1, <2>2
<1>4. CASE \E status \in Statuses \ {"kGood"} : Leave(t, status)
  <2> PICK status \in Statuses \ {"kGood"} : Leave(t, status)
    BY <1>4
  <2>1. MutualExclusion'
    BY <1>1, <1>2, ThreadAssumption DEF MutualExclusion, Leave, Outside
  <2>2. \A u \in Threads : call'[u].num = call[u].num /\ call'[u].max = call[u].max
    BY <1>2 DEF Leave, Call_
  <2>3. call'[t].status # "kGood" /\ \A u \in Threads \ {t} : call'[u] = call[u]
    BY <1>2 DEF Leave, Call_
  <2>4. pc'[t] = "ret" /\ \A u \in Threads \ {t} : pc'[u] = pc[u]
    BY <1>2 DEF Leave
  <2>5. IterationBound'
    BY <2>2, <2>3, <2>4 DEF SafetyInv, IterationBound, Outside
  <2> QED BY <2>1, <2>5
<1> QED BY <1>3, <1>4

(* A step that starts and ends outside the window, and leaves the handlers  *)
(* and the FPU of the processor alone, keeps the host's state.              *)
LEMMA QuietStep ==
    ASSUME SafetyInv, NEW t \in Threads, NEW stage \in Stages \ Window,
           pc' = [pc EXCEPT ![t] = stage], pc[t] \notin Window,
           UNCHANGED <<sigVars, gNativeFPU, hwFPU>>,
           gUsesFPU' = gUsesFPU \/ pc[t] \notin Outside
    PROVE  WindowInv' /\ HostRestored'
<1>1. pc \in [Threads -> Stages]
  BY DEF SafetyInv, TypeOK, CallsType
<1>2. pc'[t] \notin Window /\ \A u \in Threads \ {t} : pc'[u] = pc[u]
  BY <1>1
<1>3. \A u \in Threads : pc'[u] \in Window => pc[u] \in Window /\ pc'[u] = pc[u]
                                              /\ gUsesFPU' = gUsesFPU
  <2>1. \A u \in Threads : pc'[u] \in Window => u # t /\ pc[u] = pc'[u]
    BY <1>2
  <2>2. pc[t] \notin Outside => \A u \in Threads \ {t} : pc[u] \notin Window
    BY Alone DEF Outside, Window
  <2> QED BY <2>1, <2>2
<1>4. WindowInv'
  BY <1>3 DEF SafetyInv, WindowInv, Window, FPUWindow, sigVars
<1>5. HostRestored'
  <2>1. (\A u \in Threads : pc'[u] \notin Window) => \A u \in Threads : pc[u] \notin Window
    BY <1>2
  <2>2. \A u \in Threads : pc'[u] \notin FPUWindow => pc[u] \notin FPUWindow
    BY <1>2 DEF Window, FPUWindow
  <2> QED BY <2>1, <2>2 DEF SafetyInv, HostRestored, sigVars
<1> QED BY <1>4, <1>5

(* The two together, for the stages before and after the window. *)
LEMMA QuietBody ==
    ASSUME SafetyInv, NEW t \in Threads, pc[t] \in Body \ Window,
           \/ \E stage \in Body \ Window : Moves(t, stage)
           \/ \E status \in Statuses \ {"kGood"} : Leave(t, status),
           UNCHANGED <<sigVars, gNativeFPU, hwFPU>>
    PROVE  MutualExclusion' /\ IterationBound' /\ WindowInv' /\ HostRestored'
<1>1. MutualExclusion' /\ IterationBound'
  BY BodyControl
<1>2. \E stage \in Stages \ Window : pc' = [pc EXCEPT ![t] = stage]
  BY DEF Moves, Leave, Body, Stages, Window
<1>3. pc[t] \notin Window /\ pc[t] \notin Outside
  BY DEF Body
<1>4. WindowInv' /\ HostRestored'
  BY <1>2, <1>3, QuietStep
<1> QED BY <1>1, <1>4

(* Going on to a stage of the body is a move. *)
LEMMA ContinueMoves ==
    ASSUME NEW t, NEW stage, Continue(t, stage)
    PROVE  Moves(t, stage)
BY DEF Continue, Moves

(* The stages that read, emulate, encode and write back. *)
LEMMA QuietActions ==
    ASSUME SafetyInv, NEW t \in Threads,
           \/ ReadPC(t) \/ Fetch(t) \/ ReadFlags(t) \/ ReadRegisters(t) \/ ReadFPU(t)
           \/ ReadMemory(t) \/ Emulate(t) \/ Encode(t) \/ WriteMemory(t) \/ WriteFPU(t)
           \/ WriteFlags(t)
    PROVE  MutualExclusion' /\ IterationBound' /\ WindowInv' /\ HostRestored'
<1>1. CASE ReadPC(t)
  <2>1. pc[t] = "readpc" /\ UNCHANGED <<sigVars, gNativeFPU, hwFPU>>
    BY <1>1 DEF ReadPC, fpuVars
  <2>2. \/ Continue(t, "fetch")
        \/ Leave(t, "kErrorReadReg")
    BY <1>1 DEF ReadPC
  <2> QED BY <2>1, <2>2, ContinueMoves, QuietBody DEF Body, Stages, Statuses, Window, Outside
<1>2. CASE Fetch(t)
  <2>1. pc[t] = "fetch" /\ UNCHANGED <<sigVars, gNativeFPU, hwFPU>>
    BY <1>2 DEF Fetch, fpuVars
  <2>2. \/ Continue(t, "readflags")
        \/ Leave(t, "kErrorReadInstMem")
        \/ Leave(t, "kErrorDecode")
        \/ Leave(t, "kErrorUnsupportedFeatures")
    BY <1>2 DEF Fetch
  <2> QED BY <2>1, <2>2, ContinueMoves, QuietBody DEF Body, Stages, Statuses, Window, Outside
<1>3. CASE ReadFlags(t)
  <2>1. pc[t] = "readflags" /\ UNCHANGED <<sigVars, gNativeFPU, hwFPU>>
    BY <1>3 DEF ReadFlags, fpuVars
  <2>2. \/ Continue(t, "readregs")
        \/ Leave(t, "kErrorReadFlags")
    BY <1>3 DEF ReadFlags
  <2> QED BY <2>1, <2>2, ContinueMoves, QuietBody DEF Body, Stages, Statuses, Window, Outside
<1>4. CASE ReadFPU(t)
  <2>1. pc[t] = "readfpu" /\ UNCHANGED <<sigVars, gNativeFPU, hwFPU>>
    BY <1>4 DEF ReadFPU, fpuVars
  <2>2. \/ Continue(t, "readmem")
        \/ Leave(t, "kErrorReadFPU")
    BY <1>4 DEF ReadFPU
  <2> QED BY <2>1, <2>2, ContinueMoves, QuietBody DEF Body, Stages, Statuses, Window, Outside
<1>5. CASE ReadMemory(t)
  <2>1. pc[t] = "readmem" /\ UNCHANGED <<sigVars, gNativeFPU, hwFPU>>
    BY <1>5 DEF ReadMemory, fpuVars
  <2>2. \/ Continue(t, "emulate")
        \/ Leave(t, "kErrorReadMem")
    BY <1>5 DEF ReadMemory
  <2> QED BY <2>1, <2>2, ContinueMoves, QuietBody DEF Body, Stages, Statuses, Window, Outside
<1>6. CASE Encode(t)
  <2>1. pc[t] = "encode" /\ UNCHANGED <<sigVars, gNativeFPU, hwFPU>>
    BY <1>6 DEF Encode, fpuVars
  <2>2. \/ Continue(t, "install")
        \/ Leave(t, "kErrorExecute")
    BY <1>6 DEF Encode
  <2> QED BY <2>1, <2>2, ContinueMoves, QuietBody DEF Body, Stages, Statuses, Window, Outside
<1>7. CASE WriteMemory(t)
  <2>1. pc[t] = "writemem" /\ UNCHANGED <<sigVars, gNativeFPU, hwFPU>>
    BY <1>7 DEF WriteMemory, fpuVars
  <2>2. \/ Continue(t, "writefpu")
        \/ Leave(t, "kErrorWriteMem")
    BY <1>7 DEF WriteMemory
  <2> QED BY <2>1, <2>2, ContinueMoves, QuietBody DEF Body, Stages, Statuses, Window, Outside
<1>8. CASE WriteFPU(t)
  <2>1. pc[t] = "writefpu" /\ UNCHANGED <<sigVars, gNativeFPU, hwFPU>>
    BY <1>8 DEF WriteFPU, fpuVars
  <2>2. \/ Continue(t, "writeflags")
        \/ Leave(t, "kErrorWriteFPU")
    BY <1>8 DEF WriteFPU
  <2> QED BY <2>1, <2>2, ContinueMoves, QuietBody DEF Body, Stages, Statuses, Window, Outside
<1>9. CASE WriteFlags(t)
  <2>1. pc[t] = "writeflags" /\ UNCHANGED <<sigVars, gNativeFPU, hwFPU>>
    BY <1>9 DEF WriteFlags, fpuVars
  <2>2. \/ Continue(t, "writeregs")
        \/ Leave(t, "kErrorWriteFlags")
    BY <1>9 DEF WriteFlags
  <2> QED BY <2>1, <2>2, ContinueMoves, QuietBody DEF Body, Stages, Statuses, Window, Outside
<1>10. CASE ReadRegisters(t)
  <2>1. pc[t] = "readregs" /\ UNCHANGED <<sigVars, gNativeFPU, hwFPU>>
    BY <1>10 DEF ReadRegisters
  <2>2. \/ \E next : \E stage \in {"writeflags", "readfpu"} :
              /\ pc' = [pc EXCEPT ![t] = stage]
              /\ call' = [call EXCEPT ![t].next = next]
              /\ UNCHANGED gExecutorLock
        \/ Leave(t, "kErrorReadReg")
    BY <1>10 DEF ReadRegisters
  <2>3. \/ Moves(t, "writeflags") \/ Moves(t, "readfpu")
        \/ Leave(t, "kErrorReadReg")
    BY <2>2 DEF Moves, SafetyInv, TypeOK, CallsType, Call_
  <2> QED BY <2>1, <2>3, QuietBody DEF Body, Stages, Statuses, Window, Outside
<1>11. CASE Emulate(t)
  <2>1. pc[t] = "emulate" /\ UNCHANGED <<sigVars, gNativeFPU, hwFPU>>
    BY <1>11 DEF Emulate, fpuVars
  <2>2. \/ \E next : /\ pc' = [pc EXCEPT ![t] = "writemem"]
                     /\ call' = [call EXCEPT ![t].next = next]
                     /\ UNCHANGED gExecutorLock
        \/ Leave(t, "kErrorUnsupportedCFI") \/ Leave(t, "kErrorUnsupportedStack")
        \/ Continue(t, "encode")
    BY <1>11 DEF Emulate
  <2>3. \/ Moves(t, "writemem") \/ Moves(t, "encode")
        \/ Leave(t, "kErrorUnsupportedCFI") \/ Leave(t, "kErrorUnsupportedStack")
    BY <2>2, ContinueMoves DEF Moves, SafetyInv, TypeOK, CallsType, Call_
  <2> QED BY <2>1, <2>3, QuietBody DEF Body, Stages, Statuses, Window, Outside
<1> QED BY <1>1, <1>2, <1>3, <1>4, <1>5, <1>6, <1>7, <1>8, <1>9, <1>10, <1>11

(* The stages of the window: each one of them knows that no other thread is *)
(* in the critical section.                                                 *)
LEMMA WindowActions ==
    ASSUME SafetyInv, NEW t \in Threads,
           \/ InstallHandlers(t) \/ LoadFPU(t) \/ SigSetJmp(t) \/ ExecuteNative(t)
           \/ ExecuteNativeAVX(t) \/ StoreFPU(t) \/ RestoreHandlers(t)
    PROVE  MutualExclusion' /\ IterationBound' /\ WindowInv' /\ HostRestored'
<1>1. pc[t] \in Window \cup {"install"} /\ pc[t] \in Body
  BY DEF InstallHandlers, LoadFPU, SigSetJmp, ExecuteNative, ExecuteNativeAVX, StoreFPU,
         RestoreHandlers, Window, Body, Stages, Outside
<1>2. gExecutorLock = t /\ \A u \in Threads \ {t} : pc[u] \in Outside
  BY <1>1, Alone DEF Body
<1>3. /\ pc \in [Threads -> Stages] /\ hwFPU \in [Threads -> FPU]
      /\ \A u \in Threads \ {t} : hwFPU[u] = HostFPU[u]
  BY <1>2 DEF SafetyInv, TypeOK, CallsType, FPUType, HostRestored, FPUWindow, Outside
<1>4. CASE InstallHandlers(t)
  <2>1. Continue(t, "loadfpu")
    BY <1>4 DEF InstallHandlers
  <2>2. MutualExclusion' /\ IterationBound'
    BY <1>1, <2>1, ContinueMoves, BodyControl DEF Body, Stages, Outside
  <2>3. pc'[t] = "loadfpu" /\ \A u \in Threads \ {t} : pc'[u] = pc[u]
    BY <1>3, <2>1 DEF Continue
  <2>4. pc[t] = "install" /\ \A u \in Threads : pc[u] \notin Window
    BY <1>2, <1>4 DEF InstallHandlers, Outside, Window
  <2>5. gSavedHandlers' = "host" /\ gUsesFPU' = gUsesFPU /\ gNativeFPU' = gNativeFPU
        /\ hwFPU' = hwFPU
    BY <1>4, <2>4 DEF InstallHandlers, fpuVars, SafetyInv, HostRestored
  <2>6. WindowInv'
    BY <1>2, <2>3, <2>5 DEF WindowInv, Window, FPUWindow, Outside
  <2>7. hwFPU[t] = HostFPU[t]
    BY <2>4 DEF SafetyInv, HostRestored, Window, FPUWindow
  <2>8. HostRestored'
    BY <1>3, <2>3, <2>5, <2>7 DEF HostRestored, Window
  <2> QED BY <2>2, <2>6, <2>8
<1>5. CASE LoadFPU(t)
  <2>1. Continue(t, "sigsetjmp") /\ pc[t] = "loadfpu"
        /\ UNCHANGED <<sigVars, gUsesFPU>>
    BY <1>5 DEF LoadFPU
  <2>2. MutualExclusion' /\ IterationBound'
    BY <1>1, <2>1, ContinueMoves, BodyControl DEF Body, Stages, Outside
  <2>3. pc'[t] = "sigsetjmp" /\ \A u \in Threads \ {t} : pc'[u] = pc[u]
    BY <1>3, <2>1 DEF Continue
  <2>4. hwFPU[t] = HostFPU[t] /\ gSavedHandlers = "host"
    BY <2>1 DEF SafetyInv, HostRestored, WindowInv, Window, FPUWindow
  <2>5. /\ IF gUsesFPU THEN gNativeFPU' = HostFPU[t] ELSE hwFPU'[t] = HostFPU[t]
        /\ \A u \in Threads \ {t} : hwFPU'[u] = hwFPU[u]
    BY <1>3, <1>5, <2>4 DEF LoadFPU
  <2>6. WindowInv'
    BY <1>2, <2>1, <2>3, <2>4, <2>5 DEF WindowInv, Window, FPUWindow, Outside, sigVars
  <2>7. HostRestored'
    BY <1>3, <2>3, <2>5 DEF HostRestored, Window, FPUWindow
  <2> QED BY <2>2, <2>6, <2>7
<1>6. CASE SigSetJmp(t)
  <2>1. Continue(t, "native") /\ pc[t] = "sigsetjmp" /\ gRecoveryTarget' = t
        /\ UNCHANGED <<gSavedHandlers, gUsesFPU, gNativeFPU, hwFPU>>
    BY <1>6 DEF SigSetJmp, fpuVars
  <2>2. MutualExclusion' /\ IterationBound'
    BY <1>1, <2>1, ContinueMoves, BodyControl DEF Body, Stages, Outside
  <2>3. pc'[t] = "native" /\ \A u \in Threads \ {t} : pc'[u] = pc[u]
    BY <1>3, <2>1 DEF Continue
  <2>4. WindowInv'
    BY <1>2, <2>1, <2>3 DEF SafetyInv, WindowInv, Window, FPUWindow, Outside
  <2>5. HostRestored'
    BY <1>3, <2>1, <2>3 DEF HostRestored, Window, FPUWindow
  <2> QED BY <2>2, <2>4, <2>5
<1>7. CASE ExecuteNative(t) \/ ExecuteNativeAVX(t)
  <2>1. pc[t] = "native" /\ UNCHANGED <<gSavedHandlers, gUsesFPU, gNativeFPU>>
    BY <1>7 DEF ExecuteNative, ExecuteNativeAVX, fpuVars
  <2>2. gRecoveryTarget = t /\ gSavedHandlers = "host"
        /\ IF gUsesFPU THEN gNativeFPU = HostFPU[t] ELSE hwFPU[t] = HostFPU[t]
    BY <2>1 DEF SafetyInv, WindowInv, Window, FPUWindow
  <2>3. Continue(t, "storefpu")
    <3>1. CASE ExecuteNative(t)
      BY <2>2, <3>1 DEF ExecuteNative
    <3>2. CASE ExecuteNativeAVX(t)
      BY <3>2 DEF ExecuteNativeAVX
    <3> QED BY <1>7, <3>1, <3>2
  <2>4. hwFPU' = hwFPU \/ (gUsesFPU /\ \E fpu : hwFPU' = [hwFPU EXCEPT ![t] = fpu])
    <3>1. CASE ExecuteNative(t)
      BY <3>1 DEF ExecuteNative
    <3>2. CASE ExecuteNativeAVX(t)
      BY <3>2 DEF ExecuteNativeAVX, fpuVars
    <3> QED BY <1>7, <3>1, <3>2
  <2>5. MutualExclusion' /\ IterationBound'
    BY <1>1, <2>3, ContinueMoves, BodyControl DEF Body, Stages, Outside
  <2>6. pc'[t] = "storefpu" /\ \A u \in Threads \ {t} : pc'[u] = pc[u]
    BY <1>3, <2>3 DEF Continue
  <2>7. (~gUsesFPU => hwFPU' = hwFPU) /\ \A u \in Threads \ {t} : hwFPU'[u] = hwFPU[u]
    BY <1>3, <2>4
  <2>8. WindowInv'
    BY <1>2, <2>1, <2>2, <2>6, <2>7 DEF WindowInv, Window, FPUWindow, Outside
  <2>9. HostRestored'
    BY <1>3, <2>6, <2>7 DEF HostRestored, Window, FPUWindow
  <2> QED BY <2>5, <2>8, <2>9
<1>8. CASE StoreFPU(t)
  <2>1. Continue(t, "restore") /\ pc[t] = "storefpu" /\ UNCHANGED sigVars
    BY <1>8 DEF StoreFPU
  <2>2. MutualExclusion' /\ IterationBound'
    BY <1>1, <2>1, ContinueMoves, BodyControl DEF Body, Stages, Outside
  <2>3. pc'[t] = "restore" /\ \A u \in Threads \ {t} : pc'[u] = pc[u]
    BY <1>3, <2>1 DEF Continue
  <2>4. gSavedHandlers = "host"
        /\ IF gUsesFPU THEN gNativeFPU = HostFPU[t] ELSE hwFPU[t] = HostFPU[t]
    BY <2>1 DEF SafetyInv, WindowInv, Window, FPUWindow
  <2>5. hwFPU'[t] = HostFPU[t] /\ \A u \in Threads \ {t} : hwFPU'[u] = hwFPU[u]
    BY <1>3, <1>8, <2>4 DEF StoreFPU
  <2>6. WindowInv'
    BY <1>2, <2>1, <2>3, <2>4 DEF WindowInv, Window, FPUWindow, Outside, sigVars
  <2>7. HostRestored'
    BY <1>3, <2>3, <2>5 DEF HostRestored, Window
  <2> QED BY <2>2, <2>6, <2>7
<1>9. CASE RestoreHandlers(t)
  <2>1. pc[t] = "restore" /\ handlers' = gSavedHandlers
        /\ UNCHANGED <<hwFPU, gUsesFPU, gNativeFPU>>
    BY <1>9 DEF RestoreHandlers, RestoredHandlers, fpuVars
  <2>2. \/ Continue(t, "writemem") \/ Leave(t, "kErrorFault")
        \/ Leave(t, "kErrorFloatingPointException") \/ Leave(t, "kErrorExecute")
    BY <1>9 DEF RestoreHandlers
  <2>3. MutualExclusion' /\ IterationBound'
    BY <1>1, <2>2, ContinueMoves, BodyControl DEF Body, Stages, Statuses, Outside
  <2>4. pc'[t] \in {"writemem", "ret"} /\ \A u \in Threads \ {t} : pc'[u] = pc[u]
    BY <1>3, <2>2 DEF Continue, Leave
  <2>5. gSavedHandlers = "host" /\ hwFPU[t] = HostFPU[t]
    BY <2>1 DEF SafetyInv, WindowInv, HostRestored, Window, FPUWindow
  <2>6. WindowInv'
    BY <1>2, <2>4 DEF WindowInv, Window, FPUWindow, Outside
  <2>7. HostRestored'
    BY <1>3, <2>1, <2>5 DEF HostRestored
  <2> QED BY <2>3, <2>6, <2>7
<1> QED BY <1>4, <1>5, <1>6, <1>7, <1>8, <1>9

(* Calling, locking, starting an iteration, finishing one and returning. *)
LEMMA ControlActions ==
    ASSUME SafetyInv, NEW t \in Threads,
           \/ InitExecutor(t) \/ Call(t) \/ Lock(t) \/ Finish(t) \/ Begin(t)
           \/ WriteRegisters(t) \/ Return(t)
    PROVE  MutualExclusion' /\ IterationBound' /\ WindowInv' /\ HostRestored'
<1>1. /\ pc \in [Threads -> Stages] /\ call \in [Threads -> Call_] /\ t # NoThread
      /\ \A u \in Threads : call[u].num \in Nat /\ call[u].max \in Nat
  BY BoundAssumption, ThreadAssumption DEF SafetyInv, TypeOK, CallsType, Call_
<1>2. CASE InitExecutor(t)
  <2>1. UNCHANGED <<pc, call, gExecutorLock, gUsesFPU, gNativeFPU, hwFPU, sigVars>>
    BY <1>2 DEF InitExecutor, callVars, fpuVars
  <2>2. MutualExclusion'
    BY <2>1 DEF SafetyInv, MutualExclusion
  <2>3. IterationBound'
    BY <2>1 DEF SafetyInv, IterationBound
  <2>4. WindowInv' /\ HostRestored'
    BY <2>1 DEF SafetyInv, WindowInv, HostRestored, sigVars
  <2> QED BY <2>2, <2>3, <2>4
<1>3. CASE Call(t)
  <2>1. PICK n \in 0 .. MaxExecutions :
               \E e : /\ call' = [call EXCEPT ![t] = [ex |-> e, max |-> n, num |-> 0,
                                             next |-> Zero, status |-> "kGood"]]
                      /\ pc' = [pc EXCEPT ![t] = IF n = 0 THEN "ret" ELSE "lock"]
    BY <1>3 DEF Call
  <2>2. pc[t] = "idle" /\ UNCHANGED <<gExecutorLock, sigVars, fpuVars>>
    BY <1>3 DEF Call
  <2>3. MutualExclusion'
    BY <1>1, <2>1, <2>2 DEF SafetyInv, MutualExclusion, Outside
  <2>4. IterationBound'
    <3>1. call'[t].num = 0 /\ call'[t].max = n /\ pc'[t] = IF n = 0 THEN "ret" ELSE "lock"
      BY <1>1, <2>1
    <3>2. \A u \in Threads \ {t} : call'[u] = call[u] /\ pc'[u] = pc[u]
      BY <1>1, <2>1
    <3> QED BY <3>1, <3>2, BoundAssumption DEF SafetyInv, IterationBound, Outside
  <2>5. WindowInv' /\ HostRestored'
    <3>1. \E stage \in Stages \ Window : pc' = [pc EXCEPT ![t] = stage]
      BY <2>1 DEF Stages, Window
    <3> QED BY <2>2, <3>1, QuietStep DEF fpuVars, Window
  <2> QED BY <2>3, <2>4, <2>5
<1>4. CASE Lock(t)
  <2>1. pc[t] = "lock" /\ gExecutorLock = NoThread /\ UNCHANGED <<sigVars, fpuVars>>
    BY <1>4 DEF Lock, LockIsFree
  <2>2. \/ /\ pc' = [pc EXCEPT ![t] = "loop"] /\ gExecutorLock' = t /\ call' = call
        \/ Leave(t, "kErrorNotInitialized")
    BY <1>4 DEF Lock
  <2>3. call[t].num <= call[t].max
    BY <2>1 DEF SafetyInv, IterationBound
  <2>4. MutualExclusion'
    BY <1>1, <2>1, <2>2, ThreadAssumption DEF SafetyInv, MutualExclusion, Outside, Leave
  <2>5. IterationBound'
    <3>1. CASE pc' = [pc EXCEPT ![t] = "loop"] /\ call' = call
      BY <1>1, <2>3, <3>1 DEF SafetyInv, IterationBound, Outside
    <3>2. CASE Leave(t, "kErrorNotInitialized")
      <4>1. pc'[t] = "ret" /\ call'[t].status = "kErrorNotInitialized"
        BY <1>1, <3>2 DEF Leave, Call_
      <4>2. \A u \in Threads \ {t} : call'[u] = call[u] /\ pc'[u] = pc[u]
        BY <1>1, <3>2 DEF Leave
      <4> QED BY <4>1, <4>2 DEF SafetyInv, IterationBound, Outside
    <3> QED BY <2>2, <3>1, <3>2
  <2>6. WindowInv' /\ HostRestored'
    <3>1. \E stage \in Stages \ Window : pc' = [pc EXCEPT ![t] = stage]
      BY <2>2 DEF Stages, Window, Leave
    <3> QED BY <2>1, <3>1, QuietStep DEF fpuVars, Window
  <2> QED BY <2>4, <2>5, <2>6
<1>5. CASE Finish(t)
  <2>1. pc[t] = "loop" /\ ~(call[t].num < call[t].max) /\ UNCHANGED <<sigVars, fpuVars>>
        /\ Leave(t, "kGood")
    BY <1>5 DEF Finish, MoreToExecute
  <2>2. call[t].num = call[t].max
    BY <1>1, <2>1 DEF SafetyInv, IterationBound
  <2>3. gExecutorLock = t /\ \A u \in Threads \ {t} : pc[u] \in Outside
    BY <2>1, Alone DEF Outside
  <2>4. MutualExclusion'
    BY <1>1, <2>1, <2>3, ThreadAssumption DEF MutualExclusion, Outside, Leave
  <2>5. IterationBound'
    <3>1. pc'[t] = "ret" /\ call'[t].num = call'[t].max
      BY <1>1, <2>1, <2>2 DEF Leave, Call_
    <3>2. \A u \in Threads \ {t} : call'[u] = call[u] /\ pc'[u] = pc[u]
      BY <1>1, <2>1 DEF Leave
    <3> QED BY <3>1, <3>2 DEF SafetyInv, IterationBound, Outside
  <2>6. WindowInv' /\ HostRestored'
    <3>1. \E stage \in Stages \ Window : pc' = [pc EXCEPT ![t] = stage]
      BY <2>1 DEF Stages, Window, Leave
    <3> QED BY <2>1, <3>1, QuietStep DEF fpuVars, Window
  <2> QED BY <2>4, <2>5, <2>6
<1>6. CASE Begin(t)
  <2>1. pc[t] = "loop" /\ call[t].num < call[t].max /\ Continue(t, "readpc")
        /\ UNCHANGED <<sigVars, gNativeFPU, hwFPU>>
    BY <1>6 DEF Begin, MoreToExecute
  <2>2. MutualExclusion'
    BY <1>1, <2>1 DEF SafetyInv, MutualExclusion, Outside, Continue
  <2>3. IterationBound'
    BY <1>1, <2>1 DEF SafetyInv, IterationBound, Outside, Continue
  <2>4. WindowInv' /\ HostRestored'
    <3>1. \E stage \in Stages \ Window : pc' = [pc EXCEPT ![t] = stage]
      BY <2>1 DEF Stages, Window, Continue
    <3> QED BY <2>1, <3>1, QuietStep DEF Window, Outside
  <2> QED BY <2>2, <2>3, <2>4
<1>7. CASE WriteRegisters(t)
  <2>1. pc[t] = "writeregs" /\ UNCHANGED <<sigVars, fpuVars>>
    BY <1>7 DEF WriteRegisters
  <2>2. CASE Leave(t, "kErrorWriteReg")
    BY <2>1, <2>2, QuietBody DEF fpuVars, Body, Stages, Statuses, Window, Outside
  <2>3. CASE /\ pc' = [pc EXCEPT ![t] = "loop"]
             /\ call' = [call EXCEPT ![t].num = @ + 1] /\ UNCHANGED gExecutorLock
    <3>1. call[t].num < call[t].max /\ gExecutorLock = t
      BY <2>1 DEF SafetyInv, IterationBound, MutualExclusion, Outside
    <3>2. MutualExclusion'
      BY <1>1, <2>1, <2>3, <3>1 DEF SafetyInv, MutualExclusion, Outside
    <3>3. call'[t].num = call[t].num + 1 /\ call'[t].max = call[t].max /\ pc'[t] = "loop"
      BY <1>1, <2>3 DEF Call_
    <3>4. \A u \in Threads \ {t} : call'[u] = call[u] /\ pc'[u] = pc[u]
      BY <1>1, <2>3
    <3>5. IterationBound'
      BY <1>1, <3>1, <3>3, <3>4 DEF SafetyInv, IterationBound, Outside
    <3>6. WindowInv' /\ HostRestored'
      BY <2>1, <2>3, QuietStep DEF fpuVars, Stages, Window
    <3> QED BY <3>2, <3>5, <3>6
  <2> QED BY <1>7, <2>2, <2>3 DEF WriteRegisters
<1>8. CASE Return(t)
  <2>1. /\ pc[t] = "ret" /\ pc' = [pc EXCEPT ![t] = "idle"]
        /\ UNCHANGED <<call, gExecutorLock, sigVars, fpuVars>>
    BY <1>8 DEF Return
  <2>2. MutualExclusion'
    BY <1>1, <2>1 DEF SafetyInv, MutualExclusion, Outside
  <2>3. IterationBound'
    BY <1>1, <2>1 DEF SafetyInv, IterationBound, Outside
  <2>4. WindowInv' /\ HostRestored'
    BY <2>1, QuietStep DEF fpuVars, Stages, Window
  <2> QED BY <2>2, <2>3, <2>4
<1> QED BY <1>2, <1>3, <1>4, <1>5, <1>6, <1>7, <1>8

(* At first no thread is inside Execute, and the host has its own state. *)
LEMMA InitSafety == Init => SafetyInv
<1> SUFFICES ASSUME Init PROVE SafetyInv
  OBVIOUS
<1>1. TypeOK
  BY InitType
<1>2. MutualExclusion /\ WindowInv /\ HostRestored
  BY ThreadAssumption
  DEF Init, MutualExclusion, WindowInv, HostRestored, Outside, Window, FPUWindow
<1>3. IterationBound
  BY DEF Init, IterationBound, Outside
<1> QED BY <1>1, <1>2, <1>3 DEF SafetyInv

(* SafetyInv is inductive: the steps of one thread keep it, and Done changes *)
(* nothing.                                                                  *)
LEMMA NextSafety == SafetyInv /\ [Next]_vars => SafetyInv'
<1>1. ASSUME SafetyInv, [Next]_vars PROVE TypeOK'
  BY <1>1, NextType DEF SafetyInv
<1>2. ASSUME SafetyInv, NEW t \in Threads, InitExecutor(t) \/ Call(t) \/ Progress(t)
      PROVE  MutualExclusion' /\ IterationBound' /\ WindowInv' /\ HostRestored'
  BY <1>2, QuietActions, WindowActions, ControlActions DEF Progress
<1>3. ASSUME SafetyInv, UNCHANGED vars
      PROVE  MutualExclusion' /\ IterationBound' /\ WindowInv' /\ HostRestored'
  BY <1>3 DEF SafetyInv, MutualExclusion, IterationBound, WindowInv, HostRestored,
              vars, callVars, fpuVars, sigVars
<1> QED BY <1>1, <1>2, <1>3 DEF SafetyInv, Next, Done

(* The inductive invariant behind the theorems below: the types, the owner of *)
(* gExecutorLock, where the handlers and the FPU images of the host are while *)
(* the JITed instruction runs, and the bound of the loop of Execute.          *)
THEOREM SafetyInvariant == Spec => []SafetyInv
<1> QED BY InitSafety, NextSafety, PTL DEF Spec

(* However many threads call Execute, and wherever their calls fail, one    *)
(* thread at a time uses the globals, and no return keeps the lock.         *)
THEOREM OneOwner == Spec => []MutualExclusion
<1>1. SafetyInv => MutualExclusion
  BY DEF SafetyInv
<1> QED BY <1>1, SafetyInvariant, PTL

(* Execute always gives back the host's signal handlers and FPU state. *)
THEOREM HostSafe == Spec => []HostRestored
<1>1. SafetyInv => HostRestored
  BY DEF SafetyInv
<1> QED BY <1>1, SafetyInvariant, PTL

(* Execute(n) runs at most n instructions, and exactly n when it says kGood. *)
THEOREM Bounded == Spec => []IterationBound
<1>1. SafetyInv => IterationBound
  BY DEF SafetyInv
<1> QED BY <1>1, SafetyInvariant, PTL
=============================================================================
