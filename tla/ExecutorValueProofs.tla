-------------------------- MODULE ExecutorValueProofs --------------------------
(***************************************************************************)
(* Proofs that an instruction which retires has the effect it has on a     *)
(* processor, for any instructions that ExecuteNative exchanges the        *)
(* registers of, any threads and any clients.                              *)
(***************************************************************************)
EXTENDS ExecutorValues, ExecutorProofs

(* What the assumptions say of one instruction. *)
LEMMA InstrFacts ==
    ASSUME NEW i \in Instrs
    PROVE  /\ Needed(i) \subseteq Regs /\ Operands(i) \subseteq Needed(i)
           /\ Elems(i.wr) \subseteq Operands(i) /\ Elems(i.addr) \subseteq Needed(i)
           /\ i.fread \subseteq Flags /\ i.fwrite \subseteq Flags
           /\ i.inc \subseteq Needed(i) \ {FL, IP}
           /\ FL \in Needed(i) => i.rflags
           /\ ~i.rflags => FlagsIn(i) = {} /\ i.fwrite = {}
           /\ i.inc # {} => i.kind = "emulated"
           /\ i.rep => CountReg \in Stores(i)
           /\ i.kind = "nop" => Elems(i.wr) = {} /\ i.fwrite = {} /\ ~UsesFPU(i) /\ i.inc = {}
           /\ i.kind = "native" => IP \notin Elems(i.wr)
           /\ i.kind = "emulated" => ~UsesFPU(i)
           /\ Stored(i) \subseteq Addressed(i) /\ Stored(i) # Slots
           /\ \A s \in Slots : s \in Stored(i) <=> s \in Addressed(i) /\ i.mem[s].written
           /\ Written(i, [r \in Regs |-> Zero]) \subseteq Needed(i) \ {FL, IP}
           /\ i.kind \in Kinds
<1>1. i \in Instr
  BY InstrAssumption
<1>2. /\ i.addr \in Seq(Regs) /\ i.rd \in Seq(Regs) /\ i.wr \in Seq(Regs)
      /\ i.fread \subseteq Flags /\ i.fwrite \subseteq Flags /\ i.kind \in Kinds
      /\ i.rflags \in BOOLEAN /\ i.may \in BOOLEAN /\ i.mem \in [Slots -> Memop]
  BY <1>1 DEF Instr
<1>3. Elems(i.addr) \subseteq Regs /\ Elems(i.rd) \subseteq Regs /\ Elems(i.wr) \subseteq Regs
  BY <1>2 DEF Elems
<1>4. /\ FL \in Needed(i) => i.rflags
      /\ ~i.rflags => i.fread \cup i.fwrite = {}
      /\ i.inc \subseteq Elems(i.addr) \ {FL, IP}
      /\ i.inc # {} => i.kind = "emulated"
      /\ i.rep => CountReg \in Needed(i)
      /\ i.kind = "nop" => Elems(i.wr) = {} /\ i.fwrite = {} /\ ~UsesFPU(i)
      /\ i.kind = "native" => IP \notin Elems(i.wr)
      /\ i.kind = "emulated" => ~UsesFPU(i)
      /\ Stored(i) # Slots
  BY InstrAssumption
<1>5. Needed(i) \subseteq Regs /\ Operands(i) \subseteq Needed(i)
      /\ Elems(i.wr) \subseteq Operands(i) /\ Elems(i.addr) \subseteq Needed(i)
  BY <1>3 DEF Needed, Operands
<1>6. ~i.rflags => FlagsIn(i) = {}
  BY <1>4 DEF FlagsIn
<1>7. i.rep => CountReg \in Stores(i)
  BY <1>4, RegAssumption DEF Stores
<1>8. Stored(i) \subseteq Addressed(i)
      /\ \A s \in Slots : s \in Stored(i) <=> s \in Addressed(i) /\ i.mem[s].written
  BY DEF Stored, Addressed
<1>9. i.kind = "nop" => i.inc = {}
  BY <1>4
<1>10. Written(i, [r \in Regs |-> Zero]) \subseteq Needed(i) \ {FL, IP}
  BY <1>4, <1>5 DEF Written
<1> QED BY <1>2, <1>4, <1>5, <1>6, <1>7, <1>8, <1>9, <1>10

(* The registers an instruction writes are among those it asks for. *)
LEMMA WrittenNeeded ==
    ASSUME NEW i \in Instrs, NEW reg
    PROVE  Written(i, reg) \subseteq Needed(i) \ {FL, IP}
BY InstrFacts DEF Written

(* An instruction that is given its operands has its effect, whatever else  *)
(* it finds in the registers, the flags, the operand slots and the FPU.     *)
LEMMA EffectOfOperands ==
    ASSUME NEW i \in Instrs, NEW p \in State,
           NEW reg, NEW flag, NEW slot, NEW adr, NEW fpu,
           \A r \in Operands(i) \ (MMXRegs \cup {FL, IP}) : reg[r] = p.reg[r],
           \A f \in FlagsIn(i) : flag[f] = p.flag[f],
           \A s \in Loaded(i) : slot[s] = p.mem[Address(i, s, p.reg)],
           \A s \in Addressed(i) : adr[s] = Address(i, s, p.reg),
           UsesFPU(i) => fpu = MergeMMX(i, p.fpu, p.reg)
    PROVE  Effect(i, [reg |-> reg, flag |-> flag, slot |-> slot, adr |-> adr, fpu |-> fpu,
                      pc |-> p.reg[IP]]) = ISAEffect(i, p)
<1> DEFINE padr == [k \in Slots |-> Address(i, k, p.reg)]
           pslot == [k \in Slots |-> p.mem[padr[k]]]
           R(x) == [r \in Regs |-> IF r \in Operands(i) \ (MMXRegs \cup {FL, IP})
                                   THEN x[r] ELSE Zero]
           F(x) == [f \in Flags |-> IF f \in FlagsIn(i) THEN x[f] ELSE 0]
           S(x) == [s \in Slots |-> IF s \in Loaded(i) THEN x[s] ELSE Zero]
           A(x) == [s \in Slots |-> IF s \in Addressed(i) THEN x[s] ELSE Zero]
           U(x) == IF UsesFPU(i) THEN x ELSE NoFPU
<1>1. R(reg) = R(p.reg)
  OBVIOUS
<1>2. F(flag) = F(p.flag)
  OBVIOUS
<1>3. S(slot) = S(pslot)
  OBVIOUS
<1>4. A(adr) = A(padr)
  OBVIOUS
<1>5. U(fpu) = U(MergeMMX(i, p.fpu, p.reg))
  OBVIOUS
<1>6. Effect(i, [reg |-> reg, flag |-> flag, slot |-> slot, adr |-> adr, fpu |-> fpu,
                 pc |-> p.reg[IP]])
      = Sem(i, [reg |-> R(reg), flag |-> F(flag), slot |-> S(slot), adr |-> A(adr),
                fpu |-> U(fpu), pc |-> p.reg[IP]])
  BY DEF Effect
<1>7. ISAEffect(i, p)
      = Sem(i, [reg |-> R(p.reg), flag |-> F(p.flag), slot |-> S(pslot), adr |-> A(padr),
                fpu |-> U(MergeMMX(i, p.fpu, p.reg)), pc |-> p.reg[IP]])
  BY DEF ISAEffect, Effect
<1> HIDE DEF R, F, S, A, U
<1> QED BY <1>1, <1>2, <1>3, <1>4, <1>5, <1>6, <1>7

(* The reference computes the effect of a state's operands. *)
LEMMA ISAEffectType ==
    ASSUME NEW i \in Instrs, NEW p \in State
    PROVE  ISAEffect(i, p) \in Outputs
<1> DEFINE adr == [k \in Slots |-> Address(i, k, p.reg)]
           slot == [k \in Slots |-> p.mem[adr[k]]]
<1>1. p.reg \in [Regs -> Val] /\ p.flag \in [Flags -> Bit] /\ p.mem \in [Val -> Val]
      /\ p.fpu \in FPU
  BY DEF State
<1>2. adr \in [Slots -> Val]
  BY <1>1, SemAssumption
<1>3. slot \in [Slots -> Val]
  BY <1>1, <1>2
<1>4. MergeMMX(i, p.fpu, p.reg) \in FPU
  <2>1. [m \in MMXRegs |-> IF m \in Needed(i) THEN p.reg[m] ELSE p.fpu.mm[m]]
        \in [MMXRegs -> Val]
    BY <1>1, RegAssumption DEF FPU
  <2> QED BY <1>1, <2>1 DEF MergeMMX, FPU
<1>5. p.reg[IP] \in Val
  BY <1>1, RegAssumption
<1>6. ISAEffect(i, p) = Effect(i, [reg |-> p.reg, flag |-> p.flag, slot |-> slot, adr |-> adr,
                                   fpu |-> MergeMMX(i, p.fpu, p.reg), pc |-> p.reg[IP]])
  BY DEF ISAEffect
<1> HIDE DEF adr, slot
<1> QED BY <1>1, <1>2, <1>3, <1>4, <1>5, <1>6, EffectType

(* The reference, field by field, of an instruction that is not skipped. *)
LEMMA ISAFields ==
    ASSUME NEW i \in Instrs, NEW p \in State, i.kind # "nop"
    PROVE  /\ ISAEffect(i, p) \in Outputs /\ ISA(i, p) \in State
           /\ ISA(i, p).reg[IP] = IF i.kind = "emulated" THEN ISAEffect(i, p).pc
                                                        ELSE Fall(p.reg[IP])
           /\ \A r \in Written(i, p.reg) :
                ISA(i, p).reg[r] = IF r \in MMXRegs THEN ISAEffect(i, p).fpu.mm[r]
                                                    ELSE ISAEffect(i, p).reg[r]
           /\ \A r \in Regs \ (Written(i, p.reg) \cup {IP}) : ISA(i, p).reg[r] = p.reg[r]
           /\ \A f \in i.fwrite : ISA(i, p).flag[f] = ISAEffect(i, p).flag[f]
           /\ \A f \in Flags \ i.fwrite : ISA(i, p).flag[f] = p.flag[f]
           /\ ISA(i, p).mem =
                [a \in Val |->
                   IF \E k \in Stored(i) : a = Address(i, k, p.reg)
                   THEN ISAEffect(i, p).slot[CHOOSE k \in Stored(i) : a = Address(i, k, p.reg)]
                   ELSE p.mem[a]]
           /\ ISA(i, p).fpu = IF UsesFPU(i) THEN ISAEffect(i, p).fpu ELSE p.fpu
<1> DEFINE out == ISAEffect(i, p)
           new == ISA(i, p)
<1>1. /\ p.reg \in [Regs -> Val] /\ p.flag \in [Flags -> Bit] /\ p.mem \in [Val -> Val]
      /\ p.fpu \in FPU
  BY DEF State
<1>2. out \in Outputs
  BY ISAEffectType
<1> HIDE DEF out
<1>3. /\ out.reg \in [Regs -> Val] /\ out.flag \in [Flags -> Bit]
      /\ out.slot \in [Slots -> Val] /\ out.fpu \in FPU /\ out.pc \in Val
      /\ out.fpu.mm \in [MMXRegs -> Val]
  BY <1>2 DEF Outputs, FPU
<1>4. /\ Written(i, p.reg) \subseteq Regs \ {FL, IP} /\ i.fwrite \subseteq Flags
      /\ Stored(i) \subseteq Slots /\ IP \in Regs
      /\ Fall(p.reg[IP]) \in Val
  BY <1>1, WrittenNeeded, InstrFacts, RegAssumption, SemAssumption DEF Stored
<1> DEFINE reg == [r \in Regs |->
                     IF r = IP
                     THEN IF i.kind = "emulated" THEN out.pc ELSE Fall(p.reg[IP])
                     ELSE IF r \notin Written(i, p.reg) THEN p.reg[r]
                     ELSE IF r \in MMXRegs THEN out.fpu.mm[r] ELSE out.reg[r]]
           flag == [f \in Flags |-> IF f \in i.fwrite THEN out.flag[f] ELSE p.flag[f]]
           mem == [a \in Val |->
                     IF \E k \in Stored(i) : a = Address(i, k, p.reg)
                     THEN out.slot[CHOOSE k \in Stored(i) : a = Address(i, k, p.reg)]
                     ELSE p.mem[a]]
           fpu == IF UsesFPU(i) THEN out.fpu ELSE p.fpu
<1>5. new = [reg |-> reg, flag |-> flag, mem |-> mem, fpu |-> fpu]
  BY DEF ISA, out
<1> HIDE DEF new
<1>6. reg \in [Regs -> Val]
  BY <1>1, <1>3, <1>4
<1>7. flag \in [Flags -> Bit]
  BY <1>1, <1>3, <1>4
<1>8. mem \in [Val -> Val]
  <2>1. \A a \in Val : (\E k \in Stored(i) : a = Address(i, k, p.reg)) =>
           (CHOOSE k \in Stored(i) : a = Address(i, k, p.reg)) \in Slots
    BY <1>4
  <2> QED BY <1>1, <1>3, <2>1
<1>9. fpu \in FPU
  BY <1>1, <1>3
<1>10. new \in State
  <2> HIDE DEF reg, flag, mem, fpu
  <2> QED BY <1>5, <1>6, <1>7, <1>8, <1>9 DEF State
<1>11. /\ reg[IP] = IF i.kind = "emulated" THEN out.pc ELSE Fall(p.reg[IP])
       /\ \A r \in Written(i, p.reg) :
            reg[r] = IF r \in MMXRegs THEN out.fpu.mm[r] ELSE out.reg[r]
       /\ \A r \in Regs \ (Written(i, p.reg) \cup {IP}) : reg[r] = p.reg[r]
  BY <1>4
<1>12. /\ \A f \in i.fwrite : flag[f] = out.flag[f]
       /\ \A f \in Flags \ i.fwrite : flag[f] = p.flag[f]
  BY <1>4
<1>13. new.reg = reg /\ new.flag = flag /\ new.mem = mem /\ new.fpu = fpu
  <2> HIDE DEF reg, flag, mem, fpu
  <2> QED BY <1>5
<1> QED BY <1>2, <1>10, <1>11, <1>12, <1>13 DEF out, new

(* And of one that is: only the PC moves on. *)
LEMMA ISANop ==
    ASSUME NEW i \in Instrs, NEW p \in State, i.kind = "nop"
    PROVE  ISA(i, p) = [p EXCEPT !.reg = [p.reg EXCEPT ![IP] = Fall(p.reg[IP])]]
           /\ ISA(i, p) \in State /\ ISA(i, p).flag = p.flag /\ ISA(i, p).mem = p.mem
           /\ ISA(i, p).fpu = p.fpu /\ ISA(i, p).reg[IP] = Fall(p.reg[IP])
           /\ Written(i, p.reg) = {}
<1>1. ISA(i, p) = [p EXCEPT !.reg = [p.reg EXCEPT ![IP] = Fall(p.reg[IP])]]
  BY DEF ISA
<1>2. p.reg \in [Regs -> Val] /\ IP \in Regs /\ Fall(p.reg[IP]) \in Val
  BY RegAssumption, SemAssumption DEF State
<1>3. [p.reg EXCEPT ![IP] = Fall(p.reg[IP])] \in [Regs -> Val]
  BY <1>2
<1>4. Written(i, p.reg) = {}
  BY InstrFacts DEF Written
<1> QED BY <1>1, <1>2, <1>3, <1>4 DEF State

------------------------------------------------------------------------------
(* How a stage moves its thread. *)
LEMMA Goes ==
    ASSUME TypeOK, NEW t \in Threads, NEW stage, Continue(t, stage)
    PROVE  /\ pc'[t] = stage /\ call' = call
           /\ \A u \in Threads \ {t} : pc'[u] = pc[u]
BY DEF Continue, TypeOK, CallsType

LEMMA Leaves ==
    ASSUME TypeOK, NEW t \in Threads, NEW status, Leave(t, status)
    PROVE  /\ pc'[t] = "ret" /\ call'[t].status = status /\ call'[t].ex = call[t].ex
           /\ \A u \in Threads \ {t} : pc'[u] = pc[u] /\ call'[u] = call[u]
BY DEF Leave, TypeOK, CallsType, Call_

(* Nothing is claimed of a thread that is not in the loop. *)
LEMMA OutsideInv ==
    ASSUME NEW t, pc[t] \in Outside, pc[t] = "lock" => call[t].num = 0
    PROVE  StageInv(t)
BY DEF StageInv, ClientInv, SetsInv, KindInv, OperandsInv, AliasInv, ResultsInv, Outside,
       Untouched, BeforeRegs, BeforeRun, BeforeNative, AfterNative, Encoded,
       OperandsRead

LEMMA OutsideNext ==
    ASSUME NEW t, pc'[t] \in Outside, pc'[t] = "lock" => call'[t].num = 0
    PROVE  StageInv(t)'
BY DEF StageInv, ClientInv, SetsInv, KindInv, OperandsInv, AliasInv, ResultsInv, Outside,
       Untouched, BeforeRegs, BeforeRun, BeforeNative, AfterNative, Encoded,
       OperandsRead

(* A thread that stays outside the loop while another one takes a step. *)
LEMMA StaysOutside ==
    ASSUME ValueInv, NEW u \in Threads, pc[u] \in Outside, pc'[u] = pc[u],
           call'[u].num = call[u].num
    PROVE  StageInv(u)'
<1>1. pc[u] = "lock" => call[u].num = 0
  BY DEF ValueInv, StageInv, ClientInv
<1> QED BY <1>1, OutsideNext

(* A thread whose call, and whose globals, no one touches. *)
valueVars == <<gXedd, regVars, flagVars, gUsesFPU, gUsesMMX, gFPU, hwFPU, gMemory, gSignal,
               user, pre>>

LEMMA FrameInv ==
    ASSUME NEW u, StageInv(u), pc'[u] = pc[u], call'[u] = call[u], UNCHANGED valueVars
    PROVE  StageInv(u)'
<1> USE DEF valueVars, regVars, flagVars
<1>1. Client(u)' = Client(u) /\ After(u)' = After(u) /\ Out(u)' = Out(u)
  BY DEF Client, After, Out
<1>2. UnaliasedRegs' = UnaliasedRegs /\ WriteBackSlots' = WriteBackSlots
      /\ WriteBackRegs' = WriteBackRegs
  BY DEF UnaliasedRegs, WriteBackSlots, WriteBackRegs
<1>3. ClientInv(u)'
  BY <1>1 DEF StageInv, ClientInv
<1>4. SetsInv(u)'
  BY <1>2 DEF StageInv, SetsInv
<1>5. KindInv(u)'
  BY DEF StageInv, KindInv
<1>6. OperandsInv(u)'
  BY DEF StageInv, OperandsInv, SlotRead
<1>7. AliasInv(u)'
  BY DEF StageInv, AliasInv
<1>8. Results(u)' = Results(u)
  BY <1>1, <1>2 DEF Results
<1>9. ResultsInv(u)'
  BY <1>1, <1>2, <1>8 DEF StageInv, ResultsInv
<1> QED BY <1>3, <1>4, <1>5, <1>6, <1>7, <1>9 DEF StageInv

(* A stage of the loop: the invariant is about its own thread alone. *)
LEMMA OneThread ==
    ASSUME SafetyInv, ValueInv, NEW t \in Threads, pc[t] \notin Outside,
           \A u \in Threads \ {t} : pc'[u] = pc[u] /\ call'[u] = call[u],
           StageInv(t)'
    PROVE  ValueInv'
<1>1. \A u \in Threads \ {t} : pc[u] \in Outside
  BY Alone
<1>2. \A u \in Threads \ {t} : StageInv(u)'
  BY <1>1, StaysOutside
<1> QED BY <1>2 DEF ValueInv

(* It returns an error: the thread is outside again. *)
LEMMA LeavesInv ==
    ASSUME SafetyInv, ValueInv, NEW t \in Threads, pc[t] \notin Outside,
           NEW status, Leave(t, status)
    PROVE  ValueInv'
<1>1. /\ pc'[t] = "ret"
      /\ \A u \in Threads \ {t} : pc'[u] = pc[u] /\ call'[u] = call[u]
  BY Leaves DEF SafetyInv
<1>2. StageInv(t)'
  BY <1>1, OutsideNext DEF Outside
<1> QED BY <1>1, <1>2, OneThread

------------------------------------------------------------------------------
(* The stages before the instruction runs. *)

(* An iteration begins with no register asked for; the one before is over. *)
LEMMA BeginInv ==
    ASSUME SafetyInv, ValueInv, NEW t \in Threads, Begin(t)
    PROVE  ValueInv'
<1>1. pc[t] = "loop" /\ Continue(t, "readpc") /\ TypeOK
  BY DEF Begin, SafetyInv
<1>2. pc'[t] = "readpc" /\ call' = call /\ \A u \in Threads \ {t} : pc'[u] = pc[u]
  BY <1>1, Goes
<1>3. /\ gUsedRegs' = {} /\ gModifiedRegs' = {} /\ gStoreRegs' = {} /\ gStackPtrAlias' = NoReg
      /\ user' = user /\ pre'[t] = Client(t)
  BY <1>1 DEF Begin, TypeOK, ClientsType
<1>4. StageInv(t)'
  BY <1>2, <1>3
  DEF StageInv, ClientInv, SetsInv, KindInv, OperandsInv, AliasInv, ResultsInv, Client,
      Outside, Untouched, BeforeRegs, BeforeRun, BeforeNative, AfterNative, Encoded,
      OperandsRead
<1> QED BY <1>1, <1>2, <1>4, OneThread DEF Outside

(* The PC is the first register to be asked for. *)
LEMMA ReadPCInv ==
    ASSUME SafetyInv, ValueInv, NEW t \in Threads, ReadPC(t)
    PROVE  ValueInv'
<1>1. pc[t] = "readpc" /\ TypeOK /\ StageInv(t) /\ pc[t] \notin Outside
  BY DEF ReadPC, SafetyInv, ValueInv, Outside
<1>2. CASE Leave(t, "kErrorReadReg")
  BY <1>1, <1>2, LeavesInv
<1>3. CASE ReadRegister(t, {IP}, {}) /\ Continue(t, "fetch")
  <2>1. pc'[t] = "fetch" /\ call' = call /\ \A u \in Threads \ {t} : pc'[u] = pc[u]
    BY <1>1, <1>3, Goes
  <2>2. /\ gUsedRegs = {} /\ gModifiedRegs = {} /\ gStoreRegs = {} /\ gStackPtrAlias = NoReg
        /\ Client(t) = pre[t]
    BY <1>1 DEF StageInv, ClientInv, SetsInv, AliasInv, Untouched, BeforeRegs
  <2>3. /\ gUsedRegs' = {IP} /\ gModifiedRegs' = {IP} /\ gStoreRegs' = {IP}
        /\ gRegs'[IP] = pre[t].reg[IP]
    BY <1>3, <2>2, RegAssumption DEF ReadPC, ReadRegister
  <2>4. gStackPtrAlias' = NoReg /\ user' = user /\ pre' = pre
    BY <2>2 DEF ReadPC
  <2>5. StageInv(t)'
    BY <2>1, <2>2, <2>3, <2>4
    DEF StageInv, ClientInv, SetsInv, KindInv, OperandsInv, AliasInv, ResultsInv, Client,
        Outside, Untouched, BeforeRegs, BeforeRun, BeforeNative, AfterNative, Encoded,
        OperandsRead
  <2> QED BY <1>1, <2>1, <2>5, OneThread
<1> QED BY <1>2, <1>3 DEF ReadPC

(* Decoding gives an instruction that can be run, or an error. *)
LEMMA FetchInv ==
    ASSUME SafetyInv, ValueInv, NEW t \in Threads, Fetch(t)
    PROVE  ValueInv'
<1>1. pc[t] = "fetch" /\ TypeOK /\ StageInv(t) /\ pc[t] \notin Outside
  BY DEF Fetch, SafetyInv, ValueInv, Outside
<1>2. CASE \E status : Leave(t, status)
  BY <1>1, <1>2, LeavesInv
<1>3. CASE gXedd'.ok /\ Continue(t, "readflags")
  <2>1. pc'[t] = "readflags" /\ call' = call /\ \A u \in Threads \ {t} : pc'[u] = pc[u]
    BY <1>1, <1>3, Goes
  <2>2. /\ gUsedRegs = {IP} /\ gModifiedRegs = {IP} /\ gStoreRegs = {IP}
        /\ gStackPtrAlias = NoReg /\ Client(t) = pre[t] /\ gRegs[IP] = pre[t].reg[IP]
    BY <1>1 DEF StageInv, ClientInv, SetsInv, AliasInv, OperandsInv, Untouched, BeforeRegs
  <2>3. UNCHANGED <<regVars, user, pre>>
    BY DEF Fetch
  <2>4. StageInv(t)'
    BY <1>3, <2>1, <2>2, <2>3
    DEF StageInv, ClientInv, SetsInv, KindInv, OperandsInv, AliasInv, ResultsInv, Client,
        Outside, Untouched, BeforeRegs, BeforeRun, BeforeNative, AfterNative, Encoded,
        OperandsRead, regVars
  <2> QED BY <1>1, <2>1, <2>4, OneThread
<1> QED BY <1>2, <1>3 DEF Fetch

(* The flags that the instruction reads are the client's. *)
LEMMA ReadFlagsInv ==
    ASSUME SafetyInv, ValueInv, NEW t \in Threads, ReadFlags(t)
    PROVE  ValueInv'
<1>1. pc[t] = "readflags" /\ TypeOK /\ StageInv(t) /\ pc[t] \notin Outside
  BY DEF ReadFlags, SafetyInv, ValueInv, Outside
<1>2. CASE Leave(t, "kErrorReadFlags")
  BY <1>1, <1>2, LeavesInv
<1>3. CASE /\ IF gXedd.rflags
              THEN \E host \in HostFlags :
                     gFlags' = [f \in Flags |-> IF f \in FlagsIn(gXedd)
                                                THEN Client(t).flag[f] ELSE host[f]]
              ELSE UNCHANGED gFlags
           /\ Continue(t, "readregs")
  <2>1. pc'[t] = "readregs" /\ call' = call /\ \A u \in Threads \ {t} : pc'[u] = pc[u]
    BY <1>1, <1>3, Goes
  <2>2. /\ gUsedRegs = {IP} /\ gModifiedRegs = {IP} /\ gStoreRegs = {IP} /\ gXedd.ok
        /\ gStackPtrAlias = NoReg /\ Client(t) = pre[t] /\ gRegs[IP] = pre[t].reg[IP]
    BY <1>1 DEF StageInv, ClientInv, SetsInv, KindInv, AliasInv, OperandsInv, Outside,
                Untouched, BeforeRegs
  <2>3. UNCHANGED <<user, pre, gXedd, gStoreRegs, gRegs, gStackPtrAlias>>
    BY DEF ReadFlags
  <2>4. /\ gUsedRegs' = {IP} \cup UsedFlags(gXedd)
        /\ gModifiedRegs' = {IP} \cup ModifiedFlags(gXedd)
        /\ gWriteBackFlags' = gXedd.fwrite
    BY <2>2 DEF ReadFlags, UsedFlags, ModifiedFlags
  <2>5. \A f \in FlagsIn(gXedd) : gFlags'[f] = pre[t].flag[f]
    <3>1. gXedd \in Instrs
      BY <1>1 DEF TypeOK, CallsType
    <3>2. FlagsIn(gXedd) \subseteq Flags /\ (~gXedd.rflags => FlagsIn(gXedd) = {})
      BY <3>1, InstrFacts DEF FlagsIn
    <3> QED BY <1>3, <2>2, <3>2
  <2>6. StageInv(t)'
    BY <2>1, <2>2, <2>3, <2>4, <2>5
    DEF StageInv, ClientInv, SetsInv, KindInv, OperandsInv, AliasInv, ResultsInv, Client,
        Outside, Untouched, BeforeRegs, BeforeRun, BeforeNative, AfterNative, Encoded,
        OperandsRead
  <2> QED BY <1>1, <2>1, <2>6, OneThread
<1> QED BY <1>2, <1>3 DEF ReadFlags

(* The elements of a concatenation. *)
LEMMA ConcatElems ==
    ASSUME NEW S, NEW x \in Seq(S), NEW y \in Seq(S)
    PROVE  /\ x \o y \in Seq(S) /\ Len(x \o y) = Len(x) + Len(y)
           /\ \A k \in 1 .. Len(x) : (x \o y)[k] = x[k]
           /\ \A k \in 1 .. Len(y) : (x \o y)[Len(x) + k] = y[k]
OBVIOUS

LEMMA ConcatThree ==
    ASSUME NEW S, NEW x \in Seq(S), NEW y \in Seq(S), NEW z \in Seq(S)
    PROVE  /\ Len(x \o y \o z) = Len(x) + Len(y) + Len(z)
           /\ \A k \in 1 .. Len(x) : (x \o y \o z)[k] = x[k]
           /\ \A k \in 1 .. Len(y) : (x \o y \o z)[Len(x) + k] = y[k]
           /\ \A k \in 1 .. Len(z) : (x \o y \o z)[Len(x) + Len(y) + k] = z[k]
<1>1. PICK w \in Seq(S) : w = x \o y
  BY ConcatElems
<1>2. /\ Len(w) = Len(x) + Len(y)
      /\ \A k \in 1 .. Len(x) : w[k] = x[k]
      /\ \A k \in 1 .. Len(y) : w[Len(x) + k] = y[k]
  BY <1>1, ConcatElems
<1>3. /\ Len(w \o z) = Len(w) + Len(z)
      /\ \A k \in 1 .. Len(w) : (w \o z)[k] = w[k]
      /\ \A k \in 1 .. Len(z) : (w \o z)[Len(w) + k] = z[k]
  BY ConcatElems
<1>4. Len(x) \in Nat /\ Len(y) \in Nat /\ Len(z) \in Nat
  OBVIOUS
<1>5. \A k \in 1 .. Len(x) : k \in 1 .. Len(w)
  BY <1>2, <1>4
<1>6. \A k \in 1 .. Len(y) : Len(x) + k \in 1 .. Len(w)
  BY <1>2, <1>4
<1> QED BY <1>1, <1>2, <1>3, <1>5, <1>6

(* The elements of a sequence are what its places hold. *)
LEMMA ElemsOfSeq ==
    ASSUME NEW S, NEW s \in Seq(S)
    PROVE  Elems(s) = {s[k] : k \in 1 .. Len(s)}
<1>1. DOMAIN s = 1 .. Len(s)
  OBVIOUS
<1> QED BY <1>1 DEF Elems

(* ReadRegisters visits every register of the instruction, the written ones *)
(* last.                                                                    *)
LEMMA VisitsElems ==
    ASSUME NEW i \in Instrs
    PROVE  /\ {Visits(i)[k] : k \in 1 .. Len(Visits(i))} = Needed(i)
           /\ {Visits(i)[k] : k \in (Len(i.addr) + Len(i.rd) + 1) .. Len(Visits(i))}
              = Elems(i.wr)
<1> DEFINE a == i.addr
           b == i.rd
           c == i.wr
           v == a \o b \o c
<1>1. a \in Seq(Regs) /\ b \in Seq(Regs) /\ c \in Seq(Regs)
  BY InstrAssumption DEF Instr
<1>2. /\ Elems(a) = {a[k] : k \in 1 .. Len(a)} /\ Elems(b) = {b[k] : k \in 1 .. Len(b)}
      /\ Elems(c) = {c[k] : k \in 1 .. Len(c)}
  <2> HIDE DEF a, b, c
  <2> QED BY <1>1, ElemsOfSeq
<1>3. Len(a) \in Nat /\ Len(b) \in Nat /\ Len(c) \in Nat
  BY <1>1
<1>8. Needed(i) = Elems(a) \cup Elems(b) \cup Elems(c)
  BY DEF Needed
<1>9. Len(i.addr) = Len(a) /\ Len(i.rd) = Len(b) /\ Elems(i.wr) = Elems(c)
  OBVIOUS
<1> HIDE DEF a, b, c
<1>4. /\ Len(v) = Len(a) + Len(b) + Len(c)
      /\ \A k \in 1 .. Len(a) : v[k] = a[k]
      /\ \A k \in 1 .. Len(b) : v[Len(a) + k] = b[k]
      /\ \A k \in 1 .. Len(c) : v[Len(a) + Len(b) + k] = c[k]
  BY <1>1, <1>3, ConcatThree
<1> HIDE DEF v
<1>5. {v[k] : k \in (Len(a) + Len(b) + 1) .. Len(v)} = {c[k] : k \in 1 .. Len(c)}
  <2>1. \A k \in (Len(a) + Len(b) + 1) .. Len(v) :
           \E j \in 1 .. Len(c) : v[k] = c[j]
    <3> TAKE k \in (Len(a) + Len(b) + 1) .. Len(v)
    <3>1. k - (Len(a) + Len(b)) \in 1 .. Len(c)
          /\ k = Len(a) + Len(b) + (k - (Len(a) + Len(b)))
      BY <1>3, <1>4
    <3> QED BY <1>4, <3>1
  <2>2. \A j \in 1 .. Len(c) : \E k \in (Len(a) + Len(b) + 1) .. Len(v) : v[k] = c[j]
    <3> TAKE j \in 1 .. Len(c)
    <3>1. Len(a) + Len(b) + j \in (Len(a) + Len(b) + 1) .. Len(v)
      BY <1>3, <1>4
    <3> QED BY <1>4, <3>1
  <2> DEFINE D == (Len(a) + Len(b) + 1) .. Len(v)
             E == 1 .. Len(c)
  <2> HIDE DEF D, E
  <2>3. (\A k \in D : \E j \in E : v[k] = c[j]) /\ (\A j \in E : \E k \in D : v[k] = c[j])
    BY <2>1, <2>2 DEF D, E
  <2>4. {v[k] : k \in D} = {c[k] : k \in E}
    BY <2>3
  <2> QED BY <2>4 DEF D, E
<1>6. {v[k] : k \in 1 .. Len(v)} = Elems(a) \cup Elems(b) \cup Elems(c)
  <2>1. \A k \in 1 .. Len(v) : v[k] \in Elems(a) \cup Elems(b) \cup Elems(c)
    <3> TAKE k \in 1 .. Len(v)
    <3>1. CASE k <= Len(a)
      BY <1>2, <1>3, <1>4, <3>1
    <3>2. CASE k > Len(a) /\ k <= Len(a) + Len(b)
      <4>1. k - Len(a) \in 1 .. Len(b) /\ k = Len(a) + (k - Len(a))
        BY <1>3, <3>2
      <4>2. v[k] = b[k - Len(a)]
        BY <1>4, <4>1
      <4> QED BY <1>2, <4>1, <4>2
    <3>3. CASE k > Len(a) + Len(b)
      <4>1. k \in (Len(a) + Len(b) + 1) .. Len(v)
        BY <1>3, <1>4, <3>3
      <4> QED BY <1>2, <1>5, <4>1
    <3> QED BY <1>3, <1>4, <3>1, <3>2, <3>3
  <2>2. Elems(a) \subseteq {v[k] : k \in 1 .. Len(v)}
    BY <1>2, <1>3, <1>4
  <2>3. Elems(b) \subseteq {v[k] : k \in 1 .. Len(v)}
    <3>1. \A k \in 1 .. Len(b) : Len(a) + k \in 1 .. Len(v)
      BY <1>3, <1>4
    <3> QED BY <1>2, <1>4, <3>1
  <2>4. Elems(c) \subseteq {v[k] : k \in 1 .. Len(v)}
    <3>1. \A k \in 1 .. Len(c) : Len(a) + Len(b) + k \in 1 .. Len(v)
      BY <1>3, <1>4
    <3> QED BY <1>2, <1>4, <3>1
  <2> QED BY <2>1, <2>2, <2>3, <2>4
<1>7. Visits(i) = v
  BY DEF Visits, v, a, b, c
<1>10. {Visits(i)[k] : k \in 1 .. Len(Visits(i))} = Needed(i)
  BY <1>6, <1>7, <1>8
<1>11. {Visits(i)[k] : k \in (Len(i.addr) + Len(i.rd) + 1) .. Len(Visits(i))} = Elems(i.wr)
  BY <1>2, <1>5, <1>7, <1>9
<1> QED BY <1>10, <1>11

(* Once every register has been visited the storage of each is the client's. *)
LEMMA ReadRegistersInv ==
    ASSUME SafetyInv, ValueInv, NEW t \in Threads, ReadRegisters(t)
    PROVE  ValueInv'
<1>1. pc[t] = "readregs" /\ TypeOK /\ StageInv(t) /\ pc[t] \notin Outside
  BY DEF ReadRegisters, SafetyInv, ValueInv, Outside
<1>2. CASE \E status : Leave(t, status)
  BY <1>1, <1>2, LeavesInv
<1>3. CASE /\ Visit(t, Len(Visits(gXedd)), {})
           /\ call' = [call EXCEPT ![t].next = Fall(gRegs'[IP])]
           /\ pc' = [pc EXCEPT ![t] = IF gXedd.kind = "nop" THEN "writeflags" ELSE "readfpu"]
  <2> DEFINE i == gXedd
             p == pre[t]
  <2>1. i \in Instrs /\ call[t] \in Call_ /\ p \in State /\ call \in [Threads -> Call_]
        /\ pc \in [Threads -> Stages]
    BY <1>1 DEF TypeOK, CallsType, ClientsType
  <2>2. /\ pc'[t] = IF i.kind = "nop" THEN "writeflags" ELSE "readfpu"
        /\ call'[t].next = Fall(gRegs'[IP]) /\ call'[t].ex = call[t].ex
        /\ \A u \in Threads \ {t} : pc'[u] = pc[u] /\ call'[u] = call[u]
    BY <1>3, <2>1 DEF Call_
  <2>3. /\ gUsedRegs = {IP} \cup UsedFlags(i) /\ gStoreRegs = {IP} /\ i.ok
        /\ gModifiedRegs = {IP} \cup ModifiedFlags(i)
        /\ gStackPtrAlias = NoReg /\ Client(t) = p /\ gRegs[IP] = p.reg[IP]
        /\ \A f \in FlagsIn(i) : gFlags[f] = p.flag[f]
        /\ gWriteBackFlags = i.fwrite
    BY <1>1 DEF StageInv, ClientInv, SetsInv, KindInv, AliasInv, OperandsInv, Outside,
                Untouched, BeforeRegs
  <2>4. UNCHANGED <<user, pre, gXedd, flagVars, gStackPtrAlias>>
    BY DEF ReadRegisters
  <2>5. /\ gUsedRegs' = gUsedRegs \cup Needed(i)
        /\ gStoreRegs' = gStoreRegs \cup (Needed(i) \ gUsedRegs)
        /\ gRegs' = [r \in Regs |-> IF r \in Needed(i) \ gUsedRegs THEN p.reg[r] ELSE gRegs[r]]
        /\ gModifiedRegs' = gModifiedRegs \cup Elems(i.wr)
        /\ gUsesMMX' = (Needed(i) \cap MMXRegs # {})
        /\ gUsesFPU' = (i.x87 \/ Needed(i) \cap MMXRegs # {})
    <3>1. /\ {Visits(i)[k] : k \in 1 .. Len(Visits(i))} = Needed(i)
          /\ {Visits(i)[k] : k \in (Len(i.addr) + Len(i.rd) + 1) .. Len(Visits(i))}
             = Elems(i.wr)
      BY <2>1, VisitsElems
    <3> QED BY <1>3, <2>3, <3>1 DEF Visit, ReadRegister
  <2>6. /\ gUsedRegs' = {IP} \cup UsedFlags(i) \cup Needed(i)
        /\ gStoreRegs' = Stores(i)
        /\ gModifiedRegs' = {IP} \cup ModifiedFlags(i) \cup Elems(i.wr)
        /\ \A r \in Stores(i) : gRegs'[r] = p.reg[r]
    <3>1. Needed(i) \subseteq Regs /\ (FL \in Needed(i) => UsedFlags(i) = {FL})
          /\ UsedFlags(i) \subseteq {FL}
      BY <2>1, InstrFacts DEF UsedFlags
    <3>2. gStoreRegs' = Stores(i)
      BY <2>3, <2>5, <3>1, RegAssumption DEF Stores
    <3>3. \A r \in Stores(i) : gRegs'[r] = p.reg[r]
      BY <2>3, <2>5, <3>1, RegAssumption DEF Stores
    <3> QED BY <2>3, <2>5, <3>2, <3>3
  <2>7. gUsesMMX' = UsesMMX(i) /\ gUsesFPU' = UsesFPU(i)
    BY <2>5 DEF UsesMMX, UsesFPU
  <2>8. call'[t].next = Fall(p.reg[IP])
    BY <2>2, <2>6, RegAssumption DEF Stores
  <2>9. CASE i.kind # "nop"
    <3>1. pc'[t] = "readfpu"
      BY <2>2, <2>9
    <3>2. StageInv(t)'
      BY <2>2, <2>3, <2>4, <2>6, <2>7, <2>8, <2>9, <3>1
      DEF StageInv, ClientInv, SetsInv, KindInv, OperandsInv, AliasInv, ResultsInv, Client,
          Outside, Untouched, BeforeRegs, BeforeRun, BeforeNative, AfterNative, Encoded,
          OperandsRead, flagVars
    <3> QED BY <1>1, <2>2, <3>2, OneThread
  <2>10. CASE i.kind = "nop"
    <3>1. pc'[t] = "writeflags"
      BY <2>2, <2>10
    <3>2. /\ i.fwrite = {} /\ i.inc = {} /\ Written(i, p.reg) = {}
          /\ ISA(i, p).mem = p.mem /\ ISA(i, p).fpu = p.fpu
          /\ ISA(i, p).reg[IP] = Fall(p.reg[IP])
      <4>1. i.fwrite = {} /\ i.inc = {}
        BY <2>1, <2>10, InstrFacts
      <4>2. /\ Written(i, p.reg) = {} /\ ISA(i, p).mem = p.mem /\ ISA(i, p).fpu = p.fpu
            /\ ISA(i, p).reg[IP] = Fall(p.reg[IP])
        <5> HIDE DEF i, p
        <5> QED BY <2>1, <2>10, ISANop
      <4> QED BY <4>1, <4>2
    <3>3. Client(t)' = [pre[t] EXCEPT !.mem = After(t).mem, !.fpu = After(t).fpu]'
      <4>1. Client(t)' = p /\ pre'[t] = p /\ After(t)' = ISA(i, p)
        BY <2>2, <2>3, <2>4 DEF Client, After
      <4>2. p = [p EXCEPT !.mem = p.mem, !.fpu = p.fpu]
        BY <2>1 DEF State
      <4> QED BY <3>2, <4>1, <4>2
    <3>4. ClientInv(t)' /\ KindInv(t)'
      BY <2>3, <2>4, <2>10, <3>1, <3>3
      DEF ClientInv, KindInv, Outside, Untouched, BeforeRegs, BeforeRun, BeforeNative,
          AfterNative
    <3>5. SetsInv(t)' /\ OperandsInv(t)' /\ AliasInv(t)'
      BY <2>3, <2>4, <2>6, <2>7, <3>1, <3>2
      DEF SetsInv, OperandsInv, AliasInv, Outside, BeforeRegs, BeforeRun, BeforeNative,
          AfterNative, Encoded, OperandsRead, flagVars
    <3>6. ResultsInv(t)'
      BY <2>4, <2>8, <2>10, <3>1, <3>2 DEF ResultsInv, After, AfterNative
    <3> QED BY <1>1, <2>2, <3>4, <3>5, <3>6, OneThread DEF StageInv
  <2> QED BY <2>9, <2>10
<1> QED BY <1>2, <1>3 DEF ReadRegisters

(* The FXSAVE area is the client's, with the MMX registers it was given     *)
(* apart from it.                                                           *)
LEMMA ReadFPUInv ==
    ASSUME SafetyInv, ValueInv, NEW t \in Threads, ReadFPU(t)
    PROVE  ValueInv'
<1>1. pc[t] = "readfpu" /\ TypeOK /\ StageInv(t) /\ pc[t] \notin Outside
  BY DEF ReadFPU, SafetyInv, ValueInv, Outside
<1>2. CASE Leave(t, "kErrorReadFPU")
  BY <1>1, <1>2, LeavesInv
<1> DEFINE i == gXedd
           p == pre[t]
           fpu == IF gUsesFPU THEN Client(t).fpu ELSE gFPU
<1>3. CASE /\ gFPU' = IF gUsesMMX
                      THEN [fpu EXCEPT !.mm = [m \in MMXRegs |->
                              IF m \in gUsedRegs THEN gRegs[m] ELSE fpu.mm[m]]]
                      ELSE fpu
           /\ Continue(t, "readmem")
  <2>1. pc'[t] = "readmem" /\ call' = call /\ \A u \in Threads \ {t} : pc'[u] = pc[u]
    BY <1>1, <1>3, Goes
  <2>2. /\ gUsedRegs = {IP} \cup UsedFlags(i) \cup Needed(i)
        /\ gStoreRegs = Stores(i) /\ i.ok /\ i.kind # "nop"
        /\ gUsesMMX = UsesMMX(i) /\ gUsesFPU = UsesFPU(i)
        /\ gModifiedRegs = {IP} \cup ModifiedFlags(i) \cup Elems(i.wr)
        /\ gStackPtrAlias = NoReg /\ Client(t) = p /\ gWriteBackFlags = i.fwrite
        /\ \A f \in FlagsIn(i) : gFlags[f] = p.flag[f]
        /\ \A r \in Stores(i) : gRegs[r] = p.reg[r]
        /\ call[t].next = Fall(p.reg[IP])
    BY <1>1 DEF StageInv, ClientInv, SetsInv, KindInv, AliasInv, OperandsInv, Outside,
                Untouched, BeforeRegs, BeforeRun, OperandsRead
  <2>3. UNCHANGED <<user, pre, gXedd, regVars, flagVars, gUsesFPU, gUsesMMX>>
    BY DEF ReadFPU
  <2>4. UsesFPU(i) => gFPU' = MergeMMX(i, p.fpu, p.reg)
    <3> SUFFICES ASSUME UsesFPU(i) PROVE gFPU' = MergeMMX(i, p.fpu, p.reg)
      OBVIOUS
    <3>1. p.fpu \in FPU /\ fpu = p.fpu
      BY <1>1, <2>2 DEF TypeOK, ClientsType, State
    <3>2. \A m \in MMXRegs : m \in gUsedRegs <=> m \in Needed(i)
      BY <2>2, RegAssumption DEF UsedFlags
    <3>3. \A m \in MMXRegs : m \in Needed(i) => gRegs[m] = p.reg[m]
      BY <2>2, RegAssumption DEF Stores
    <3> DEFINE mm == [m \in MMXRegs |-> IF m \in Needed(i) THEN p.reg[m] ELSE p.fpu.mm[m]]
    <3>4. [m \in MMXRegs |-> IF m \in gUsedRegs THEN gRegs[m] ELSE p.fpu.mm[m]] = mm
      BY <3>2, <3>3
    <3>5. CASE UsesMMX(i)
      BY <1>3, <2>2, <3>1, <3>4, <3>5 DEF MergeMMX
    <3>6. CASE ~UsesMMX(i)
      <4>1. mm = p.fpu.mm
        BY <3>1, <3>6 DEF UsesMMX, FPU
      <4>2. [p.fpu EXCEPT !.mm = mm] = p.fpu
        BY <3>1, <4>1 DEF FPU
      <4> QED BY <1>3, <2>2, <3>1, <3>6, <4>2 DEF MergeMMX
    <3> QED BY <3>5, <3>6
  <2>5. StageInv(t)'
    BY <2>1, <2>2, <2>3, <2>4
    DEF StageInv, ClientInv, SetsInv, KindInv, OperandsInv, AliasInv, ResultsInv, Client,
        Outside, Untouched, BeforeRegs, BeforeRun, BeforeNative, AfterNative, Encoded,
        OperandsRead, regVars, flagVars
  <2> QED BY <1>1, <2>1, <2>5, OneThread
<1> QED BY <1>2, <1>3 DEF ReadFPU

(* An address is computed from the registers that have been read. *)
LEMMA SameAddress ==
    ASSUME NEW i \in Instrs, NEW s \in Addressed(i),
           NEW reg \in [Regs -> Val], NEW other \in [Regs -> Val],
           \A r \in Stores(i) : reg[r] = other[r]
    PROVE  Address(i, s, reg) = Address(i, s, other)
<1> DEFINE Masked(x) == [r \in Regs |-> IF r \in Needed(i) \ {FL} THEN x[r] ELSE Zero]
<1>1. Masked(reg) = Masked(other)
  BY DEF Stores
<1>2. s \in Slots /\ i.mem[s].has
  BY DEF Addressed
<1>3. Address(i, s, reg) = Address(i, s, Masked(reg))
      /\ Address(i, s, other) = Address(i, s, Masked(other))
  BY <1>2, SemAssumption
<1> QED BY <1>1, <1>3

(* Every memory operand is read at the address the client's registers give. *)
LEMMA ReadMemoryInv ==
    ASSUME SafetyInv, ValueInv, NEW t \in Threads, ReadMemory(t)
    PROVE  ValueInv'
<1>1. pc[t] = "readmem" /\ TypeOK /\ StageInv(t) /\ pc[t] \notin Outside
  BY DEF ReadMemory, SafetyInv, ValueInv, Outside
<1>2. CASE Leave(t, "kErrorReadMem")
  BY <1>1, <1>2, LeavesInv
<1> DEFINE i == gXedd
           p == pre[t]
<1>3. CASE /\ gMemory' = [s \in Slots |->
                IF s \in Loaded(i)
                THEN MemoryRead(s, Client(t).mem[Address(i, s, gRegs)])
                ELSE IF s \in Addressed(i) THEN MemoryRead(s, Zero) ELSE Unread(s)]
           /\ Continue(t, "emulate")
  <2>1. pc'[t] = "emulate" /\ call' = call /\ \A u \in Threads \ {t} : pc'[u] = pc[u]
    BY <1>1, <1>3, Goes
  <2>2. /\ gUsedRegs = {IP} \cup UsedFlags(i) \cup Needed(i)
        /\ gStoreRegs = Stores(i) /\ i.ok /\ i.kind # "nop"
        /\ gUsesMMX = UsesMMX(i) /\ gUsesFPU = UsesFPU(i)
        /\ gModifiedRegs = {IP} \cup ModifiedFlags(i) \cup Elems(i.wr)
        /\ gStackPtrAlias = NoReg /\ Client(t) = p /\ gWriteBackFlags = i.fwrite
        /\ \A f \in FlagsIn(i) : gFlags[f] = p.flag[f]
        /\ \A r \in Stores(i) : gRegs[r] = p.reg[r]
        /\ call[t].next = Fall(p.reg[IP])
        /\ UsesFPU(i) => gFPU = MergeMMX(i, p.fpu, p.reg)
    BY <1>1 DEF StageInv, ClientInv, SetsInv, KindInv, AliasInv, OperandsInv, Outside,
                Untouched, BeforeRegs, BeforeRun, OperandsRead
  <2>3. UNCHANGED <<user, pre, gXedd, regVars, flagVars, fpuVars>>
    BY DEF ReadMemory
  <2>4. i \in Instrs /\ gRegs \in [Regs -> Val] /\ p.reg \in [Regs -> Val]
        /\ gMemory \in [Slots -> MemoryOperand]
    BY <1>1 DEF TypeOK, CallsType, RegsType, ClientsType, State, MemoryType
  <2>5. \A s \in Addressed(i) : Address(i, s, gRegs) = Address(i, s, p.reg)
    BY <2>2, <2>4, SameAddress
  <2>6. \A s \in Slots : SlotRead(s, p)'
    <3> SUFFICES ASSUME NEW s \in Slots PROVE SlotRead(s, p)'
      OBVIOUS
    <3>1. Loaded(i) \subseteq Addressed(i)
      BY DEF Loaded, Addressed
    <3>2. CASE s \notin Addressed(i)
      <4>1. gMemory'[s] = [gMemory[s] EXCEPT !.present = FALSE]
        BY <1>3, <3>1, <3>2 DEF Unread
      <4>2. gMemory'[s].present = FALSE
        BY <2>4, <4>1 DEF MemoryOperand
      <4> QED BY <2>3, <3>1, <3>2, <4>2 DEF SlotRead
    <3>3. CASE s \in Addressed(i)
      <4>1. PICK v : gMemory'[s] = MemoryRead(s, v)
                     /\ (s \in Loaded(i) => v = Client(t).mem[Address(i, s, gRegs)])
        BY <1>3, <3>3
      <4>2. /\ gMemory'[s].present = TRUE /\ gMemory'[s].data = v
            /\ gMemory'[s].write_back = i.mem[s].written
            /\ gMemory'[s].address = Address(i, s, gRegs)
        BY <4>1 DEF MemoryRead
      <4> QED BY <2>2, <2>3, <2>5, <3>3, <4>1, <4>2 DEF SlotRead
    <3> QED BY <3>2, <3>3
  <2>7. (\A s \in Slots : SlotRead(s, pre[t]))'
    BY <2>3, <2>6 DEF SlotRead
  <2>8. StageInv(t)'
    BY <2>1, <2>2, <2>3, <2>7
    DEF StageInv, ClientInv, SetsInv, KindInv, OperandsInv, AliasInv, ResultsInv, Client,
        Outside, Untouched, BeforeRegs, BeforeRun, BeforeNative, AfterNative, Encoded,
        OperandsRead, regVars, flagVars, fpuVars
  <2> QED BY <1>1, <2>1, <2>8, OneThread
<1> QED BY <1>2, <1>3 DEF ReadMemory

------------------------------------------------------------------------------
(* Running the instruction. *)

(* Whoever runs it, its memory results go where its operands came from. *)
LEMMA StoredSlots ==
    ASSUME TypeOK, NEW p, NEW out, \A s \in Slots : SlotRead(s, p),
           gMemory' = StoreSlots(gXedd, out), gXedd' = gXedd
    PROVE  /\ WriteBackSlots' = Stored(gXedd)
           /\ \A s \in Stored(gXedd) : /\ gMemory'[s].address = Address(gXedd, s, p.reg)
                                       /\ gMemory'[s].data = out.slot[s]
<1> DEFINE i == gXedd
<1>1. i \in Instrs /\ gMemory \in [Slots -> MemoryOperand]
  BY DEF TypeOK, CallsType, MemoryType
<1>2. /\ Stored(i) \subseteq Addressed(i) /\ Stored(i) \subseteq Slots
      /\ \A s \in Slots : s \in Stored(i) <=> s \in Addressed(i) /\ i.mem[s].written
  BY <1>1, InstrFacts DEF Stored
<1>3. \A s \in Slots : /\ (gMemory[s].present <=> s \in Addressed(i))
                       /\ s \in Addressed(i) =>
                            /\ gMemory[s].write_back = i.mem[s].written
                            /\ gMemory[s].address = Address(i, s, p.reg)
  BY DEF SlotRead
<1>4. \A s \in Slots : gMemory'[s] = IF s \in Stored(i)
                                     THEN [gMemory[s] EXCEPT !.data = out.slot[s]]
                                     ELSE gMemory[s]
  BY DEF StoreSlots
<1>5. \A s \in Slots : /\ gMemory'[s].present = gMemory[s].present
                       /\ gMemory'[s].write_back = gMemory[s].write_back
                       /\ gMemory'[s].address = gMemory[s].address
  BY <1>1, <1>4 DEF MemoryOperand
<1>6. \A s \in Stored(i) : gMemory'[s].data = out.slot[s]
  <2> SUFFICES ASSUME NEW s \in Stored(i) PROVE gMemory'[s].data = out.slot[s]
    OBVIOUS
  <2>1. gMemory[s] \in MemoryOperand /\ gMemory'[s] = [gMemory[s] EXCEPT !.data = out.slot[s]]
    BY <1>1, <1>2, <1>4
  <2> QED BY <2>1 DEF MemoryOperand
<1>7. \A s \in Slots : gMemory'[s].present /\ gMemory'[s].write_back <=> s \in Stored(i)
  BY <1>2, <1>3, <1>5
<1>8. WriteBackSlots' = Stored(i)
  BY <1>2, <1>7 DEF WriteBackSlots
<1> QED BY <1>2, <1>3, <1>5, <1>6, <1>8

(* Emulate computes the effect of the instruction from the globals, or      *)
(* leaves it to the JIT.                                                    *)
LEMMA EmulateInv ==
    ASSUME SafetyInv, ValueInv, NEW t \in Threads, Emulate(t)
    PROVE  ValueInv'
<1> DEFINE i == gXedd
           p == pre[t]
           out == Effect(i, [reg |-> gRegs, flag |-> gFlags, slot |-> SlotData,
                             adr |-> SlotAddress, fpu |-> gFPU, pc |-> gRegs[IP]])
<1>1. pc[t] = "emulate" /\ TypeOK /\ StageInv(t) /\ pc[t] \notin Outside
  BY DEF Emulate, SafetyInv, ValueInv, Outside
<1>2. /\ gUsedRegs = {IP} \cup UsedFlags(i) \cup Needed(i)
      /\ gStoreRegs = Stores(i) /\ i.ok /\ i.kind # "nop"
      /\ gUsesMMX = UsesMMX(i) /\ gUsesFPU = UsesFPU(i)
      /\ gModifiedRegs = {IP} \cup ModifiedFlags(i) \cup Elems(i.wr)
      /\ gStackPtrAlias = NoReg /\ Client(t) = p /\ gWriteBackFlags = i.fwrite
      /\ \A f \in FlagsIn(i) : gFlags[f] = p.flag[f]
      /\ \A r \in Stores(i) : gRegs[r] = p.reg[r]
      /\ call[t].next = Fall(p.reg[IP])
      /\ UsesFPU(i) => gFPU = MergeMMX(i, p.fpu, p.reg)
      /\ \A s \in Slots : SlotRead(s, p)
  BY <1>1 DEF StageInv, ClientInv, SetsInv, KindInv, AliasInv, OperandsInv, Outside,
              Untouched, BeforeRegs, BeforeRun, OperandsRead
<1>3. /\ i \in Instrs /\ p \in State /\ call \in [Threads -> Call_] /\ pc \in [Threads -> Stages]
      /\ gRegs \in [Regs -> Val] /\ gFlags \in [Flags -> Bit]
      /\ gMemory \in [Slots -> MemoryOperand]
  BY <1>1 DEF TypeOK, CallsType, ClientsType, RegsType, FlagsType, MemoryType
<1>4. UNCHANGED <<user, pre, gXedd, gUsedRegs, gStoreRegs, gStackPtrAlias, gWriteBackFlags,
                  fpuVars>>
  BY DEF Emulate
<1>5. CASE Leave(t, "kErrorUnsupportedCFI") \/ Leave(t, "kErrorUnsupportedStack")
  BY <1>1, <1>5, LeavesInv
<1>6. CASE /\ i.kind = "native" /\ Continue(t, "encode")
           /\ UNCHANGED <<gRegs, gModifiedRegs, gFlags, gMemory>>
  <2>1. pc'[t] = "encode" /\ call' = call /\ \A u \in Threads \ {t} : pc'[u] = pc[u]
    BY <1>1, <1>6, Goes
  <2>2. i.inc = {}
    BY <1>3, <1>6, InstrFacts
  <2>3. (\A s \in Slots : SlotRead(s, pre[t]))'
    BY <1>2, <1>4, <1>6 DEF SlotRead
  <2>4. StageInv(t)'
    BY <1>2, <1>4, <1>6, <2>1, <2>2, <2>3
    DEF StageInv, ClientInv, SetsInv, KindInv, OperandsInv, AliasInv, ResultsInv, Client,
        Outside, Untouched, BeforeRegs, BeforeRun, BeforeNative, AfterNative, Encoded,
        OperandsRead, fpuVars
  <2> QED BY <1>1, <2>1, <2>4, OneThread
<1>7. CASE /\ i.kind = "emulated"
           /\ gRegs' = [r \in Regs |-> IF r \in Written(i, gRegs) THEN out.reg[r] ELSE gRegs[r]]
           /\ gModifiedRegs' = IF Skipped(i, gRegs) THEN gModifiedRegs
                               ELSE gModifiedRegs \cup i.inc
           /\ gFlags' = StoreFlags(i, out)
           /\ gMemory' = StoreSlots(i, out)
           /\ pc' = [pc EXCEPT ![t] = "writemem"]
           /\ call' = [call EXCEPT ![t].next = out.pc]
  <2>1. /\ pc'[t] = "writemem" /\ call'[t].next = out.pc /\ call'[t].ex = call[t].ex
        /\ \A u \in Threads \ {t} : pc'[u] = pc[u] /\ call'[u] = call[u]
    BY <1>3, <1>7 DEF Call_
  <2>2. out = ISAEffect(i, p)
    <3>1. Operands(i) \ (MMXRegs \cup {FL, IP}) \subseteq Stores(i) /\ IP \in Stores(i)
      BY <1>3, InstrFacts, RegAssumption DEF Stores
    <3>2. /\ \A s \in Addressed(i) : s \in Slots /\ SlotAddress[s] = Address(i, s, p.reg)
          /\ \A s \in Loaded(i) : SlotData[s] = p.mem[Address(i, s, p.reg)]
      BY <1>2 DEF SlotRead, SlotAddress, SlotData, Addressed, Loaded
    <3>3. gRegs[IP] = p.reg[IP]
      BY <1>2, <3>1
    <3>4. \A r \in Operands(i) \ (MMXRegs \cup {FL, IP}) : gRegs[r] = p.reg[r]
      BY <1>2, <3>1
    <3> HIDE DEF i, p
    <3> QED BY <1>2, <1>3, <3>2, <3>3, <3>4, EffectOfOperands
  <2> HIDE DEF out
  <2>3. Skipped(i, gRegs) = Skipped(i, p.reg) /\ Written(i, gRegs) = Written(i, p.reg)
    <3>1. i.rep => gRegs[CountReg] = p.reg[CountReg]
      BY <1>2, <1>3, InstrFacts
    <3> QED BY <3>1 DEF Skipped, Written
  <2>4. ~UsesFPU(i)
    BY <1>3, <1>7, InstrFacts
  <2>5. Written(i, p.reg) \cap MMXRegs = {} /\ Written(i, p.reg) \subseteq Regs
        /\ i.fwrite \subseteq Flags
    BY <1>3, <2>4, WrittenNeeded, InstrFacts DEF UsesFPU, UsesMMX
  <2>6. After(t)' = ISA(i, p) /\ Out(t)' = out
    BY <1>4, <2>2 DEF After, Out
  <2>7. /\ \A r \in Written(i, p.reg) : ISA(i, p).reg[r] = out.reg[r]
        /\ \A f \in i.fwrite : ISA(i, p).flag[f] = out.flag[f]
        /\ ISA(i, p).reg[IP] = out.pc
    <3>1. i.kind = "emulated"
      BY <1>7
    <3> HIDE DEF i, p
    <3>2. /\ \A r \in Written(i, p.reg) :
                ISA(i, p).reg[r] = IF r \in MMXRegs THEN ISAEffect(i, p).fpu.mm[r]
                                                     ELSE ISAEffect(i, p).reg[r]
          /\ \A f \in i.fwrite : ISA(i, p).flag[f] = ISAEffect(i, p).flag[f]
          /\ ISA(i, p).reg[IP] = ISAEffect(i, p).pc
      BY <1>3, <3>1, ISAFields
    <3>3. \A r \in Written(i, p.reg) : r \notin MMXRegs
      BY <2>5
    <3> QED BY <2>2, <3>2, <3>3
  <2>8. Results(t)'
    <3>1. \A r \in Written(i, p.reg) : gRegs'[r] = ISA(i, p).reg[r]
      BY <1>7, <2>3, <2>5, <2>7
    <3>2. UnaliasedRegs' = gRegs'
      BY <1>2, <1>4 DEF UnaliasedRegs
    <3>3. \A f \in i.fwrite : gFlags'[f] = ISA(i, p).flag[f]
      BY <1>7, <2>5, <2>7 DEF StoreFlags
    <3>4. /\ WriteBackSlots' = Stored(i)
          /\ \A s \in Stored(i) : /\ gMemory'[s].address = Address(i, s, p.reg)
                                  /\ gMemory'[s].data = out.slot[s]
      BY <1>1, <1>2, <1>4, <1>7, StoredSlots
    <3> QED BY <1>4, <1>7, <2>1, <2>6, <2>7, <3>1, <3>2, <3>3, <3>4 DEF Results
  <2>9. gModifiedRegs' = {IP} \cup ModifiedFlags(i) \cup Elems(i.wr)
                              \cup (IF Skipped(i, p.reg) THEN {} ELSE i.inc)
    BY <1>2, <1>7, <2>3
  <2>10. StageInv(t)'
    <3>1. ClientInv(t)' /\ KindInv(t)'
      BY <1>2, <1>4, <1>7, <2>1
      DEF ClientInv, KindInv, Client, Outside, Untouched, BeforeRegs, BeforeRun,
          BeforeNative, AfterNative
    <3>2. SetsInv(t)'
      BY <1>2, <1>4, <2>1, <2>9
      DEF SetsInv, Outside, BeforeRegs, BeforeRun, BeforeNative, AfterNative, fpuVars
    <3>3. OperandsInv(t)' /\ AliasInv(t)'
      BY <2>1 DEF OperandsInv, AliasInv, BeforeRegs, BeforeRun, BeforeNative, AfterNative,
                  Encoded, OperandsRead
    <3>4. ResultsInv(t)'
      BY <1>4, <2>1, <2>4, <2>8 DEF ResultsInv, AfterNative
    <3> QED BY <3>1, <3>2, <3>3, <3>4 DEF StageInv
  <2> QED BY <1>1, <2>1, <2>10, OneThread
<1> QED BY <1>5, <1>6, <1>7 DEF Emulate

(* What every stage between Emulate and the JITed instruction finds. *)
Ready(t) ==
    /\ gUsedRegs = {IP} \cup UsedFlags(gXedd) \cup Needed(gXedd)
    /\ gStoreRegs = Stores(gXedd) /\ gXedd.ok /\ gXedd.kind = "native"
    /\ gUsesMMX = UsesMMX(gXedd) /\ gUsesFPU = UsesFPU(gXedd)
    /\ gModifiedRegs = {IP} \cup ModifiedFlags(gXedd) \cup Elems(gXedd.wr)
                            \cup (IF Skipped(gXedd, pre[t].reg) THEN {} ELSE gXedd.inc)
    /\ Client(t) = pre[t] /\ gWriteBackFlags = gXedd.fwrite
    /\ \A f \in FlagsIn(gXedd) : gFlags[f] = pre[t].flag[f]
    /\ \A r \in Stores(gXedd) : gRegs[r] = pre[t].reg[r]
    /\ call[t].next = Fall(pre[t].reg[IP])
    /\ \A s \in Slots : SlotRead(s, pre[t])

(* The stack pointer's stand-in is a register that the instruction leaves   *)
(* alone, and it has the stack pointer's value.                             *)
LEMMA EncodeInv ==
    ASSUME SafetyInv, ValueInv, NEW t \in Threads, Encode(t)
    PROVE  ValueInv'
<1> DEFINE i == gXedd
           p == pre[t]
           usesSP == SP \in Elems(i.rd) \cup Elems(i.wr)
           alias == IF usesSP THEN StackPointerAlias ELSE NoReg
<1>1. pc[t] = "encode" /\ TypeOK /\ StageInv(t) /\ pc[t] \notin Outside
  BY DEF Encode, SafetyInv, ValueInv, Outside
<1>2. Ready(t) /\ (UsesFPU(i) => gFPU = MergeMMX(i, p.fpu, p.reg))
  BY <1>1 DEF StageInv, ClientInv, SetsInv, KindInv, AliasInv, OperandsInv, Outside,
              Untouched, BeforeRegs, BeforeRun, BeforeNative, OperandsRead, Ready
<1>3. CASE Leave(t, "kErrorExecute")
  BY <1>1, <1>3, LeavesInv
<1>4. CASE ~(usesSP /\ alias = NoReg) /\ Continue(t, "install")
  <2>1. pc'[t] = "install" /\ call' = call /\ \A u \in Threads \ {t} : pc'[u] = pc[u]
    BY <1>1, <1>4, Goes
  <2>2. i \in Instrs /\ gRegs \in [Regs -> Val]
    BY <1>1 DEF TypeOK, CallsType, RegsType
  <2>3. usesSP = (SP \in Operands(i))
    BY <1>2 DEF Operands, Ready
  <2>4. SP \in Operands(i) => alias \in AliasRegs \ Stores(i)
    <3> SUFFICES ASSUME SP \in Operands(i) PROVE alias \in AliasRegs \ Stores(i)
      OBVIOUS
    <3>1. alias = StackPointerAlias /\ StackPointerAlias # NoReg
      BY <1>4, <2>3
    <3>2. FreeAliases # {} /\ FreeAliases \in SUBSET AliasRegs
      BY <3>1 DEF StackPointerAlias, FreeAliases
    <3>3. \E r \in FreeAliases : \A q \in FreeAliases : r <= q
      BY <3>2, AliasAssumption
    <3>4. StackPointerAlias \in FreeAliases
      BY <3>2, <3>3 DEF StackPointerAlias
    <3> QED BY <1>2, <3>1, <3>4 DEF FreeAliases, Ready
  <2>5. SP \notin Operands(i) => alias = NoReg
    BY <2>3
  <2>6. /\ gStackPtrAlias' = alias
        /\ gRegs' = [r \in Regs |-> IF r = alias THEN gRegs[SP] ELSE gRegs[r]]
        /\ UNCHANGED <<user, pre, gXedd, gUsedRegs, gModifiedRegs, gStoreRegs, flagVars, fpuVars,
                       gMemory>>
    BY DEF Encode
  <2> HIDE DEF alias, usesSP
  <2>7. Stores(i) \subseteq Regs /\ Needed(i) \subseteq Stores(i) \cup {FL}
        /\ SP \in Regs /\ FL \notin AliasRegs /\ AliasRegs \subseteq Regs /\ NoReg \notin Regs
        /\ (SP \in Operands(i) => SP \in Stores(i))
    BY <2>2, InstrFacts, RegAssumption, AliasAssumption DEF Stores
  <2>8. \A r \in Stores(i) : gRegs'[r] = p.reg[r]
    BY <1>2, <2>4, <2>5, <2>6, <2>7 DEF Ready
  <2>9. IF SP \in Operands(i)
        THEN alias \in AliasRegs \ Needed(i) /\ gRegs'[alias] = p.reg[SP]
        ELSE alias = NoReg
    BY <1>2, <2>4, <2>5, <2>6, <2>7 DEF Ready
  <2>10. (\A s \in Slots : SlotRead(s, pre[t]))'
    BY <1>2, <2>6 DEF SlotRead, Ready
  <2>11. StageInv(t)'
    <3>1. ClientInv(t)' /\ KindInv(t)'
      BY <1>2, <2>1, <2>6
      DEF ClientInv, KindInv, Ready, Client, Outside, Untouched, BeforeRegs, BeforeRun,
          BeforeNative, AfterNative
    <3>2. SetsInv(t)'
      BY <1>2, <2>1, <2>6
      DEF SetsInv, Ready, Outside, BeforeRegs, BeforeRun, BeforeNative, AfterNative, fpuVars,
          flagVars
    <3>3. OperandsInv(t)'
      BY <1>2, <2>1, <2>6, <2>8, <2>10
      DEF OperandsInv, Ready, BeforeRegs, BeforeRun, BeforeNative, AfterNative, Encoded,
          OperandsRead, fpuVars, flagVars
    <3>4. AliasInv(t)'
      BY <2>1, <2>6, <2>9 DEF AliasInv, BeforeRegs, BeforeRun, Encoded
    <3>5. ResultsInv(t)'
      BY <2>1 DEF ResultsInv, AfterNative
    <3> QED BY <3>1, <3>2, <3>3, <3>4, <3>5 DEF StageInv
  <2> QED BY <1>1, <2>1, <2>11, OneThread
<1> QED BY <1>3, <1>4 DEF Encode

(* The stages between: the handlers, the FPU, sigsetjmp. *)
LEMMA PrepareInv ==
    ASSUME SafetyInv, ValueInv, NEW t \in Threads,
           InstallHandlers(t) \/ LoadFPU(t) \/ SigSetJmp(t)
    PROVE  ValueInv'
<1> DEFINE i == gXedd
           p == pre[t]
           fpu == MergeMMX(i, p.fpu, p.reg)
<1>1. TypeOK /\ StageInv(t) /\ pc[t] \in {"install", "loadfpu", "sigsetjmp"}
      /\ pc[t] \notin Outside
  BY DEF InstallHandlers, LoadFPU, SigSetJmp, SafetyInv, ValueInv, Outside
<1>2. Ready(t)
  BY <1>1 DEF StageInv, ClientInv, SetsInv, KindInv, AliasInv, OperandsInv, Outside,
              Untouched, BeforeRegs, BeforeRun, BeforeNative, OperandsRead, Ready
<1>3. /\ IF SP \in Operands(i)
         THEN gStackPtrAlias \in AliasRegs \ Needed(i) /\ gRegs[gStackPtrAlias] = p.reg[SP]
         ELSE gStackPtrAlias = NoReg
      /\ pc[t] \in {"install", "loadfpu"} /\ UsesFPU(i) => gFPU = fpu
      /\ pc[t] = "sigsetjmp" /\ UsesFPU(i) => hwFPU[t] = fpu
      /\ pc[t] \in {"loadfpu", "sigsetjmp"} => gSignal = "none"
  BY <1>1 DEF StageInv, AliasInv, OperandsInv, ResultsInv, BeforeRun, BeforeNative, Encoded,
              OperandsRead
<1>4. UNCHANGED <<user, pre, gXedd, regVars, flagVars, gUsesFPU, gUsesMMX, gFPU, gMemory>>
  BY DEF InstallHandlers, LoadFPU, SigSetJmp, fpuVars
<1>5. \E stage \in {"loadfpu", "sigsetjmp", "native"} :
         /\ Continue(t, stage)
         /\ stage = "loadfpu" /\ UsesFPU(i) => gFPU' = fpu
         /\ stage \in {"sigsetjmp", "native"} /\ UsesFPU(i) => hwFPU'[t] = fpu
         /\ gSignal' = "none"
  <2>1. CASE InstallHandlers(t)
    BY <1>3, <2>1 DEF InstallHandlers, ClearedSignal, fpuVars
  <2>2. CASE LoadFPU(t)
    <3>1. hwFPU \in [Threads -> FPU]
      BY <1>1 DEF TypeOK, FPUType
    <3> QED BY <1>2, <1>3, <2>2, <3>1 DEF LoadFPU, sigVars, Ready
  <2>3. CASE SigSetJmp(t)
    BY <1>3, <2>3 DEF SigSetJmp, fpuVars
  <2> QED BY <2>1, <2>2, <2>3
<1> PICK stage \in {"loadfpu", "sigsetjmp", "native"} :
         /\ Continue(t, stage)
         /\ stage = "loadfpu" /\ UsesFPU(i) => gFPU' = fpu
         /\ stage \in {"sigsetjmp", "native"} /\ UsesFPU(i) => hwFPU'[t] = fpu
         /\ gSignal' = "none"
  BY <1>5
<1>6. pc'[t] = stage /\ call' = call /\ \A u \in Threads \ {t} : pc'[u] = pc[u]
  BY <1>1, Goes
<1>7. (\A s \in Slots : SlotRead(s, pre[t]))'
  BY <1>2, <1>4 DEF SlotRead, Ready
<1>8. ClientInv(t)' /\ KindInv(t)'
  BY <1>2, <1>4, <1>6
  DEF ClientInv, KindInv, Ready, Client, Outside, Untouched, BeforeRegs, BeforeRun,
      BeforeNative, AfterNative
<1>9. SetsInv(t)'
  BY <1>2, <1>4, <1>6
  DEF SetsInv, Ready, Outside, BeforeRegs, BeforeRun, BeforeNative, AfterNative, regVars, flagVars
<1>10. OperandsInv(t)'
  BY <1>2, <1>4, <1>6, <1>7
  DEF OperandsInv, Ready, BeforeRegs, BeforeRun, BeforeNative, AfterNative, OperandsRead,
      regVars, flagVars
<1>11. AliasInv(t)'
  BY <1>3, <1>4, <1>6 DEF AliasInv, BeforeRegs, BeforeRun, Encoded, regVars
<1>12. ResultsInv(t)'
  BY <1>6 DEF ResultsInv, AfterNative
<1>13. StageInv(t)'
  BY <1>8, <1>9, <1>10, <1>11, <1>12 DEF StageInv
<1> QED BY <1>1, <1>6, <1>13, OneThread

(* What ExecuteNative computes is the effect on the client's state, when it *)
(* exchanges the registers of the instruction.                              *)
LEMMA NativeEffect ==
    ASSUME TypeOK, NEW t \in Threads, Ready(t), Exchanged(gXedd), NEW host, NEW reg,
           reg = [r \in Regs |-> IF r = SP /\ gStackPtrAlias # NoReg THEN gRegs[gStackPtrAlias]
                                 ELSE IF r \in NativeRegs THEN gRegs[r] ELSE host],
           IF SP \in Operands(gXedd)
           THEN /\ gStackPtrAlias \in AliasRegs \ Needed(gXedd)
                /\ gRegs[gStackPtrAlias] = pre[t].reg[SP]
           ELSE gStackPtrAlias = NoReg,
           UsesFPU(gXedd) => hwFPU[t] = MergeMMX(gXedd, pre[t].fpu, pre[t].reg)
    PROVE  Effect(gXedd, [reg |-> reg, flag |-> gFlags, slot |-> SlotData,
                          adr |-> SlotAddress, fpu |-> hwFPU[t], pc |-> gRegs[IP]]) = Out(t)
<1> DEFINE i == gXedd
           p == pre[t]
<1>1. i \in Instrs /\ p \in State
  BY DEF TypeOK, CallsType, ClientsType
<1>2. Operands(i) \ (MMXRegs \cup {FL, IP}) \subseteq Stores(i) /\ IP \in Stores(i)
      /\ Operands(i) \subseteq Regs /\ NoReg \notin Regs /\ AliasRegs \subseteq Regs
  BY <1>1, InstrFacts, RegAssumption, AliasAssumption DEF Stores
<1>3. \A s \in Loaded(i) : SlotData[s] = p.mem[Address(i, s, p.reg)]
  BY DEF Ready, SlotRead, SlotData, Loaded
<1>4. \A s \in Addressed(i) : SlotAddress[s] = Address(i, s, p.reg)
  BY DEF Ready, SlotRead, SlotAddress, Addressed
<1>5. \A r \in Operands(i) \ (MMXRegs \cup {FL, IP}) : reg[r] = p.reg[r]
  <2> SUFFICES ASSUME NEW r \in Operands(i) \ (MMXRegs \cup {FL, IP})
               PROVE  reg[r] = p.reg[r]
    OBVIOUS
  <2>1. r \in Regs /\ gRegs[r] = p.reg[r]
    BY <1>2 DEF Ready
  <2>2. CASE r = SP
    BY <1>2, <2>1, <2>2
  <2>3. CASE r # SP
    <3>1. r \in NativeRegs
      BY <2>3 DEF Exchanged, Ready
    <3> QED BY <2>1, <2>3, <3>1
  <2> QED BY <2>2, <2>3
<1>6. gRegs[IP] = p.reg[IP] /\ \A f \in FlagsIn(i) : gFlags[f] = p.flag[f]
  BY <1>2 DEF Ready
<1> HIDE DEF i, p
<1>7. Effect(i, [reg |-> reg, flag |-> gFlags, slot |-> SlotData, adr |-> SlotAddress,
                 fpu |-> hwFPU[t], pc |-> p.reg[IP]]) = ISAEffect(i, p)
  BY <1>1, <1>3, <1>4, <1>5, <1>6, EffectOfOperands DEF i, p
<1> QED BY <1>6, <1>7 DEF Out, i, p

(* The registers come back out of ExecuteNative, the stack pointer in its   *)
(* alias.                                                                   *)
LEMMA NativeRegisters ==
    ASSUME TypeOK, NEW i \in Instrs, i.kind = "native", Exchanged(i), NEW p, NEW out,
           IF SP \in Operands(i) THEN gStackPtrAlias \in AliasRegs \ Needed(i)
                                 ELSE gStackPtrAlias = NoReg,
           gRegs' = [r \in Regs |->
                       IF r = gStackPtrAlias
                       THEN IF SP \in Elems(i.wr) THEN out.reg[SP] ELSE gRegs[r]
                       ELSE IF r \in NativeRegs \cap Elems(i.wr) THEN out.reg[r]
                       ELSE gRegs[r]],
           gStackPtrAlias' = gStackPtrAlias
    PROVE  \A r \in Written(i, p) \ MMXRegs : UnaliasedRegs'[r] = out.reg[r]
<1> SUFFICES ASSUME NEW r \in Written(i, p) \ MMXRegs PROVE UnaliasedRegs'[r] = out.reg[r]
  OBVIOUS
<1>1. r \in Elems(i.wr) \ {FL, IP} /\ r \in Operands(i) /\ r \in Needed(i) /\ r \in Regs
  BY InstrFacts DEF Written
<1>2. r # SP => r \in NativeRegs
  BY <1>1 DEF Exchanged
<1>3. /\ SP \in Regs /\ AliasRegs \subseteq Regs /\ NoReg \notin Regs
      /\ SP \notin AliasRegs
  BY RegAssumption, AliasAssumption
<1>4. CASE SP \in Operands(i)
  <2>1. UnaliasedRegs' = [gRegs' EXCEPT ![SP] = gRegs'[gStackPtrAlias]]
        /\ gStackPtrAlias \in Regs /\ gStackPtrAlias # r
    BY <1>1, <1>3, <1>4 DEF UnaliasedRegs
  <2>2. CASE r = SP
    BY <1>1, <1>3, <2>1, <2>2
  <2>3. CASE r # SP
    BY <1>1, <1>2, <2>1, <2>3
  <2> QED BY <2>2, <2>3
<1>5. CASE SP \notin Operands(i)
  BY <1>1, <1>2, <1>3, <1>5 DEF UnaliasedRegs
<1> QED BY <1>4, <1>5

(* The JITed instruction leaves its results in the globals, or a signal in  *)
(* gSignal.                                                                 *)
LEMMA ExecuteNativeInv ==
    ASSUME SafetyInv, ValueInv, NEW t \in Threads, ExecuteNative(t) \/ ExecuteNativeAVX(t)
    PROVE  ValueInv'
<1> DEFINE i == gXedd
           p == pre[t]
           alias == gStackPtrAlias
<1>1. pc[t] = "native" /\ TypeOK /\ StageInv(t) /\ pc[t] \notin Outside
  BY DEF ExecuteNative, ExecuteNativeAVX, SafetyInv, ValueInv, Outside
<1>2. Ready(t)
  BY <1>1 DEF StageInv, ClientInv, SetsInv, KindInv, AliasInv, OperandsInv, Outside,
              Untouched, BeforeRegs, BeforeRun, BeforeNative, OperandsRead, Ready
<1>3. /\ IF SP \in Operands(i)
         THEN alias \in AliasRegs \ Needed(i) /\ gRegs[alias] = p.reg[SP]
         ELSE alias = NoReg
      /\ UsesFPU(i) => hwFPU[t] = MergeMMX(i, p.fpu, p.reg)
      /\ gSignal = "none"
  BY <1>1 DEF StageInv, AliasInv, OperandsInv, ResultsInv, BeforeRun, BeforeNative, Encoded,
              OperandsRead
<1>4. UNCHANGED <<user, pre, gXedd, gUsedRegs, gModifiedRegs, gStoreRegs, gStackPtrAlias,
                  gWriteBackFlags, gUsesFPU, gUsesMMX, gFPU>>
  BY DEF ExecuteNative, ExecuteNativeAVX, regVars, flagVars, fpuVars
<1>5. /\ i \in Instrs /\ p \in State /\ hwFPU \in [Threads -> FPU] /\ i.kind # "nop"
      /\ i.fwrite \subseteq Flags /\ Written(i, p.reg) \subseteq Regs
  <2>1. i \in Instrs /\ p \in State /\ hwFPU \in [Threads -> FPU] /\ i.kind # "nop"
    BY <1>1, <1>2 DEF TypeOK, CallsType, ClientsType, FPUType, Ready
  <2> QED BY <2>1, InstrFacts, WrittenNeeded
<1>14. /\ \A r \in Written(i, p.reg) \ MMXRegs : ISA(i, p).reg[r] = ISAEffect(i, p).reg[r]
       /\ \A f \in i.fwrite : ISA(i, p).flag[f] = ISAEffect(i, p).flag[f]
       /\ ISA(i, p).reg[IP] = Fall(p.reg[IP])
       /\ UsesFPU(i) => ISA(i, p).fpu = ISAEffect(i, p).fpu
  <2>1. i.kind = "native"
    BY <1>2 DEF Ready
  <2> HIDE DEF i, p
  <2>2. /\ \A r \in Written(i, p.reg) :
              ISA(i, p).reg[r] = IF r \in MMXRegs THEN ISAEffect(i, p).fpu.mm[r]
                                                   ELSE ISAEffect(i, p).reg[r]
        /\ \A f \in i.fwrite : ISA(i, p).flag[f] = ISAEffect(i, p).flag[f]
    BY <1>5, ISAFields
  <2>3. ISA(i, p).reg[IP] = Fall(p.reg[IP])
    BY <1>5, <2>1, ISAFields
  <2>4. UsesFPU(i) => ISA(i, p).fpu = ISAEffect(i, p).fpu
    BY <1>5, ISAFields
  <2> QED BY <2>2, <2>3, <2>4
<1>6. Continue(t, "storefpu")
  <2>1. gRecoveryTarget = t
    BY <1>1 DEF SafetyInv, WindowInv
  <2> QED BY <2>1 DEF ExecuteNative, ExecuteNativeAVX
<1>7. pc'[t] = "storefpu" /\ call' = call /\ \A u \in Threads \ {t} : pc'[u] = pc[u]
  BY <1>1, <1>6, Goes
<1>8. After(t)' = ISA(i, p) /\ Out(t)' = ISAEffect(i, p) /\ Out(t) = ISAEffect(i, p)
  BY <1>4 DEF After, Out
<1>9. ResultsInv(t)'
  <2>1. CASE ExecuteNativeAVX(t)
    <3>1. gSignal' = "SIGILL"
      BY <2>1 DEF ExecuteNativeAVX
    <3> QED BY <1>7, <3>1 DEF ResultsInv
  <2>2. CASE ExecuteNative(t)
    <3>1. PICK host \in HostVals :
            LET reg == [r \in Regs |-> IF r = SP /\ alias # NoReg THEN gRegs[alias]
                                       ELSE IF r \in NativeRegs THEN gRegs[r] ELSE host]
                out == Effect(i, [reg |-> reg, flag |-> gFlags, slot |-> SlotData,
                                  adr |-> SlotAddress, fpu |-> hwFPU[t], pc |-> gRegs[IP]])
            IN  \/ /\ out.sig = "none"
                   /\ gRegs' = [r \in Regs |->
                         IF r = alias THEN IF SP \in Elems(i.wr) THEN out.reg[SP] ELSE gRegs[r]
                         ELSE IF r \in NativeRegs \cap Elems(i.wr) THEN out.reg[r]
                         ELSE gRegs[r]]
                   /\ gFlags' = StoreFlags(i, out)
                   /\ gMemory' = StoreSlots(i, out)
                   /\ hwFPU' = IF gUsesFPU THEN [hwFPU EXCEPT ![t] = out.fpu] ELSE hwFPU
                   /\ UNCHANGED gSignal
                \/ /\ out.sig # "none"
                   /\ gSignal' = out.sig
      BY <2>2 DEF ExecuteNative
    <3> DEFINE reg == [r \in Regs |-> IF r = SP /\ alias # NoReg THEN gRegs[alias]
                                      ELSE IF r \in NativeRegs THEN gRegs[r] ELSE host]
               out == Effect(i, [reg |-> reg, flag |-> gFlags, slot |-> SlotData,
                                 adr |-> SlotAddress, fpu |-> hwFPU[t], pc |-> gRegs[IP]])
    <3>2. Exchanged(i) => out = ISAEffect(i, p)
      BY <1>1, <1>2, <1>3, <1>8, NativeEffect
    <3>3. \/ /\ out.sig = "none"
             /\ gRegs' = [r \in Regs |->
                   IF r = alias THEN IF SP \in Elems(i.wr) THEN out.reg[SP] ELSE gRegs[r]
                   ELSE IF r \in NativeRegs \cap Elems(i.wr) THEN out.reg[r]
                   ELSE gRegs[r]]
             /\ gFlags' = StoreFlags(i, out)
             /\ gMemory' = StoreSlots(i, out)
             /\ hwFPU' = IF gUsesFPU THEN [hwFPU EXCEPT ![t] = out.fpu] ELSE hwFPU
             /\ UNCHANGED gSignal
          \/ /\ out.sig # "none"
             /\ gSignal' = out.sig
      BY <3>1
    <3> HIDE DEF out
    <3>4. CASE out.sig # "none" /\ gSignal' = out.sig
      BY <1>4, <1>7, <1>8, <3>2, <3>4 DEF ResultsInv
    <3>5. CASE /\ out.sig = "none"
               /\ gRegs' = [r \in Regs |->
                     IF r = alias THEN IF SP \in Elems(i.wr) THEN out.reg[SP] ELSE gRegs[r]
                     ELSE IF r \in NativeRegs \cap Elems(i.wr) THEN out.reg[r]
                     ELSE gRegs[r]]
               /\ gFlags' = StoreFlags(i, out)
               /\ gMemory' = StoreSlots(i, out)
               /\ hwFPU' = IF gUsesFPU THEN [hwFPU EXCEPT ![t] = out.fpu] ELSE hwFPU
               /\ UNCHANGED gSignal
      <4>1. /\ WriteBackSlots' = Stored(i)
            /\ \A s \in Stored(i) : /\ gMemory'[s].address = Address(i, s, p.reg)
                                    /\ gMemory'[s].data = out.slot[s]
        BY <1>1, <1>2, <1>4, <3>5, StoredSlots DEF Ready
      <4>2. ASSUME Exchanged(i)
            PROVE  /\ \A r \in Written(i, p.reg) \ MMXRegs : UnaliasedRegs'[r] = ISA(i, p).reg[r]
                   /\ \A f \in i.fwrite : gFlags'[f] = ISA(i, p).flag[f]
                   /\ call[t].next = ISA(i, p).reg[IP]
                   /\ UsesFPU(i) => hwFPU'[t] = ISA(i, p).fpu
        <5>1. \A r \in Written(i, p.reg) \ MMXRegs : UnaliasedRegs'[r] = out.reg[r]
          BY <1>1, <1>2, <1>3, <1>4, <1>5, <3>5, <4>2, NativeRegisters DEF Ready
        <5>2. \A r \in Written(i, p.reg) \ MMXRegs : ISA(i, p).reg[r] = out.reg[r]
          BY <1>14, <3>2, <4>2
        <5>3. \A f \in i.fwrite : gFlags'[f] = out.flag[f]
          BY <1>5, <3>5 DEF StoreFlags
        <5>4. \A f \in i.fwrite : ISA(i, p).flag[f] = out.flag[f]
          BY <1>14, <3>2, <4>2
        <5>5. ISA(i, p).reg[IP] = Fall(p.reg[IP])
          BY <1>14
        <5>6. UsesFPU(i) => ISA(i, p).fpu = out.fpu
          BY <1>14, <3>2, <4>2
        <5>7. UsesFPU(i) => hwFPU'[t] = out.fpu
          BY <1>2, <1>5, <3>5 DEF Ready
        <5> QED BY <1>2, <5>1, <5>2, <5>3, <5>4, <5>5, <5>6, <5>7 DEF Ready
      <4>3. Results(t)'
        BY <1>4, <1>7, <1>8, <3>2, <3>5, <4>1, <4>2 DEF Results
      <4> QED BY <1>3, <1>4, <1>7, <1>8, <3>5, <4>2, <4>3 DEF ResultsInv
    <3> QED BY <3>3, <3>4, <3>5
  <2> QED BY <2>1, <2>2
<1>10. ClientInv(t)' /\ KindInv(t)'
  BY <1>2, <1>4, <1>7
  DEF ClientInv, KindInv, Ready, Client, Outside, Untouched, BeforeRegs, BeforeRun,
      BeforeNative, AfterNative
<1>11. SetsInv(t)'
  BY <1>2, <1>4, <1>7
  DEF SetsInv, Ready, Outside, BeforeRegs, BeforeRun, BeforeNative, AfterNative
<1>12. OperandsInv(t)' /\ AliasInv(t)'
  BY <1>2, <1>4, <1>7
  DEF OperandsInv, AliasInv, Ready, BeforeRegs, BeforeRun, BeforeNative, AfterNative,
      OperandsRead, Encoded
<1>13. StageInv(t)'
  BY <1>9, <1>10, <1>11, <1>12 DEF StageInv
<1> QED BY <1>1, <1>7, <1>13, OneThread

(* FXSAVE after the instruction gives the FPU that it left. *)
LEMMA StoreFPUInv ==
    ASSUME SafetyInv, ValueInv, NEW t \in Threads, StoreFPU(t)
    PROVE  ValueInv'
<1>1. pc[t] = "storefpu" /\ TypeOK /\ StageInv(t) /\ pc[t] \notin Outside
  BY DEF StoreFPU, SafetyInv, ValueInv, Outside
<1>2. UNCHANGED <<user, pre, gXedd, gUsedRegs, gModifiedRegs, gStoreRegs, gRegs, gStackPtrAlias,
                  gFlags, gWriteBackFlags, gUsesFPU, gUsesMMX, gMemory, gSignal>>
  BY DEF StoreFPU, regVars, flagVars, sigVars
<1>3. pc'[t] = "restore" /\ call' = call /\ \A u \in Threads \ {t} : pc'[u] = pc[u]
  BY <1>1, Goes DEF StoreFPU
<1>4. gUsesFPU = UsesFPU(gXedd) /\ (gUsesFPU => gFPU' = hwFPU[t])
  BY <1>1 DEF StoreFPU, StageInv, SetsInv, Outside, BeforeRegs
<1>5. After(t)' = After(t) /\ Out(t)' = Out(t) /\ Client(t)' = Client(t)
      /\ (Results(t)' <=> Results(t))
  <2>1. After(t)' = After(t) /\ Out(t)' = Out(t) /\ Client(t)' = Client(t)
    BY <1>2, <1>3 DEF After, Out, Client
  <2>2. UnaliasedRegs' = UnaliasedRegs /\ WriteBackSlots' = WriteBackSlots
    BY <1>2 DEF UnaliasedRegs, WriteBackSlots
  <2> QED BY <1>2, <1>3, <2>1, <2>2 DEF Results
<1>6. ClientInv(t)' /\ KindInv(t)'
  BY <1>1, <1>2, <1>3, <1>5
  DEF StageInv, ClientInv, KindInv, Outside, Untouched, BeforeRegs, BeforeRun, BeforeNative,
      AfterNative
<1>7. SetsInv(t)'
  BY <1>1, <1>2, <1>3
  DEF StageInv, SetsInv, Outside, BeforeRegs, BeforeRun, BeforeNative, AfterNative
<1>8. OperandsInv(t)' /\ AliasInv(t)'
  BY <1>1, <1>2, <1>3
  DEF StageInv, OperandsInv, AliasInv, BeforeRegs, BeforeRun, BeforeNative, AfterNative,
      OperandsRead, Encoded
<1>9. ResultsInv(t)'
  BY <1>1, <1>2, <1>3, <1>4, <1>5 DEF StageInv, ResultsInv, AfterNative
<1>10. StageInv(t)'
  BY <1>6, <1>7, <1>8, <1>9 DEF StageInv
<1> QED BY <1>1, <1>3, <1>10, OneThread

(* An instruction that raised a signal is not written back. *)
LEMMA RestoreHandlersInv ==
    ASSUME SafetyInv, ValueInv, NEW t \in Threads, RestoreHandlers(t)
    PROVE  ValueInv'
<1>1. pc[t] = "restore" /\ TypeOK /\ StageInv(t) /\ pc[t] \notin Outside
  BY DEF RestoreHandlers, SafetyInv, ValueInv, Outside
<1>2. CASE \E status : Leave(t, status)
  BY <1>1, <1>2, LeavesInv
<1>3. CASE gSignal = "none" /\ Continue(t, "writemem")
  <2>1. UNCHANGED <<user, pre, gXedd, gUsedRegs, gModifiedRegs, gStoreRegs, gRegs,
                    gStackPtrAlias, gFlags, gWriteBackFlags, gUsesFPU, gUsesMMX, gFPU, gMemory>>
    BY DEF RestoreHandlers, regVars, flagVars, fpuVars
  <2>2. pc'[t] = "writemem" /\ call' = call /\ \A u \in Threads \ {t} : pc'[u] = pc[u]
    BY <1>1, <1>3, Goes
  <2>3. After(t)' = After(t) /\ Out(t)' = Out(t) /\ Client(t)' = Client(t)
        /\ (Results(t)' <=> Results(t))
    <3>1. After(t)' = After(t) /\ Out(t)' = Out(t) /\ Client(t)' = Client(t)
      BY <2>1, <2>2 DEF After, Out, Client
    <3>2. UnaliasedRegs' = UnaliasedRegs /\ WriteBackSlots' = WriteBackSlots
      BY <2>1 DEF UnaliasedRegs, WriteBackSlots
    <3> QED BY <2>1, <2>2, <3>1, <3>2 DEF Results
  <2>4. ClientInv(t)' /\ KindInv(t)'
    BY <1>1, <2>1, <2>2, <2>3
    DEF StageInv, ClientInv, KindInv, Outside, Untouched, BeforeRegs, BeforeRun, BeforeNative,
        AfterNative
  <2>5. SetsInv(t)'
    BY <1>1, <2>1, <2>2
    DEF StageInv, SetsInv, Outside, BeforeRegs, BeforeRun, BeforeNative, AfterNative
  <2>6. OperandsInv(t)' /\ AliasInv(t)'
    BY <2>2
    DEF OperandsInv, AliasInv, BeforeRegs, BeforeRun, BeforeNative, AfterNative, OperandsRead,
        Encoded
  <2>7. ResultsInv(t)'
    BY <1>1, <1>3, <2>1, <2>2, <2>3 DEF StageInv, ResultsInv, AfterNative
  <2>8. StageInv(t)'
    BY <2>4, <2>5, <2>6, <2>7 DEF StageInv
  <2> QED BY <1>1, <2>2, <2>8, OneThread
<1> QED BY <1>2, <1>3 DEF RestoreHandlers

------------------------------------------------------------------------------
(* The write-back. *)

(* A callback changes one part of the state of the thread's own client. *)
LEMMA ClientWrite ==
    ASSUME TypeOK, NEW t \in Threads, call'[t].ex = call[t].ex, NEW c,
           user' = [user EXCEPT ![call[t].ex] = c]
    PROVE  Client(t)' = c
BY DEF Client, TypeOK, CallsType, Call_, ClientsType

(* With one memory result, what WriteMem stores is the memory that the      *)
(* processor leaves.                                                        *)
LEMMA StoredMemory ==
    ASSUME NEW i \in Instrs, NEW p \in State, i.kind # "nop",
           \A s \in Stored(i) : /\ gMemory[s].address = Address(i, s, p.reg)
                                /\ gMemory[s].data = ISAEffect(i, p).slot[s]
    PROVE  MemoryWith(p.mem, Stored(i)) = ISA(i, p).mem
<1> DEFINE S == Stored(i)
           out == ISAEffect(i, p)
           new == ISA(i, p).mem
<1>1. \A s, k \in S : s = k
  BY InstrFacts DEF Slots, Stored
<1>2. \A s \in S : gMemory[s].address = Address(i, s, p.reg) /\ gMemory[s].data = out.slot[s]
  OBVIOUS
<1> DEFINE stored(a) == IF \E s \in S : gMemory[s].address = a
                       THEN gMemory[CHOOSE s \in S : gMemory[s].address = a].data
                       ELSE p.mem[a]
           left(a) == IF \E k \in S : a = Address(i, k, p.reg)
                      THEN out.slot[CHOOSE k \in S : a = Address(i, k, p.reg)]
                      ELSE p.mem[a]
<1>3. new = [a \in Val |-> left(a)]
  BY ISAFields
<1>4. MemoryWith(p.mem, S) = [a \in Val |-> stored(a)]
  BY DEF MemoryWith
<1> HIDE DEF S, out, new
<1>5. ASSUME NEW a \in Val PROVE stored(a) = left(a)
  <2>1. (\E k \in S : a = Address(i, k, p.reg)) <=> (\E s \in S : gMemory[s].address = a)
    BY <1>2
  <2>2. ASSUME NEW k \in S, a = Address(i, k, p.reg)
        PROVE  gMemory[CHOOSE s \in S : gMemory[s].address = a].data =
               out.slot[CHOOSE s \in S : a = Address(i, s, p.reg)]
    <3>1. gMemory[k].address = a /\ gMemory[k].data = out.slot[k]
      BY <1>2, <2>2
    <3>2. (CHOOSE s \in S : gMemory[s].address = a) = k
      BY <1>1, <3>1
    <3>3. (CHOOSE s \in S : a = Address(i, s, p.reg)) = k
      BY <1>1, <2>2
    <3> QED BY <3>1, <3>2, <3>3
  <2> QED BY <2>1, <2>2
<1> HIDE DEF stored, left
<1>8. MemoryWith(p.mem, S) = new
  BY <1>3, <1>4, <1>5
<1> QED BY <1>8 DEF S, new

(* WriteMemory leaves the memory of the processor, or returns. *)
LEMMA WriteMemoryInv ==
    ASSUME SafetyInv, ValueInv, NEW t \in Threads, WriteMemory(t)
    PROVE  ValueInv'
<1> DEFINE i == gXedd
           p == pre[t]
<1>1. pc[t] = "writemem" /\ TypeOK /\ StageInv(t) /\ pc[t] \notin Outside
  BY DEF WriteMemory, SafetyInv, ValueInv, Outside
<1>2. CASE \E status : Leave(t, status)
  BY <1>1, <1>2, LeavesInv
<1>3. CASE /\ user' = [user EXCEPT ![call[t].ex].mem = MemoryWith(@, WriteBackSlots)]
           /\ Continue(t, "writefpu")
  <2>1. UNCHANGED <<pre, gXedd, gUsedRegs, gModifiedRegs, gStoreRegs, gRegs, gStackPtrAlias,
                    gFlags, gWriteBackFlags, gUsesFPU, gUsesMMX, gFPU, gMemory>>
    BY DEF WriteMemory, regVars, flagVars, fpuVars
  <2>2. pc'[t] = "writefpu" /\ call' = call /\ \A u \in Threads \ {t} : pc'[u] = pc[u]
    BY <1>1, <1>3, Goes
  <2>3. After(t)' = After(t) /\ Out(t)' = Out(t) /\ (Results(t)' <=> Results(t))
    <3>1. After(t)' = After(t) /\ Out(t)' = Out(t)
      BY <2>1, <2>2 DEF After, Out
    <3>2. UnaliasedRegs' = UnaliasedRegs /\ WriteBackSlots' = WriteBackSlots
      BY <2>1 DEF UnaliasedRegs, WriteBackSlots
    <3> QED BY <2>1, <2>2, <3>1, <3>2 DEF Results
  <2>4. Results(t) /\ Client(t) = p /\ i.kind # "nop" /\ i \in Instrs /\ p \in State
    BY <1>1 DEF StageInv, ResultsInv, ClientInv, KindInv, Untouched, TypeOK, CallsType,
                ClientsType
  <2>5. Client(t)' = [p EXCEPT !.mem = MemoryWith(p.mem, Stored(i))]
    <3>1. user' = [user EXCEPT ![call[t].ex] =
                     [Client(t) EXCEPT !.mem = MemoryWith(Client(t).mem, WriteBackSlots)]]
      BY <1>3 DEF Client
    <3>2. Client(t)' = [Client(t) EXCEPT !.mem = MemoryWith(Client(t).mem, WriteBackSlots)]
      BY <1>1, <2>2, <3>1, ClientWrite
    <3> QED BY <2>4, <3>2 DEF Results
  <2>6. Exchanged(i) => MemoryWith(p.mem, Stored(i)) = After(t).mem
    <3>1. Exchanged(i) =>
            \A s \in Stored(i) : /\ gMemory[s].address = Address(i, s, p.reg)
                                 /\ gMemory[s].data = ISAEffect(i, p).slot[s]
      BY <2>4 DEF Results, Out
    <3> HIDE DEF i, p
    <3>2. Exchanged(i) => MemoryWith(p.mem, Stored(i)) = ISA(i, p).mem
      BY <2>4, <3>1, StoredMemory
    <3> QED BY <3>2 DEF After, i, p
  <2>7. ClientInv(t)'
    BY <2>1, <2>2, <2>3, <2>5, <2>6
    DEF ClientInv, Untouched, BeforeRegs, BeforeRun, BeforeNative, AfterNative
  <2>8. KindInv(t)' /\ SetsInv(t)'
    BY <1>1, <2>1, <2>2
    DEF StageInv, KindInv, SetsInv, Outside, BeforeRegs, BeforeRun, BeforeNative, AfterNative
  <2>9. OperandsInv(t)' /\ AliasInv(t)'
    BY <2>2
    DEF OperandsInv, AliasInv, BeforeRegs, BeforeRun, BeforeNative, AfterNative, OperandsRead,
        Encoded
  <2>10. ResultsInv(t)'
    BY <1>1, <2>1, <2>2, <2>3, <2>4 DEF StageInv, ResultsInv, AfterNative
  <2>11. StageInv(t)'
    BY <2>7, <2>8, <2>9, <2>10 DEF StageInv
  <2> QED BY <1>1, <2>2, <2>11, OneThread
<1> QED BY <1>2, <1>3 DEF WriteMemory

(* The used MMX registers are taken from the FPU that the instruction left. *)
LEMMA WriteFPUInv ==
    ASSUME SafetyInv, ValueInv, NEW t \in Threads, WriteFPU(t)
    PROVE  ValueInv'
<1> DEFINE i == gXedd
           p == pre[t]
<1>1. pc[t] = "writefpu" /\ TypeOK /\ StageInv(t) /\ pc[t] \notin Outside
  BY DEF WriteFPU, SafetyInv, ValueInv, Outside
<1>2. CASE Leave(t, "kErrorWriteFPU")
  BY <1>1, <1>2, LeavesInv
<1>3. CASE /\ user' = IF gUsesFPU THEN [user EXCEPT ![call[t].ex].fpu = gFPU] ELSE user
           /\ gRegs' = IF gUsesMMX
                       THEN [r \in Regs |-> IF r \in MMXRegs \cap gUsedRegs THEN gFPU.mm[r]
                                                                            ELSE gRegs[r]]
                       ELSE gRegs
           /\ Continue(t, "writeflags")
  <2>1. UNCHANGED <<pre, gXedd, gUsedRegs, gModifiedRegs, gStoreRegs, gStackPtrAlias,
                    gFlags, gWriteBackFlags, gUsesFPU, gUsesMMX, gFPU, gMemory>>
    BY DEF WriteFPU, flagVars, fpuVars
  <2>2. pc'[t] = "writeflags" /\ call' = call /\ \A u \in Threads \ {t} : pc'[u] = pc[u]
    BY <1>1, <1>3, Goes
  <2>3. After(t)' = ISA(i, p) /\ Out(t)' = ISAEffect(i, p)
        /\ After(t) = ISA(i, p) /\ Out(t) = ISAEffect(i, p)
    BY <2>1 DEF After, Out
  <2>4. /\ Results(t) /\ i.kind # "nop" /\ i.ok /\ i \in Instrs /\ p \in State
        /\ gUsedRegs = {IP} \cup UsedFlags(i) \cup Needed(i)
        /\ gUsesMMX = UsesMMX(i) /\ gUsesFPU = UsesFPU(i)
        /\ Exchanged(i) => /\ Client(t) = [p EXCEPT !.mem = ISA(i, p).mem]
                           /\ UsesFPU(i) => gFPU = ISA(i, p).fpu
    BY <1>1, <2>3
    DEF StageInv, ResultsInv, ClientInv, KindInv, SetsInv, TypeOK, CallsType,
        ClientsType, Outside, BeforeRegs
  <2>5. /\ gRegs \in [Regs -> Val] /\ gStackPtrAlias \in AliasRegs \cup {NoReg}
        /\ Written(i, p.reg) \subseteq Needed(i) /\ Needed(i) \subseteq Regs
        /\ SP \in Regs \ MMXRegs /\ AliasRegs \subseteq Regs \ MMXRegs
    BY <1>1, <2>4, WrittenNeeded, InstrFacts, RegAssumption DEF TypeOK, RegsType
  <2>6. /\ \A r \in Written(i, p.reg) :
             ISA(i, p).reg[r] = IF r \in MMXRegs THEN ISAEffect(i, p).fpu.mm[r]
                                                 ELSE ISAEffect(i, p).reg[r]
        /\ ISA(i, p).fpu = IF UsesFPU(i) THEN ISAEffect(i, p).fpu ELSE p.fpu
    <3> HIDE DEF i, p
    <3> QED BY <2>4, ISAFields
  <2>7. ASSUME Exchanged(i)
        PROVE  \A r \in Written(i, p.reg) : UnaliasedRegs'[r] = ISA(i, p).reg[r]
    <3> SUFFICES ASSUME NEW r \in Written(i, p.reg)
                 PROVE  UnaliasedRegs'[r] = ISA(i, p).reg[r]
      OBVIOUS
    <3>1. CASE r \in MMXRegs
      <4>1. UsesMMX(i) /\ UsesFPU(i) /\ r \in gUsedRegs /\ r \in Regs /\ r # SP
        BY <2>4, <2>5, <3>1 DEF UsesMMX, UsesFPU
      <4>2. gRegs'[r] = gFPU.mm[r]
        BY <1>3, <2>4, <3>1, <4>1
      <4>3. UnaliasedRegs'[r] = gRegs'[r]
        BY <4>1 DEF UnaliasedRegs
      <4> QED BY <2>4, <2>6, <2>7, <3>1, <4>1, <4>2, <4>3
    <3>2. CASE r \notin MMXRegs
      <4>1. \A q \in Regs \ MMXRegs : gRegs'[q] = gRegs[q]
        BY <1>3
      <4>2. r \in Regs \ MMXRegs
        BY <2>5, <3>2
      <4>3. DOMAIN gRegs = Regs /\ DOMAIN gRegs' = Regs
        BY <1>3, <2>5
      <4>4. UnaliasedRegs'[r] = UnaliasedRegs[r]
        BY <2>1, <2>5, <4>1, <4>2, <4>3 DEF UnaliasedRegs
      <4> QED BY <2>3, <2>4, <2>7, <3>2, <4>4 DEF Results
    <3> QED BY <3>1, <3>2
  <2>8. Exchanged(i) => Client(t)' = [p EXCEPT !.mem = ISA(i, p).mem, !.fpu = ISA(i, p).fpu]
    <3> SUFFICES ASSUME Exchanged(i)
                 PROVE  Client(t)' = [p EXCEPT !.mem = ISA(i, p).mem, !.fpu = ISA(i, p).fpu]
      OBVIOUS
    <3>1. Client(t) = [p EXCEPT !.mem = ISA(i, p).mem]
      BY <2>4
    <3>2. CASE gUsesFPU
      <4>1. user' = [user EXCEPT ![call[t].ex] = [Client(t) EXCEPT !.fpu = gFPU]]
        BY <1>3, <3>2 DEF Client
      <4>2. Client(t)' = [Client(t) EXCEPT !.fpu = gFPU]
        BY <1>1, <2>2, <4>1, ClientWrite
      <4> QED BY <2>4, <3>1, <3>2, <4>2
    <3>3. CASE ~gUsesFPU
      <4>1. Client(t)' = Client(t)
        BY <1>3, <2>2, <3>3 DEF Client
      <4>2. ISA(i, p).fpu = p.fpu
        BY <2>4, <2>6, <3>3
      <4> QED BY <2>4, <3>1, <4>1, <4>2 DEF State
    <3> QED BY <3>2, <3>3
  <2>9. ClientInv(t)'
    BY <2>1, <2>2, <2>3, <2>8
    DEF ClientInv, Untouched, BeforeRegs, BeforeRun, BeforeNative, AfterNative
  <2>10. KindInv(t)' /\ SetsInv(t)'
    BY <1>1, <2>1, <2>2
    DEF StageInv, KindInv, SetsInv, Outside, BeforeRegs, BeforeRun, BeforeNative, AfterNative
  <2>11. OperandsInv(t)' /\ AliasInv(t)'
    BY <2>2
    DEF OperandsInv, AliasInv, BeforeRegs, BeforeRun, BeforeNative, AfterNative, OperandsRead,
        Encoded
  <2>12. ResultsInv(t)'
    <3>1. Exchanged(i) => /\ \A f \in i.fwrite : gFlags'[f] = ISA(i, p).flag[f]
                          /\ call'[t].next = ISA(i, p).reg[IP]
                          /\ i.kind = "native" => ISAEffect(i, p).sig = "none"
      BY <2>1, <2>2, <2>3, <2>4 DEF Results
    <3> QED BY <2>1, <2>2, <2>3, <2>7, <3>1 DEF ResultsInv, AfterNative
  <2>13. StageInv(t)'
    BY <2>9, <2>10, <2>11, <2>12 DEF StageInv
  <2> QED BY <1>1, <2>2, <2>13, OneThread
<1> QED BY <1>2, <1>3 DEF WriteFPU

(* What an instruction leaves alone, a skipped one too. *)
LEMMA ISAFrame ==
    ASSUME NEW i \in Instrs, NEW p \in State
    PROVE  /\ ISA(i, p) \in State
           /\ \A f \in Flags \ i.fwrite : ISA(i, p).flag[f] = p.flag[f]
           /\ \A r \in Regs \ (Written(i, p.reg) \cup {IP}) : ISA(i, p).reg[r] = p.reg[r]
<1>1. CASE i.kind = "nop"
  BY <1>1, ISANop, RegAssumption DEF State
<1>2. CASE i.kind # "nop"
  BY <1>2, ISAFields
<1> QED BY <1>1, <1>2

(* A machine state is its four parts. *)
LEMMA StateParts ==
    ASSUME NEW p \in State, NEW new \in State, NEW c,
           c = [p EXCEPT !.mem = new.mem, !.fpu = new.fpu]
    PROVE  /\ c.flag = p.flag
           /\ new.flag = p.flag => c = [new EXCEPT !.reg = p.reg]
           /\ [c EXCEPT !.flag = new.flag] = [new EXCEPT !.reg = p.reg]
<1>1. p.reg \in [Regs -> Val] /\ new.flag \in [Flags -> Bit] /\ new.mem \in [Val -> Val]
      /\ new.fpu \in FPU
  BY DEF State
<1>2. c = [reg |-> p.reg, flag |-> p.flag, mem |-> new.mem, fpu |-> new.fpu]
  BY <1>1 DEF State
<1>3. [new EXCEPT !.reg = p.reg]
      = [reg |-> p.reg, flag |-> new.flag, mem |-> new.mem, fpu |-> new.fpu]
  BY <1>1 DEF State
<1>4. [c EXCEPT !.flag = new.flag]
      = [reg |-> p.reg, flag |-> new.flag, mem |-> new.mem, fpu |-> new.fpu]
  <2>1. c \in State /\ c.reg = p.reg /\ c.mem = new.mem /\ c.fpu = new.fpu
    BY <1>1, <1>2 DEF State
  <2>2. \A d \in State, x \in [Flags -> Bit] :
          [d EXCEPT !.flag = x] = [reg |-> d.reg, flag |-> x, mem |-> d.mem, fpu |-> d.fpu]
    BY DEF State
  <2>3. [c EXCEPT !.flag = new.flag]
        = [reg |-> c.reg, flag |-> new.flag, mem |-> c.mem, fpu |-> c.fpu]
    BY <1>1, <2>1, <2>2
  <2> QED BY <2>1, <2>3
<1> QED BY <1>2, <1>3, <1>4

(* WriteFlags reports the flags that the instruction writes, and takes      *)
(* RFLAGS from the registers to report.                                     *)
LEMMA WriteFlagsInv ==
    ASSUME SafetyInv, ValueInv, NEW t \in Threads, WriteFlags(t)
    PROVE  ValueInv'
<1> DEFINE i == gXedd
           p == pre[t]
<1>1. pc[t] = "writeflags" /\ TypeOK /\ StageInv(t) /\ pc[t] \notin Outside
  BY DEF WriteFlags, SafetyInv, ValueInv, Outside
<1>2. CASE \E status : Leave(t, status)
  BY <1>1, <1>2, LeavesInv
<1>3. CASE Continue(t, "writeregs")
  <2>1. UNCHANGED <<pre, gXedd, gStoreRegs, gRegs, gStackPtrAlias, gFlags, gUsesFPU, gUsesMMX,
                    gFPU, gMemory>>
    BY DEF WriteFlags, fpuVars
  <2>2. pc'[t] = "writeregs" /\ call' = call /\ \A u \in Threads \ {t} : pc'[u] = pc[u]
    BY <1>1, <1>3, Goes
  <2>3. After(t)' = ISA(i, p) /\ Out(t)' = Out(t) /\ After(t) = ISA(i, p)
    BY <2>1 DEF After, Out
  <2>4. /\ i.ok /\ i \in Instrs /\ p \in State
        /\ gUsedRegs = {IP} \cup UsedFlags(i) \cup Needed(i)
        /\ gModifiedRegs = {IP} \cup ModifiedFlags(i) \cup Elems(i.wr)
                                \cup (IF Skipped(i, p.reg) THEN {} ELSE i.inc)
        /\ gWriteBackFlags = i.fwrite
        /\ Exchanged(i) =>
             /\ Client(t) = [p EXCEPT !.mem = ISA(i, p).mem, !.fpu = ISA(i, p).fpu]
             /\ \A r \in Written(i, p.reg) : UnaliasedRegs[r] = ISA(i, p).reg[r]
             /\ \A f \in i.fwrite : gFlags[f] = ISA(i, p).flag[f]
             /\ call[t].next = ISA(i, p).reg[IP]
             /\ i.kind = "native" => Out(t).sig = "none"
    BY <1>1, <2>3
    DEF StageInv, ResultsInv, ClientInv, KindInv, SetsInv, TypeOK, CallsType,
        ClientsType, Outside, BeforeRegs
  <2>5. /\ ISA(i, p) \in State
        /\ \A f \in Flags \ i.fwrite : ISA(i, p).flag[f] = p.flag[f]
        /\ i.fwrite \subseteq Flags /\ FL # IP
        /\ Elems(i.wr) \subseteq Needed(i) /\ i.inc \subseteq Needed(i) \ {FL, IP}
    <3>1. Elems(i.wr) \subseteq Needed(i)
      BY DEF Needed
    <3> HIDE DEF i, p
    <3> QED BY <2>4, <3>1, ISAFrame, InstrFacts, RegAssumption
  <2>6. FL \notin gModifiedRegs => i.fwrite = {}
    BY <2>4 DEF ModifiedFlags
  <2>7. IP \in gUsedRegs' /\ WriteBackRegs' = Written(i, p.reg)
    <3>1. /\ gUsedRegs' \ {FL} = gUsedRegs \ {FL} /\ gModifiedRegs' \ {FL} = gModifiedRegs \ {FL}
          /\ FL \notin gModifiedRegs'
      BY <1>1, <1>3 DEF WriteFlags, WithoutFlags
    <3>2. IP \in gUsedRegs'
      BY <2>4, <2>5, <3>1
    <3>3. \A r : r \in WriteBackRegs' <=>
                 r \in (gUsedRegs \ {FL}) \cap (gModifiedRegs \ {FL}) /\ r # IP
      BY <3>1 DEF WriteBackRegs
    <3>4. \A r : r \in (gUsedRegs \ {FL}) \cap (gModifiedRegs \ {FL}) /\ r # IP
                 <=> r \in Written(i, p.reg)
      <4>1. \A r : r \in gModifiedRegs \ {FL, IP} <=> r \in Written(i, p.reg)
        BY <2>4 DEF ModifiedFlags, Written
      <4>2. Written(i, p.reg) \subseteq gUsedRegs \ {FL, IP}
        BY <2>4, <2>5 DEF Written
      <4> QED BY <4>1, <4>2
    <3> QED BY <3>2, <3>3, <3>4
  <2>8. Exchanged(i) => Client(t)' = [ISA(i, p) EXCEPT !.reg = p.reg]
    <3> SUFFICES ASSUME Exchanged(i)
                 PROVE  Client(t)' = [ISA(i, p) EXCEPT !.reg = p.reg]
      OBVIOUS
    <3> DEFINE new == ISA(i, p)
    <3>1. Client(t) = [p EXCEPT !.mem = new.mem, !.fpu = new.fpu] /\ new \in State
      BY <2>4, <2>5
    <3>2. new.flag \in [Flags -> Bit] /\ p.flag \in [Flags -> Bit]
      BY <2>4, <3>1 DEF State
    <3>3. CASE FL \notin gModifiedRegs
      <4>1. Client(t)' = Client(t)
        BY <1>1, <2>2, <3>3 DEF WriteFlags, Client
      <4>2. new.flag = p.flag
        BY <2>5, <2>6, <3>2, <3>3
      <4> HIDE DEF new
      <4>3. Client(t)' = [new EXCEPT !.reg = p.reg]
        <5> HIDE DEF p
        <5> QED BY <2>4, <3>1, <4>1, <4>2, StateParts
      <4> QED BY <4>3 DEF new
    <3>4. CASE FL \in gModifiedRegs
      <4>1. user' = [user EXCEPT ![call[t].ex].flag = FlagsWith(@, gWriteBackFlags)]
        BY <1>1, <1>3, <2>2, <3>4 DEF WriteFlags, Leave, TypeOK, CallsType
      <4>2. user' = [user EXCEPT ![call[t].ex] =
                       [Client(t) EXCEPT !.flag = FlagsWith(Client(t).flag, i.fwrite)]]
        BY <2>4, <4>1 DEF Client
      <4>3. Client(t)' = [Client(t) EXCEPT !.flag = FlagsWith(Client(t).flag, i.fwrite)]
        BY <1>1, <2>2, <4>2, ClientWrite
      <4> HIDE DEF new
      <4>4. FlagsWith(p.flag, i.fwrite) = new.flag
        BY <2>4, <2>5, <3>2 DEF FlagsWith, new
      <4>5. Client(t).flag = p.flag
            /\ [Client(t) EXCEPT !.flag = new.flag] = [new EXCEPT !.reg = p.reg]
        <5> DEFINE c == Client(t)
        <5>1. c = [p EXCEPT !.mem = new.mem, !.fpu = new.fpu] /\ new \in State /\ p \in State
          BY <2>4, <3>1
        <5> HIDE DEF p, c
        <5>2. c.flag = p.flag
          BY <5>1 DEF State
        <5>3. [c EXCEPT !.flag = new.flag] = [new EXCEPT !.reg = p.reg]
          BY <5>1, StateParts, Zenon
        <5> QED BY <5>2, <5>3 DEF c
      <4>6. Client(t)' = [new EXCEPT !.reg = p.reg]
        BY <4>3, <4>4, <4>5
      <4> QED BY <4>6 DEF new
    <3> QED BY <3>3, <3>4
  <2>9. ClientInv(t)'
    BY <2>1, <2>2, <2>3, <2>8
    DEF ClientInv, Untouched, BeforeRegs, BeforeRun, BeforeNative, AfterNative
  <2>10. KindInv(t)' /\ SetsInv(t)'
    BY <2>1, <2>2, <2>4, <2>7
    DEF KindInv, SetsInv, Outside, BeforeRegs, BeforeRun, BeforeNative, AfterNative
  <2>11. OperandsInv(t)' /\ AliasInv(t)'
    BY <2>2
    DEF OperandsInv, AliasInv, BeforeRegs, BeforeRun, BeforeNative, AfterNative, OperandsRead,
        Encoded
  <2>12. ResultsInv(t)'
    <3>1. UnaliasedRegs' = UnaliasedRegs
      BY <2>1 DEF UnaliasedRegs
    <3> QED BY <2>1, <2>2, <2>3, <2>4, <3>1 DEF ResultsInv, AfterNative
  <2>13. StageInv(t)'
    BY <2>9, <2>10, <2>11, <2>12 DEF StageInv
  <2> QED BY <1>1, <2>2, <2>13, OneThread
<1> QED BY <1>2, <1>3 DEF WriteFlags

(* WriteRegisters completes what the client sees of the instruction. *)
LEMMA WriteRegistersInv ==
    ASSUME SafetyInv, ValueInv, NEW t \in Threads, WriteRegisters(t)
    PROVE  ValueInv'
<1> DEFINE i == gXedd
           p == pre[t]
           new == ISA(i, p)
<1>1. pc[t] = "writeregs" /\ TypeOK /\ StageInv(t) /\ pc[t] \notin Outside
  BY DEF WriteRegisters, SafetyInv, ValueInv, Outside
<1>2. CASE \E status : Leave(t, status)
  BY <1>1, <1>2, LeavesInv
<1>3. CASE /\ user' = [user EXCEPT ![call[t].ex].reg =
                         RegistersWith(@, WriteBackRegs \cup (gUsedRegs \cap {IP}))]
           /\ pc' = [pc EXCEPT ![t] = "loop"]
           /\ call' = [call EXCEPT ![t].num = @ + 1]
  <2>1. UNCHANGED <<pre, gXedd>>
    BY DEF WriteRegisters
  <2>2. pc'[t] = "loop" /\ call'[t].ex = call[t].ex
        /\ \A u \in Threads \ {t} : pc'[u] = pc[u] /\ call'[u] = call[u]
    BY <1>1, <1>3 DEF TypeOK, CallsType, Call_
  <2>3. gRegs' = [UnaliasedRegs EXCEPT ![IP] = call[t].next] /\ gStackPtrAlias' = NoReg
    BY DEF WriteRegisters
  <2>4. /\ i \in Instrs /\ p \in State /\ IP \in gUsedRegs
        /\ WriteBackRegs = Written(i, p.reg) /\ gRegs \in [Regs -> Val]
        /\ Exchanged(i) =>
             /\ Client(t) = [new EXCEPT !.reg = p.reg]
             /\ \A r \in Written(i, p.reg) : UnaliasedRegs[r] = new.reg[r]
             /\ call[t].next = new.reg[IP]
    BY <1>1
    DEF StageInv, ResultsInv, ClientInv, SetsInv, TypeOK, CallsType, RegsType,
        ClientsType, Outside, BeforeRegs, After
  <2>5. /\ new \in State /\ Written(i, p.reg) \subseteq Regs \ {IP} /\ IP \in Regs
        /\ \A r \in Regs \ (Written(i, p.reg) \cup {IP}) : new.reg[r] = p.reg[r]
    <3> HIDE DEF i, p
    <3> QED BY <2>4, ISAFrame, WrittenNeeded, InstrFacts, RegAssumption DEF new
  <2>6. ASSUME Exchanged(i) PROVE Client(t)' = new
    <3> HIDE DEF new
    <3>1. DOMAIN UnaliasedRegs = Regs
      BY <2>4 DEF UnaliasedRegs
    <3>2. \A r \in Written(i, p.reg) \cup {IP} : gRegs'[r] = new.reg[r]
      BY <2>3, <2>4, <2>5, <2>6, <3>1
    <3>3. new.reg \in [Regs -> Val] /\ p.reg \in [Regs -> Val]
      BY <2>4, <2>5 DEF State
    <3>4. RegistersWith(p.reg, Written(i, p.reg) \cup {IP}) = new.reg
      BY <2>5, <3>2, <3>3 DEF RegistersWith
    <3>5. WriteBackRegs \cup (gUsedRegs \cap {IP}) = Written(i, p.reg) \cup {IP}
      BY <2>4
    <3>6. user' = [user EXCEPT ![call[t].ex] =
                     [Client(t) EXCEPT
                        !.reg = RegistersWith(Client(t).reg, Written(i, p.reg) \cup {IP})]]
      BY <1>3, <3>5 DEF Client
    <3>7. Client(t)' = [Client(t) EXCEPT
                          !.reg = RegistersWith(Client(t).reg, Written(i, p.reg) \cup {IP})]
      BY <1>1, <2>2, <3>6, ClientWrite
    <3>8. Client(t) = [new EXCEPT !.reg = p.reg]
      BY <2>4, <2>6
    <3> HIDE DEF p, i
    <3>9. Client(t).reg = p.reg
      BY <2>5, <3>8 DEF State
    <3>10. Client(t)' = [Client(t) EXCEPT !.reg = new.reg]
      BY <3>4, <3>7, <3>9
    <3> QED BY <2>5, <3>8, <3>10 DEF State
  <2>7. ClientInv(t)'
    BY <2>1, <2>2, <2>6
    DEF ClientInv, Untouched, BeforeRegs, BeforeRun, BeforeNative, AfterNative, After
  <2>8. StageInv(t)'
    BY <2>2, <2>7
    DEF StageInv, SetsInv, KindInv, OperandsInv, AliasInv, ResultsInv, Outside, Untouched,
        BeforeRegs, BeforeRun, BeforeNative, AfterNative, Encoded, OperandsRead
  <2> QED BY <1>1, <2>2, <2>8, OneThread
<1> QED BY <1>2, <1>3 DEF WriteRegisters

------------------------------------------------------------------------------
(* The calls. *)

(* Entering, leaving and refusing a call. *)
LEMMA CallsInv ==
    ASSUME SafetyInv, ValueInv, NEW t \in Threads,
           InitExecutor(t) \/ Call(t) \/ Lock(t) \/ Finish(t) \/ Return(t)
    PROVE  ValueInv'
<1>1. TypeOK /\ MutualExclusion /\ StageInv(t) /\ \A u \in Threads : StageInv(u)
  BY DEF SafetyInv, ValueInv
<1>2. pc \in [Threads -> Stages] /\ call \in [Threads -> Call_]
  BY <1>1 DEF TypeOK, CallsType
<1>3. LockIsFree => \A u \in Threads : pc[u] \in Outside
  BY <1>1, ThreadAssumption DEF MutualExclusion, LockIsFree
<1>4. CASE InitExecutor(t)
  <2>1. LockIsFree /\ pc' = pc /\ call' = call
    BY <1>4 DEF InitExecutor, callVars
  <2> QED BY <1>3, <2>1, StaysOutside DEF ValueInv
<1>5. CASE Call(t)
  <2>1. /\ pc'[t] \in {"ret", "lock"} /\ call'[t].num = 0
        /\ \A u \in Threads \ {t} : pc'[u] = pc[u] /\ call'[u] = call[u]
    BY <1>2, <1>5 DEF Call
  <2>2. UNCHANGED valueVars
    BY <1>5 DEF Call, valueVars, fpuVars, sigVars
  <2>3. \A u \in Threads \ {t} : StageInv(u)'
    BY <1>1, <2>1, <2>2, FrameInv
  <2>4. StageInv(t)'
    BY <2>1, OutsideNext DEF Outside
  <2> QED BY <2>3, <2>4 DEF ValueInv
<1>6. CASE Lock(t)
  <2>1. /\ pc[t] = "lock" /\ LockIsFree
        /\ \A u \in Threads \ {t} : pc'[u] = pc[u] /\ call'[u] = call[u]
        /\ \/ pc'[t] = "loop" /\ call'[t] = call[t]
           \/ pc'[t] = "ret"
    BY <1>2, <1>6 DEF Lock, Leave
  <2>2. \A u \in Threads \ {t} : StageInv(u)'
    BY <1>3, <2>1, StaysOutside
  <2>3. CASE pc'[t] = "loop" /\ call'[t] = call[t]
    <3>1. call'[t].num = 0
      BY <1>1, <2>1, <2>3 DEF StageInv, ClientInv
    <3>2. StageInv(t)'
      BY <2>3, <3>1
      DEF StageInv, ClientInv, SetsInv, KindInv, OperandsInv, AliasInv, ResultsInv, Outside,
          Untouched, BeforeRegs, BeforeRun, BeforeNative, AfterNative, Encoded, OperandsRead
    <3> QED BY <2>2, <3>2 DEF ValueInv
  <2>4. CASE pc'[t] = "ret"
    <3>1. StageInv(t)'
      BY <2>4, OutsideNext DEF Outside
    <3> QED BY <2>2, <3>1 DEF ValueInv
  <2> QED BY <2>1, <2>3, <2>4
<1>7. CASE Finish(t)
  BY <1>7, LeavesInv DEF Finish, Outside
<1>8. CASE Return(t)
  <2>1. /\ pc'[t] = "idle" /\ call' = call
        /\ \A u \in Threads \ {t} : pc'[u] = pc[u]
    BY <1>2, <1>8 DEF Return
  <2>2. UNCHANGED valueVars
    BY <1>8 DEF Return, valueVars, fpuVars, sigVars
  <2>3. \A u \in Threads \ {t} : StageInv(u)'
    BY <1>1, <2>1, <2>2, FrameInv
  <2>4. StageInv(t)'
    BY <2>1, OutsideNext DEF Outside
  <2> QED BY <2>3, <2>4 DEF ValueInv
<1> QED BY <1>4, <1>5, <1>6, <1>7, <1>8

LEMMA InitValue == Init => ValueInv
<1> SUFFICES ASSUME Init, NEW t \in Threads PROVE StageInv(t)
  BY DEF ValueInv
<1>1. pc[t] = "idle"
  BY DEF Init
<1> QED BY <1>1, OutsideInv DEF Outside

LEMMA NextValue == SafetyInv /\ ValueInv /\ [Next]_vars => ValueInv'
<1> SUFFICES ASSUME SafetyInv, ValueInv, [Next]_vars PROVE ValueInv'
  OBVIOUS
<1>1. ASSUME NEW t \in Threads, InitExecutor(t) \/ Call(t) \/ Progress(t) PROVE ValueInv'
  BY <1>1, CallsInv, BeginInv, ReadPCInv, FetchInv, ReadFlagsInv, ReadRegistersInv, ReadFPUInv,
     ReadMemoryInv, EmulateInv, EncodeInv, PrepareInv, ExecuteNativeInv, StoreFPUInv,
     RestoreHandlersInv, WriteMemoryInv, WriteFPUInv, WriteFlagsInv, WriteRegistersInv
  DEF Progress
<1>2. CASE UNCHANGED vars
  <2>1. pc' = pc /\ call' = call /\ UNCHANGED valueVars
    BY <1>2 DEF vars, callVars, valueVars, fpuVars, sigVars
  <2> QED BY <2>1, FrameInv DEF ValueInv
<1> QED BY <1>1, <1>2 DEF Next, Done

(* At every stage of every instruction the globals hold what this           *)
(* instruction needs of its own client's machine, and nothing that an       *)
(* earlier instruction, another client or an aborted call left in them.     *)
THEOREM ValueInvariant == Spec => []ValueInv
<1>1. Init => SafetyInv /\ ValueInv
  BY InitSafety, InitValue
<1>2. SafetyInv /\ ValueInv /\ [Next]_vars => SafetyInv' /\ ValueInv'
  BY NextSafety, NextValue
<1> QED BY <1>1, <1>2, PTL DEF Spec

=============================================================================
