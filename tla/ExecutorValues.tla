---------------------------- MODULE ExecutorValues ----------------------------
(***************************************************************************)
(* What the globals hold at each stage of the loop body of Execute, in     *)
(* terms of the state the client's machine had when the instruction began: *)
(* why an instruction that retires has the effect it has on a processor.   *)
(***************************************************************************)
EXTENDS Executor

(* ExecuteNative gives the JITed instruction every register it works on: the *)
(* stack pointer by way of its alias, the MMX registers by way of the FPU.  *)
(* It does not for XMM8 and up, and then the host's values get in.          *)
Exchanged(i) ==
    i.kind = "native" => Operands(i) \ (MMXRegs \cup {FL, IP, SP}) \subseteq NativeRegs

AllExchanged == \A i \in Instrs : Exchanged(i)

(* The client's machine after the instruction, and what the processor       *)
(* computes for it.                                                         *)
After(t) == ISA(gXedd, pre[t])
Out(t) == ISAEffect(gXedd, pre[t])

(* Stages by what has happened before them. *)
BeforeRegs   == {"readpc", "fetch", "readflags", "readregs"}
BeforeRun    == {"readfpu", "readmem", "emulate"}
BeforeNative == {"encode", "install", "loadfpu", "sigsetjmp", "native"}
AfterNative  == {"storefpu", "restore"}
Encoded      == {"install", "loadfpu", "sigsetjmp", "native"}
Untouched    == BeforeRegs \cup BeforeRun \cup BeforeNative \cup AfterNative \cup {"writemem"}
OperandsRead == BeforeRun \cup BeforeNative

(* The client sees nothing of the instruction before WriteMemory, and then  *)
(* one part of its state after the other.                                   *)
ClientInv(t) ==
    /\ pc[t] = "lock" => call[t].num = 0
    /\ pc[t] \in Untouched => Client(t) = pre[t]
    /\ Exchanged(gXedd) =>
         /\ pc[t] = "writefpu" => Client(t) = [pre[t] EXCEPT !.mem = After(t).mem]
         /\ pc[t] = "writeflags" =>
              Client(t) = [pre[t] EXCEPT !.mem = After(t).mem, !.fpu = After(t).fpu]
         /\ pc[t] = "writeregs" => Client(t) = [After(t) EXCEPT !.reg = pre[t].reg]
         /\ pc[t] = "loop" /\ call[t].num > 0 => Client(t) = After(t)

(* RFLAGS counts as used when XED has flag information, and as modified     *)
(* when a flag is written.                                                  *)
UsedFlags(i) == IF i.rflags THEN {FL} ELSE {}
ModifiedFlags(i) == IF i.fwrite # {} THEN {FL} ELSE {}

(* The registers whose storage has the client's values. *)
Stores(i) == ({IP} \cup Needed(i)) \ {FL}

(* The register sets. *)
SetsInv(t) ==
    LET i == gXedd
    IN  /\ pc[t] = "readpc" => gUsedRegs = {} /\ gModifiedRegs = {} /\ gStoreRegs = {}
        /\ pc[t] \in {"fetch", "readflags"} =>
             gUsedRegs = {IP} /\ gModifiedRegs = {IP} /\ gStoreRegs = {IP}
        /\ pc[t] = "readregs" =>
             /\ gUsedRegs = {IP} \cup UsedFlags(i) /\ gStoreRegs = {IP}
             /\ gModifiedRegs = {IP} \cup ModifiedFlags(i)
        /\ pc[t] \notin Outside \cup BeforeRegs \cup {"loop", "writeregs"} =>
             /\ gUsedRegs = {IP} \cup UsedFlags(i) \cup Needed(i)
             /\ gStoreRegs = Stores(i)
             /\ gUsesMMX = UsesMMX(i) /\ gUsesFPU = UsesFPU(i)
        /\ pc[t] \in BeforeRun =>
             gModifiedRegs = {IP} \cup ModifiedFlags(i) \cup Elems(i.wr)
        /\ pc[t] \in BeforeNative \cup AfterNative \cup {"writemem", "writefpu", "writeflags"} =>
             gModifiedRegs = {IP} \cup ModifiedFlags(i) \cup Elems(i.wr)
                                  \cup (IF Skipped(i, pre[t].reg) THEN {} ELSE i.inc)
        /\ pc[t] = "writeregs" =>
             IP \in gUsedRegs /\ WriteBackRegs = Written(i, pre[t].reg)
        /\ pc[t] \notin Outside \cup {"loop", "readpc", "fetch", "readflags", "writeregs"} =>
             gWriteBackFlags = i.fwrite

(* The kind of instruction that a stage is for. *)
KindInv(t) ==
    /\ pc[t] \notin Outside \cup {"loop", "readpc", "fetch"} => gXedd.ok
    /\ pc[t] \in BeforeRun => gXedd.kind # "nop"
    /\ pc[t] \in BeforeNative \cup AfterNative => gXedd.kind = "native"
    /\ pc[t] \in {"writemem", "writefpu"} => gXedd.kind \in {"emulated", "native"}

(* Memory operand s of the instruction has been read for the state p. *)
SlotRead(s, p) ==
    /\ (gMemory[s].present <=> s \in Addressed(gXedd))
    /\ s \in Addressed(gXedd) => /\ gMemory[s].write_back = gXedd.mem[s].written
                                 /\ gMemory[s].address = Address(gXedd, s, p.reg)
    /\ s \in Loaded(gXedd) => gMemory[s].data = p.mem[Address(gXedd, s, p.reg)]

(* The operands have the client's values until the instruction runs. *)
OperandsInv(t) ==
    LET i == gXedd
        p == pre[t]
    IN  /\ pc[t] \in BeforeRegs \ {"readpc"} => gRegs[IP] = p.reg[IP]
        /\ pc[t] \in OperandsRead \cup {"readregs"} =>
             \A f \in FlagsIn(i) : gFlags[f] = p.flag[f]
        /\ pc[t] \in OperandsRead => \A r \in Stores(i) : gRegs[r] = p.reg[r]
        /\ pc[t] \in OperandsRead \cup AfterNative => call[t].next = Fall(p.reg[IP])
        /\ pc[t] \in (OperandsRead \ {"readfpu", "sigsetjmp", "native"}) /\ UsesFPU(i) =>
             gFPU = MergeMMX(i, p.fpu, p.reg)
        /\ pc[t] \in {"sigsetjmp", "native"} /\ UsesFPU(i) =>
             hwFPU[t] = MergeMMX(i, p.fpu, p.reg)
        /\ pc[t] \in OperandsRead \ {"readfpu", "readmem"} => \A s \in Slots : SlotRead(s, p)

(* The stack pointer's alias holds nothing else that the instruction needs. *)
AliasInv(t) ==
    /\ pc[t] \in BeforeRegs \cup BeforeRun \cup {"encode"} => gStackPtrAlias = NoReg
    /\ pc[t] \in Encoded =>
         IF SP \in Operands(gXedd)
         THEN /\ gStackPtrAlias \in AliasRegs \ Needed(gXedd)
              /\ gRegs[gStackPtrAlias] = pre[t].reg[SP]
         ELSE gStackPtrAlias = NoReg

(* The results that do not go by way of the FPU are in the globals. *)
Results(t) ==
    LET i == gXedd
        p == pre[t]
    IN  /\ WriteBackSlots = Stored(i)
        /\ Exchanged(i) =>
             /\ \A r \in Written(i, p.reg) \ MMXRegs : UnaliasedRegs[r] = After(t).reg[r]
             /\ \A f \in i.fwrite : gFlags[f] = After(t).flag[f]
             /\ \A s \in Stored(i) : /\ gMemory[s].address = Address(i, s, p.reg)
                                     /\ gMemory[s].data = Out(t).slot[s]
             /\ call[t].next = After(t).reg[IP]
             /\ i.kind = "native" => Out(t).sig = "none"

(* After the instruction has run, its results are in place, or gSignal is   *)
(* the signal it raised; an instruction that was not run is SIGILL.         *)
ResultsInv(t) ==
    /\ pc[t] \in {"loadfpu", "sigsetjmp", "native"} => gSignal = "none"
    /\ pc[t] \in AfterNative /\ gSignal = "none" => Results(t)
    /\ pc[t] \in {"writemem", "writefpu"} => Results(t)
    /\ Exchanged(gXedd) =>
         /\ pc[t] \in AfterNative /\ gSignal \notin {"none", "SIGILL"} => gSignal = Out(t).sig
         /\ pc[t] = "storefpu" /\ gSignal = "none" /\ UsesFPU(gXedd) =>
              hwFPU[t] = After(t).fpu
         /\ pc[t] = "restore" /\ gSignal = "none" /\ UsesFPU(gXedd) => gFPU = After(t).fpu
         /\ pc[t] \in {"writemem", "writefpu"} /\ UsesFPU(gXedd) => gFPU = After(t).fpu
         /\ pc[t] \in {"writeflags", "writeregs"} =>
              /\ \A r \in Written(gXedd, pre[t].reg) : UnaliasedRegs[r] = After(t).reg[r]
              /\ pc[t] = "writeflags" => \A f \in gXedd.fwrite : gFlags[f] = After(t).flag[f]
              /\ call[t].next = After(t).reg[IP]
              /\ gXedd.kind = "native" => Out(t).sig = "none"

(* All of it. *)
StageInv(t) ==
    /\ ClientInv(t) /\ SetsInv(t) /\ KindInv(t) /\ OperandsInv(t) /\ AliasInv(t)
    /\ ResultsInv(t)

(* Whatever an earlier instruction, another client, the host or an aborted  *)
(* call left in the globals, at every stage of the loop body they hold what *)
(* the current instruction needs of its client's machine, and once it has   *)
(* run, what the processor computes from that: the inductive invariant      *)
(* behind StepCorrect.                                                      *)
ValueInv == \A t \in Threads : StageInv(t)
==============================================================================
