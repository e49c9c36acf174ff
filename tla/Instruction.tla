----------------------------- MODULE Instruction -----------------------------
(***************************************************************************)
(* What the executor knows of one x86 instruction, and what the processor  *)
(* does with it.                                                           *)
(*                                                                         *)
(* XED, the decoder library, is external: a decoded instruction is the     *)
(* record of the facts that Executor.cpp asks it for (operands, flags,     *)
(* memory operands, the group of Emulate's cases its iform falls in).      *)
(* Sem is the effect of the instruction on its operands, whoever computes  *)
(* it: the processor for a JITed instruction, Emulate for the others.      *)
(* ISA is the reference: the machine state that one execution must leave.  *)
(***************************************************************************)
EXTENDS Integers, Sequences

CONSTANTS
    Val,            \* machine words: register values, addresses, PCs
    Zero,           \* the word that memset leaves
    Regs,           \* widest registers, numbered in the order of xed_reg_enum_t
    FL, IP, SP,     \* RFLAGS, RIP and RSP among them
    CountReg,       \* RCX
    MMXRegs,        \* the MMX registers
    AliasRegs,      \* RAX, RCX, RDX, RBX: candidates to stand for RSP
    NativeRegs,     \* the registers that ExecuteNative loads and stores
    Flags,          \* CF PF AF ZF SF DF OF, numbered in the order they are visited
    Instrs,         \* the decoded instructions
    Fall(_),        \* the PC after the instruction at a PC
    Address(_, _, _), \* the address of a memory operand: instruction, slot, registers
    Sem(_, _)       \* the effect of an instruction on its operands

Bit == {0, 1}
Slots == {0, 1}     \* MEM0 (or AGEN) and MEM1
Signals == {"SIGILL", "SIGBUS", "SIGSEGV", "SIGFPE"}

(* The parts of an FXSAVE area that the executor tells apart: the MMX       *)
(* halves of the ST registers, and everything else.                         *)
FPU == [st : Val, mm : [MMXRegs -> Val]]

(* The machine state a client keeps behind the callbacks of an Executor.    *)
State == [reg  : [Regs -> Val],
          flag : [Flags -> Bit],
          mem  : [Val -> Val],
          fpu  : FPU]

(* kind: how Execute treats the instruction: skipped (NOP, WIDENOP), handled *)
(* by Emulate, refused by Emulate, or left to the JIT.                       *)
Kinds == {"nop", "emulated", "cfi", "stack", "native"}

Memop == [has : BOOLEAN, written : BOOLEAN, agen : BOOLEAN]

Instr == [kind   : Kinds,
          ok     : BOOLEAN,           \* passes UsesUnsupportedFeatures
          rflags : BOOLEAN,           \* XED has flag information for it
          fread  : SUBSET Flags,
          fwrite : SUBSET Flags,
          may    : BOOLEAN,           \* it writes its flags conditionally
          addr   : Seq(Regs),         \* base and index registers
          rd     : Seq(Regs),         \* register operands that are only read
          wr     : Seq(Regs),         \* register operands that are written
          inc    : SUBSET Regs,       \* index registers a string operation moves
          rep    : BOOLEAN,
          x87    : BOOLEAN,           \* has an x87 or pseudo-x87 operand
          mem    : [Slots -> Memop]]

Elems(s) == {s[k] : k \in DOMAIN s}

(* The registers an instruction gets through ReadRegisters, and the ones of *)
(* them that its effect depends on: the JITed form of a memory operand is   *)
(* an absolute address, so its base and index matter to Emulate only.       *)
Needed(i) == Elems(i.addr) \cup Elems(i.rd) \cup Elems(i.wr)
Operands(i) == IF i.kind = "native" THEN Elems(i.rd) \cup Elems(i.wr) ELSE Needed(i)

(* "Conditional writes to flags are implicit read dependencies."            *)
FlagsIn(i) == i.fread \cup (IF i.may THEN i.fwrite ELSE {})

UsesMMX(i) == Needed(i) \cap MMXRegs # {}
UsesFPU(i) == i.x87 \/ UsesMMX(i)
Loaded(i) == {s \in Slots : i.mem[s].has /\ ~i.mem[s].agen}
Addressed(i) == {s \in Slots : i.mem[s].has}
Stored(i) == {s \in Slots : i.mem[s].has /\ i.mem[s].written}

(* A REP instruction with a zero count does nothing but move on.            *)
Skipped(i, reg) == i.rep /\ reg[CountReg] = Zero

Written(i, reg) == (Elems(i.wr) \cup (IF Skipped(i, reg) THEN {} ELSE i.inc)) \ {FL, IP}

NoFPU == [st |-> Zero, mm |-> [m \in MMXRegs |-> Zero]]

(* What an instruction is given: its register, flag and memory operands,    *)
(* the addresses of the latter, the FPU and its own PC.                     *)
Inputs == [reg  : [Regs -> Val],
           flag : [Flags -> Bit],
           slot : [Slots -> Val],
           adr  : [Slots -> Val],
           fpu  : FPU,
           pc   : Val]

(* What it leaves. A fault (native instructions only) leaves nothing.       *)
Outputs == [reg  : [Regs -> Val],
            flag : [Flags -> Bit],
            slot : [Slots -> Val],
            fpu  : FPU,
            pc   : Val,
            sig  : Signals \cup {"none"}]

(* An instruction depends on its operands and on nothing else: this is the  *)
(* one fact about the processor that the executor relies on when it gives   *)
(* it only "the minimal requisite machine state".                           *)
Effect(i, in) ==
    Sem(i, [reg  |-> [r \in Regs |-> IF r \in Operands(i) \ (MMXRegs \cup {FL, IP})
                                     THEN in.reg[r] ELSE Zero],
            flag |-> [f \in Flags |-> IF f \in FlagsIn(i) THEN in.flag[f] ELSE 0],
            slot |-> [s \in Slots |-> IF s \in Loaded(i) THEN in.slot[s] ELSE Zero],
            adr  |-> [s \in Slots |-> IF s \in Addressed(i) THEN in.adr[s] ELSE Zero],
            fpu  |-> IF UsesFPU(i) THEN in.fpu ELSE NoFPU,
            pc   |-> in.pc])

(* An MMX register is the low half of an ST register: of the two copies a   *)
(* client keeps, the register is the one that counts.                       *)
MergeMMX(i, fpu, reg) ==
    [fpu EXCEPT !.mm = [m \in MMXRegs |-> IF m \in Needed(i) THEN reg[m] ELSE fpu.mm[m]]]

(* The effect of i on the machine state s, when nothing fails.              *)
ISAEffect(i, s) ==
    LET adr == [k \in Slots |-> Address(i, k, s.reg)]
    IN  Effect(i, [reg  |-> s.reg,
                   flag |-> s.flag,
                   slot |-> [k \in Slots |-> s.mem[adr[k]]],
                   adr  |-> adr,
                   fpu  |-> MergeMMX(i, s.fpu, s.reg),
                   pc   |-> s.reg[IP]])

(* The machine state after executing i in state s.                          *)
ISA(i, s) ==
    LET out == ISAEffect(i, s)
    IN  IF i.kind = "nop"
        THEN [s EXCEPT !.reg[IP] = Fall(s.reg[IP])]
        ELSE [reg  |-> [r \in Regs |->
                          IF r = IP
                          THEN IF i.kind = "emulated" THEN out.pc ELSE Fall(s.reg[IP])
                          ELSE IF r \notin Written(i, s.reg) THEN s.reg[r]
                          ELSE IF r \in MMXRegs THEN out.fpu.mm[r] ELSE out.reg[r]],
              flag |-> [f \in Flags |-> IF f \in i.fwrite THEN out.flag[f] ELSE s.flag[f]],
              mem  |-> [a \in Val |->
                          IF \E k \in Stored(i) : a = Address(i, k, s.reg)
                          THEN out.slot[CHOOSE k \in Stored(i) : a = Address(i, k, s.reg)]
                          ELSE s.mem[a]],
              fpu  |-> IF UsesFPU(i) THEN out.fpu ELSE s.fpu]

------------------------------------------------------------------------------
ASSUME WordAssumption == Zero \in Val

ASSUME RegAssumption ==
    /\ Regs \subseteq Int
    /\ {FL, IP, SP, CountReg} \cup MMXRegs \cup AliasRegs \cup NativeRegs \subseteq Regs
    /\ FL # IP /\ FL # SP /\ IP # SP
    /\ {FL, IP, SP} \cap (MMXRegs \cup AliasRegs \cup NativeRegs) = {}
    /\ AliasRegs \subseteq NativeRegs /\ CountReg \in AliasRegs
    /\ MMXRegs \cap NativeRegs = {}

ASSUME FlagAssumption == Flags \subseteq Int

(* What XED says of the instructions it decodes.                            *)
ASSUME InstrAssumption ==
    /\ Instrs \subseteq Instr
    /\ \A i \in Instrs :
         /\ FL \in Needed(i) => i.rflags
         /\ ~i.rflags => i.fread \cup i.fwrite = {}
         /\ \A s \in Slots : i.mem[s].agen => i.mem[s].has /\ ~i.mem[s].written
         /\ Stored(i) # Slots
         /\ i.inc \subseteq Elems(i.addr) \ {FL, IP}
         /\ i.inc # {} => i.kind = "emulated"
         /\ i.rep => CountReg \in Needed(i)
         /\ i.kind = "nop" => Elems(i.wr) = {} /\ i.fwrite = {} /\ ~UsesFPU(i)
         /\ i.kind = "native" => i.mem[1].has = FALSE /\ IP \notin Elems(i.wr)
         /\ i.kind = "emulated" => ~UsesFPU(i)

(* The address of a memory operand is computed from registers that the      *)
(* instruction asks for: base, index, and the bit offset of BT and its like. *)
ASSUME SemAssumption ==
    /\ \A v \in Val : Fall(v) \in Val
    /\ \A i \in Instrs, s \in Slots, reg \in [Regs -> Val] :
         /\ Address(i, s, reg) \in Val
         /\ i.mem[s].has =>
              Address(i, s, reg) =
                Address(i, s, [r \in Regs |-> IF r \in Needed(i) \ {FL} THEN reg[r] ELSE Zero])
    /\ \A i \in Instrs, in \in Inputs : Sem(i, in) \in Outputs
==============================================================================
