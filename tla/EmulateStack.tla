---------------------------- MODULE EmulateStack ----------------------------
(***************************************************************************)
(* The stack instructions of Emulate (Executor.cpp), with LEA and the      *)
(* moves of segment registers, on registers and memory. A word is          *)
(* WordUnits units of 16 bits (two in 32-bit mode, four in 64-bit mode),   *)
(* memory is addressed in units, and an operand is a word or, with an      *)
(* operand-size prefix, one unit.                                          *)
(*                                                                         *)
(* ReadMemory computes the address of the stack slot from the operand size *)
(* (Displaced), Emulate computes the value and moves the stack pointer by  *)
(* the operand size or by the address size, depending on the instruction.  *)
(* Where the two agree, what is pushed is what is popped. Segment          *)
(* registers, flags and return addresses with an operand-size prefix are   *)
(* where they do not.                                                      *)
(***************************************************************************)
EXTENDS Integers, Sequences

CONSTANTS Radix, WordUnits, Base, MaxDepth, Sizes, BranchSizes, Imms, Targets,
          FlagMod, HostFlags, Words, Segs, MaxSteps

(* A shift by n units, 2 ^ (16 * n) for units of 16 bits, and by a word. *)
Place[n \in 0 .. WordUnits] == IF n = 0 THEN 1 ELSE Radix * Place[n - 1]

WordMod == Place[WordUnits]
Word == 0 .. (WordMod - 1)
Unit == 0 .. (Radix - 1)

(* The seven flags that the client is asked for and told, all of them in    *)
(* the lowest unit of the flags register, as one number; the others come    *)
(* from the host's PUSHFQ and are a number in the places above.             *)
Flags == 0 .. (FlagMod - 1)

ASSUME SizeAssumption ==
    /\ Radix \in Nat \ {0, 1} /\ WordUnits \in {2, 4}
    /\ Sizes \subseteq {1, WordUnits} /\ BranchSizes \subseteq {1, WordUnits}
    /\ WordUnits = 4 => BranchSizes \subseteq {WordUnits}  \* no short branches in 64-bit mode
    /\ Words \cup Targets \subseteq Word /\ Segs \subseteq Unit /\ Imms \subseteq Int
    /\ Base \in Word /\ MaxDepth \in 0 .. Base

ASSUME FlagAssumption ==
    FlagMod \in Nat \ {0} /\ Radix % FlagMod = 0 /\ HostFlags \subseteq Nat

VARIABLES
    regs,      \* gRegs: EAX, EBP, ESP and a segment register
    flags,     \* the client's CF, PF, AF, ZF, SF, DF and OF
    ip,        \* the PC
    mem,       \* the client's memory, unit by unit
    steps      \* how many instructions have been executed

vars == <<regs, flags, ip, mem, steps>>

GPRs == {"AX", "BP"}

Low(v, n) == v % Place[n]
Wrap(v) == v % WordMod

(* uintptr_t view of the n units at address a. *)
Load(a, n) ==
    LET sum[k \in 0 .. n] == IF k = 0 THEN 0
                             ELSE sum[k - 1] + Place[k - 1] * mem[Wrap(a + k - 1)]
    IN  sum[n]

(* Memory after WriteMem of the low n units of v at a. *)
Store(a, v, n) ==
    [b \in Word |-> LET k == Wrap(b - a)
                    IN  IF k < n THEN (v \div Place[k]) % Radix ELSE mem[b]]

(* ReadGPR and WriteGPR: a 16-bit write keeps the rest of the register.     *)
ReadGPR(r, n) == Low(regs[r], n)
WriteGPR(r, v, n) == Low(v, n) + (regs[r] - Low(regs[r], n))

NextPC == Wrap(ip + 1)
SP == regs["SP"]
Depth == Base - SP

(* The adjustment of ReadMemory for the instructions that push. *)
Displaced(n) == Wrap(SP - n)

Step == steps < MaxSteps /\ steps' = steps + 1
Room(n) == Depth + n <= MaxDepth      \* the program keeps to its stack
Holds(n) == n <= Depth

Init ==
    /\ regs \in [{"AX", "BP", "SP", "DS"} -> Word]
    /\ regs["SP"] = Base /\ regs["DS"] \in Segs /\ {regs["AX"], regs["BP"]} \subseteq Words
    /\ flags \in Flags
    /\ ip = 0
    /\ mem = [a \in Word |-> 0]
    /\ steps = 0

(* The PUSH instructions: the value goes to the displaced slot, and the     *)
(* stack pointer moves by moved.                                            *)
Push(v, n, moved) ==
    /\ Step /\ Room(moved)
    /\ mem' = Store(Displaced(n), v, n)
    /\ regs' = [regs EXCEPT !["SP"] = Wrap(SP - moved)]
    /\ ip' = NextPC
    /\ UNCHANGED flags

PUSH_GPRv(n) == \E r \in GPRs \cup {"SP"} : Push(ReadGPR(r, n), n, n)

(* GetSignedImmediate, and then a cast to uint32_t. *)
PUSH_IMM(n) == \E v \in Imms : Push(Low(Low(v, n), 2), n, n)

(* PUSH of the word at d above the stack pointer. *)
PUSH_MEMv(n) == \E d \in 0 .. (Depth - n) : Push(Load(Wrap(SP + d), n), n, n)

(* A segment register and the flags: the stack pointer moves by the address *)
(* size. ReadFlags puts the client's flags into those of the host.          *)
PUSH_SEG(n) == Push(regs["DS"], n, WordUnits)
PUSHF(n) == \E h \in HostFlags : Push(flags + FlagMod * h, n, WordUnits)

(* POP into a register other than the stack pointer. *)
POP_GPRv(n) ==
    /\ Step /\ Holds(n)
    /\ \E r \in GPRs :
         regs' = [regs EXCEPT ![r] = WriteGPR(r, Load(SP, n), n), !["SP"] = Wrap(SP + n)]
    /\ ip' = NextPC
    /\ UNCHANGED <<flags, mem>>

(* The address of POP [ESP + d] without ReadMemory's correction. *)
PoppedTo_Before(d, n) == Wrap(SP + d)

(* "if the memory address being read by the POP uses the stack pointer as   *)
(* the base register, then the stack pointer used will be that *after* the  *)
(* POP happens"                                                             *)
PoppedTo(d, n) == Wrap(SP + d + n)

POP_MEMv(n) ==
    /\ Step
    /\ \E d \in 0 .. (Depth - 2 * n) : mem' = Store(PoppedTo(d, n), Load(SP, n), n)
    /\ regs' = [regs EXCEPT !["SP"] = Wrap(SP + n)]
    /\ ip' = NextPC
    /\ UNCHANGED flags

POP_SEG(n) ==
    /\ Step /\ Holds(WordUnits)
    /\ regs' = [regs EXCEPT !["DS"] = Low(Load(SP, n), 1), !["SP"] = Wrap(SP + WordUnits)]
    /\ ip' = NextPC
    /\ UNCHANGED <<flags, mem>>

(* WriteFlags tells the client its own flags, and the others are forgotten. *)
POPF(n) ==
    /\ Step /\ Holds(WordUnits)
    /\ flags' = Low(Load(SP, n), 1) % FlagMod
    /\ regs' = [regs EXCEPT !["SP"] = Wrap(SP + WordUnits)]
    /\ ip' = NextPC
    /\ UNCHANGED mem

(* CALL_NEAR, with a displacement, a register or the operand at d above the *)
(* stack pointer for its target. The stack pointer moves by the address     *)
(* size.                                                                    *)
CALL_NEAR(n) ==
    /\ Step /\ Room(WordUnits)
    /\ mem' = Store(Displaced(n), NextPC, n)
    /\ \/ ip' \in Targets
       \/ \E r \in GPRs : ip' = ReadGPR(r, n)
       \/ \E d \in 0 .. (Depth - n) : ip' = Load(Wrap(SP + d), n)
    /\ regs' = [regs EXCEPT !["SP"] = Wrap(SP - WordUnits)]
    /\ UNCHANGED flags

(* RET_NEAR, and RET_NEAR_IMMw with an immediate of k units. *)
RET_NEAR(n) ==
    /\ Step
    /\ \E k \in 0 .. (Depth - WordUnits) :
         regs' = [regs EXCEPT !["SP"] = Wrap(SP + WordUnits + k)]
    /\ ip' = Load(SP, n)
    /\ UNCHANGED <<flags, mem>>

(* An instruction that changes registers only, or memory only.              *)
Register(r, v, n) ==
    /\ Step
    /\ regs' = [regs EXCEPT ![r] = WriteGPR(r, v, n)]
    /\ ip' = NextPC
    /\ UNCHANGED <<flags, mem>>

(* LEA of either end of the stack, and the moves of segment registers from  *)
(* and to a register or the unit at d above the stack pointer.              *)
LEA(n) == \E r \in GPRs, d \in {0, Depth} : Register(r, Wrap(SP + d), n)
MOV_GPRv_SEG(n) == \E r \in GPRs : Register(r, ReadGPR("DS", 1), n)
MOV_SEG_GPR16 == \E r \in GPRs : Register("DS", ReadGPR(r, 1), 1)
MOV_SEG_MEMw == \E d \in 0 .. (Depth - 1) : Register("DS", Load(Wrap(SP + d), 1), 1)

MOV_MEMw_SEG ==
    /\ Step
    /\ \E d \in 0 .. (Depth - 1) : mem' = Store(Wrap(SP + d), ReadGPR("DS", 1), 1)
    /\ ip' = NextPC
    /\ UNCHANGED <<regs, flags>>

Done == steps = MaxSteps /\ UNCHANGED vars

Next ==
    \/ \E n \in Sizes : PUSH_GPRv(n) \/ PUSH_IMM(n) \/ PUSH_MEMv(n) \/ POP_GPRv(n)
                        \/ POP_MEMv(n) \/ LEA(n) \/ MOV_GPRv_SEG(n)
                        \/ PUSH_SEG(n) \/ PUSHF(n) \/ POP_SEG(n) \/ POPF(n)
    \/ \E n \in BranchSizes : CALL_NEAR(n) \/ RET_NEAR(n)
    \/ MOV_SEG_GPR16 \/ MOV_SEG_MEMw \/ MOV_MEMw_SEG
    \/ Done

Spec == Init /\ [][Next]_vars
------------------------------------------------------------------------------
(* The stack that the stack pointer and memory stand for. *)
Promise == INSTANCE StackMachine WITH
    stack <- [k \in 1 .. Depth |-> mem[Wrap(SP + k - 1)]],
    gpr   <- [r \in GPRs |-> regs[r]],
    seg   <- regs["DS"]

(* The instructions of Emulate are those of a stack: what lies between the  *)
(* stack pointer and the base of the stack is what has been pushed and not  *)
(* popped, in order, for any mix of operand sizes, and no push disturbs     *)
(* what is already there. General registers, immediates and memory operands *)
(* of either size come back as they were pushed, POP [ESP + d] lands where  *)
(* the stack pointer will be. A segment register, the client's flags and    *)
(* the PC of a CALL come back if they were pushed without an operand-size   *)
(* prefix; with one their slot is a word, filled from its far end and       *)
(* emptied from the top (GrowSlot, PopSeg, PopFlags and Ret of the stack    *)
(* machine), so that a prefixed push and a prefixed pop do not match:       *)
(* PushedIsOnTop says what is missing. Of the flags only the client's are   *)
(* promised.                                                                *)
ImplementsStack == Promise!Spec

(* "the memop is `[RSP]`, not `[RSP-N]` (which is what is actually          *)
(* modified), so adjust accordingly" (Executor.cpp, ReadMemory): what PUSH  *)
(* of a segment register and CALL store is where the stack pointer points   *)
(* afterwards, where the POP or RET of the same size looks for it.          *)
PushedIsOnTop ==
    [][ /\ \A n \in Sizes : PUSH_SEG(n) => Load(SP, n)' = Low(regs["DS"], n)
        /\ \A n \in BranchSizes : CALL_NEAR(n) => Load(SP, n)' = Low(NextPC, n) ]_vars
==============================================================================
