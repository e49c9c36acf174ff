---------------------------- MODULE StackMachine ----------------------------
(***************************************************************************)
(* What the stack instructions promise: a stack of 16-bit units, the top   *)
(* first, that grows by what is pushed and shrinks by what is popped. There *)
(* is no memory and no stack pointer; where a program can see the stack    *)
(* pointer (PUSH ESP) it sees the base less the depth.                     *)
(*                                                                         *)
(* Segment registers, flags and return addresses take a word of the stack, *)
(* their slot, whatever the operand size. A value that is shorter is put   *)
(* into the end of its slot nearest to the base and taken from the other   *)
(* one, the top: a short push is undone by no pop, and of the gap that it  *)
(* leaves on top nothing is promised.                                      *)
(***************************************************************************)
EXTENDS Integers, Sequences

CONSTANTS
    Radix,        \* the number of values of a unit
    WordUnits,    \* units in a word: addr_size is 16 * WordUnits
    Base,         \* the address where the empty stack begins
    Sizes,        \* operand sizes, in units
    BranchSizes,  \* operand sizes of CALL and RET, in units
    Imms,         \* immediate operands
    Targets,      \* branch targets
    FlagMod,      \* the flags of a client are a number below this
    HostFlags     \* the other flags, in the places above

(* The place value of the unit above the low n units of a value. *)
Place[n \in 0 .. WordUnits] == IF n = 0 THEN 1 ELSE Radix * Place[n - 1]

WordMod == Place[WordUnits]
Word == 0 .. (WordMod - 1)
Unit == 0 .. (Radix - 1)
Flags == 0 .. (FlagMod - 1)
GPRs == {"AX", "BP"}

VARIABLES stack, gpr, seg, flags, ip

vars == <<stack, gpr, seg, flags, ip>>

Low(v, n) == v % Place[n]
Units(v, n) == [k \in 1 .. n |-> (v \div Place[k - 1]) % Radix]
Value(us) == LET sum[k \in 0 .. Len(us)] == IF k = 0 THEN 0
                                             ELSE sum[k - 1] + Place[k - 1] * us[k]
             IN  sum[Len(us)]

Wrap(v) == v % WordMod
After(p) == Wrap(p + 1)

Top(n) == SubSeq(stack, 1, n)
Below(n) == SubSeq(stack, n + 1, Len(stack))
At(d, n) == SubSeq(stack, d + 1, d + n)

(* v replaces the low n units of w. *)
Merge(w, v, n) == v + (w - Low(w, n))

Init ==
    /\ stack = <<>>
    /\ gpr \in [GPRs -> Word] /\ seg \in Unit /\ flags \in Flags /\ ip \in Word

Grow(us) == stack' = us \o stack
Shrink(n) == stack' = Below(n)

Push(v, n) == /\ Grow(Units(v, n)) /\ ip' = After(ip) /\ UNCHANGED <<gpr, seg, flags>>

PushGPR(n) == \E r \in GPRs : Push(gpr[r], n)
PushSP(n) == Push(Wrap(Base - Len(stack)), n)
PushImm(n) == \E v \in Imms : Push(Wrap(v), n)
PushMem(n) == \E d \in 0 .. (Len(stack) - n) : Push(Value(At(d, n)), n)

(* A value of n units in the slot of a word. *)
GrowSlot(v, n) == \E gap \in [1 .. (WordUnits - n) -> Unit] : Grow(gap \o Units(v, n))
PushSlot(v, n) == /\ GrowSlot(v, n) /\ ip' = After(ip) /\ UNCHANGED <<gpr, seg, flags>>

PushSeg(n) == PushSlot(seg, n)
PushFlags(n) == \E h \in HostFlags : PushSlot(flags + FlagMod * h, n)

PopGPR(n) ==
    /\ n <= Len(stack)
    /\ \E r \in GPRs : gpr' = [gpr EXCEPT ![r] = Merge(@, Value(Top(n)), n)]
    /\ Shrink(n) /\ ip' = After(ip) /\ UNCHANGED <<seg, flags>>

(* POP to memory on the stack: the address is the one after the pop. *)
PopMem(n) ==
    /\ \E d \in 0 .. (Len(stack) - 2 * n) :
         stack' = [k \in 1 .. (Len(stack) - n) |->
                     IF k \in (d + 1) .. (d + n) THEN stack[k - d] ELSE Below(n)[k]]
    /\ ip' = After(ip) /\ UNCHANGED <<gpr, seg, flags>>

PopSeg ==
    /\ WordUnits <= Len(stack)
    /\ seg' = stack[1]
    /\ Shrink(WordUnits) /\ ip' = After(ip) /\ UNCHANGED <<gpr, flags>>

PopFlags ==
    /\ WordUnits <= Len(stack)
    /\ flags' = stack[1] % FlagMod
    /\ Shrink(WordUnits) /\ ip' = After(ip) /\ UNCHANGED <<gpr, seg>>

(* CALL: direct, through a register, or through an operand on the stack. *)
Call(n) ==
    /\ GrowSlot(After(ip), n)
    /\ \/ ip' \in Targets
       \/ \E r \in GPRs : ip' = Low(gpr[r], n)
       \/ \E d \in 0 .. (Len(stack) - n) : ip' = Value(At(d, n))
    /\ UNCHANGED <<gpr, seg, flags>>

(* RET, and RET that removes arguments. *)
Ret(n) ==
    /\ \E k \in 0 .. (Len(stack) - WordUnits) :
         ip' = Value(Top(n)) /\ Shrink(WordUnits + k)
    /\ UNCHANGED <<gpr, seg, flags>>

(* The addresses of the ends of the stack, and segment registers. *)
SetGPR(v, n) ==
    /\ \E r \in GPRs : gpr' = [gpr EXCEPT ![r] = Merge(@, v, n)]
    /\ ip' = After(ip) /\ UNCHANGED <<stack, seg, flags>>

AddressOf(n) == \E d \in {0, Len(stack)} : SetGPR(Low(Wrap(Base - Len(stack) + d), n), n)
FromSeg(n) == SetGPR(seg, n)

ToSeg ==
    /\ \/ \E r \in GPRs : seg' = Low(gpr[r], 1)
       \/ \E d \in DOMAIN stack : seg' = stack[d]
    /\ ip' = After(ip) /\ UNCHANGED <<stack, gpr, flags>>

SegToMem ==
    /\ \E d \in DOMAIN stack : stack' = [stack EXCEPT ![d] = seg]
    /\ ip' = After(ip) /\ UNCHANGED <<gpr, seg, flags>>

Next ==
    \/ \E n \in Sizes : PushGPR(n) \/ PushSP(n) \/ PushImm(n) \/ PushMem(n)
                        \/ PopGPR(n) \/ PopMem(n) \/ AddressOf(n) \/ FromSeg(n)
                        \/ PushSeg(n) \/ PushFlags(n)
    \/ \E n \in BranchSizes : Call(n) \/ Ret(n)
    \/ ToSeg \/ SegToMem \/ PopSeg \/ PopFlags

Spec == Init /\ [][Next]_vars
==============================================================================
