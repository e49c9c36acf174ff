---------------------------- MODULE EmulateBranch ----------------------------
(***************************************************************************)
(* The branches of Emulate (Executor.cpp) and the flags they decide on.    *)
(*                                                                         *)
(* The client's program is a comparison followed by a branch: a compare of *)
(* two words, done by the processor (CMP, left to the JIT) or by Emulate   *)
(* (SCAS, CMPS), and then one of the branches of Emulate's switch. The     *)
(* LOOP instructions branch back to the comparison, the others away. That  *)
(* XABORT, XEND and the far branches are refused is part of Executor.      *)
(***************************************************************************)
EXTENDS Integers, FiniteSets

CONSTANTS
    Size,       \* effective_operand_width of the comparison
    Words,      \* the words that are compared
    CountMod,   \* the number of values of the count register, RCX,
    ECXMod, CXMod   \* and of its parts

ASSUME SizeAssumption == Size \in {8, 16} /\ Words \subseteq 0 .. (2 ^ Size - 1)
ASSUME CountAssumption == {CountMod, ECXMod, CXMod} \subseteq Nat \ {0}

VARIABLES
    pc,         \* at the comparison, at the branch, or where the branch went
    insn,       \* the branch instruction
    flags,      \* aflag: the client's arithmetic flags
    count,      \* RCX
    rax,        \* whether XBEGIN has left its status in RAX
    cmp,        \* history: the last comparison, and who made it
    trips       \* history: how often the comparison has run, and the first count

vars == <<pc, insn, flags, count, rax, cmp, trips>>

Jcc == {"JO", "JNO", "JB", "JNB", "JZ", "JNZ", "JBE", "JNBE",
        "JS", "JNS", "JP", "JNP", "JL", "JNL", "JLE", "JNLE"}
Loops == {"LOOP", "LOOPE", "LOOPNE"}
CountJumps == {"JCXZ", "JECXZ", "JRCXZ"}
Always == {"JMP", "XBEGIN"}
Branches == Jcc \cup Loops \cup CountJumps \cup Always

Bit(v, k) == (v \div 2 ^ k) % 2
TruthBit(p) == IF p THEN 1 ELSE 0

(* The parity flag: 1 when the low eight bits of r hold an even number of ones. *)
ParityFlag(r) == TruthBit(Cardinality({k \in 0 .. 7 : Bit(r, k) = 1}) % 2 = 0)

(* An unsigned comparison that takes equal words for smaller ones. *)
UpdateFlagsSub_NotGreater(lhs, rhs) ==
    [cf |-> TruthBit(lhs <= rhs), zf |-> TruthBit(lhs = rhs), sf |-> 0, of |-> 0, af |-> 0,
     pf |-> ParityFlag((lhs - rhs) % 2 ^ Size)]

(* The flags of lhs - rhs as UpdateFlagsSub computes them. It shifts by     *)
(* 1 << (size - 1), which is never less than 64: undefined in C++, and a    *)
(* shift by that count modulo 64 on the processors it is built for.         *)
UpdateFlagsSub(lhs, rhs) ==
    LET res     == (lhs - rhs) % 2 ^ Size
        Sign(v) == Bit(v, 2 ^ (Size - 1) % 64)
    IN  [sf |-> Sign(res),
         cf |-> TruthBit(lhs < rhs),
         of |-> TruthBit(Sign(lhs) # Sign(rhs) /\ Sign(lhs) # Sign(res)),
         zf |-> TruthBit(res = 0),
         af |-> (Bit(res, 4) + Bit(lhs, 4) + Bit(rhs, 4)) % 2,
         pf |-> ParityFlag(res)]

(* A word as a two's complement number. *)
Signed(v) == IF Bit(v, Size - 1) = 1 THEN v - 2 ^ Size ELSE v

(* What the processor's CMP leaves in the flags. *)
CompareFlags(lhs, rhs) ==
    LET res == (lhs - rhs) % 2 ^ Size
    IN  [sf |-> Bit(res, Size - 1),
         cf |-> TruthBit(lhs < rhs),
         of |-> TruthBit(Signed(lhs) - Signed(rhs) # Signed(res)),
         zf |-> TruthBit(lhs = rhs),
         af |-> TruthBit(lhs % 16 < rhs % 16),
         pf |-> ParityFlag(res)]

Init ==
    /\ pc = "compare"
    /\ insn \in Branches
    /\ flags = [f \in {"sf", "cf", "of", "zf", "af", "pf"} |-> 0]
    /\ count \in 0 .. (CountMod - 1)
    /\ rax = "program"
    /\ cmp = [lhs |-> 0, rhs |-> 0, by |-> "none"]
    /\ trips = [done |-> 0, from |-> count]

(* CMP on the processor, or SCAS or CMPS in Emulate. *)
Compare(lhs, rhs, by) ==
    /\ pc = "compare"
    /\ flags' = IF by = "Emulate" THEN UpdateFlagsSub(lhs, rhs) ELSE CompareFlags(lhs, rhs)
    /\ cmp' = [lhs |-> lhs, rhs |-> rhs, by |-> by]
    /\ trips' = [trips EXCEPT !.done = @ + 1]
    /\ pc' = "branch"
    /\ UNCHANGED <<insn, count, rax>>

(* When Emulate takes the branch. The count is the one before LOOP's        *)
(* decrement. A transaction fails at once.                                  *)
Taken(i) ==
    LET f == flags
    IN  CASE i = "JO"     -> f.of = 1
          [] i = "JNO"    -> f.of = 0
          [] i = "JB"     -> f.cf = 1
          [] i = "JNB"    -> f.cf = 0
          [] i = "JZ"     -> f.zf = 1
          [] i = "JNZ"    -> f.zf = 0
          [] i = "JBE"    -> f.cf = 1 \/ f.zf = 1
          [] i = "JNBE"   -> f.cf = 0 /\ f.zf = 0
          [] i = "JS"     -> f.sf = 1
          [] i = "JNS"    -> f.sf = 0
          [] i = "JP"     -> f.pf = 1
          [] i = "JNP"    -> f.pf = 0
          [] i = "JL"     -> f.sf # f.of
          [] i = "JNL"    -> f.sf = f.of
          [] i = "JLE"    -> f.zf = 1 \/ f.sf # f.of
          [] i = "JNLE"   -> f.zf = 0 /\ f.sf = f.of
          [] i = "LOOP"   -> count # 0
          [] i = "LOOPE"  -> count # 0 /\ f.zf = 1
          [] i = "LOOPNE" -> count # 0 /\ f.zf = 0
          [] i = "JRCXZ"  -> count = 0
          [] i = "JECXZ"  -> count % ECXMod = 0
          [] i = "JCXZ"   -> count % CXMod = 0
          [] i \in Always -> TRUE

(* LOOP does not write its count back. *)
CountAfter_Kept(i) == count

CountAfter(i) == IF i \in Loops THEN (count - 1) % CountMod ELSE count

Branch ==
    /\ pc = "branch"
    /\ pc' = IF ~Taken(insn) THEN "fall" ELSE IF insn \in Loops THEN "compare" ELSE "target"
    /\ count' = CountAfter(insn)
    /\ rax' = IF insn = "XBEGIN" THEN "capacity" ELSE rax
    /\ UNCHANGED <<insn, flags, cmp, trips>>

(* The branch has been executed, and the program is elsewhere. *)
Done == pc \in {"fall", "target"} /\ UNCHANGED vars

Next == \/ \E lhs, rhs \in Words, by \in {"CMP", "Emulate"} : Compare(lhs, rhs, by)
        \/ Branch
        \/ Done

Spec == Init /\ [][Next]_vars
------------------------------------------------------------------------------
(* What the mnemonic of a conditional branch promises of the comparison.    *)
Holds(i, lhs, rhs) ==
    LET res == (lhs - rhs) % 2 ^ Size
        diff == Signed(lhs) - Signed(rhs)
    IN  CASE i = "JB"   -> lhs < rhs
          [] i = "JNB"  -> lhs >= rhs
          [] i = "JZ"   -> lhs = rhs
          [] i = "JNZ"  -> lhs # rhs
          [] i = "JBE"  -> lhs <= rhs
          [] i = "JNBE" -> lhs > rhs
          [] i = "JP"   -> ParityFlag(res) = 1
          [] i = "JNP"  -> ParityFlag(res) = 0
          [] i = "JL"   -> diff < 0
          [] i = "JNL"  -> diff >= 0
          [] i = "JLE"  -> diff <= 0
          [] i = "JNLE" -> diff > 0
          [] i = "JS"   -> Signed(res) < 0
          [] i = "JNS"  -> Signed(res) >= 0
          [] i = "JO"   -> diff # Signed(res)
          [] i = "JNO"  -> diff = Signed(res)

SignedJcc == {"JS", "JNS", "JO", "JNO", "JL", "JNL", "JLE", "JNLE"}

(* A conditional branch goes where its mnemonic says, for the words that    *)
(* were compared: all of them after a comparison by the processor, and the  *)
(* ones on CF, ZF and PF also after one by Emulate.                         *)
BranchCorrect ==
    insn \in Jcc /\ pc \in {"target", "fall"} /\ (cmp.by = "CMP" \/ insn \notin SignedJcc)
        => (pc = "target" <=> Holds(insn, cmp.lhs, cmp.rhs))

(* A loop made of a comparison and a LOOP, LOOPE or LOOPNE ends, whatever   *)
(* count it starts from: it comes back at most that many times, and leaves  *)
(* the count stepped down once for each time the branch was executed.       *)
LoopBounded ==
    /\ trips.done <= trips.from + 1
    /\ insn \in Loops /\ pc # "branch" => count = (trips.from - trips.done) % CountMod

(* "Compute the flags produced from a subtraction.": after UpdateFlagsSub   *)
(* every conditional branch goes where its mnemonic says.                   *)
SubtractionFlags ==
    insn \in Jcc /\ pc \in {"target", "fall"} /\ cmp.by = "Emulate"
        => (pc = "target" <=> Holds(insn, cmp.lhs, cmp.rhs))
==============================================================================
