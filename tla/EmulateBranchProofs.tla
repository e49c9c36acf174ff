------------------------- MODULE EmulateBranchProofs -------------------------
(***************************************************************************)
(* Theorems about EmulateBranch: the conditional branches agree with the   *)
(* arithmetic of the comparison for all words, and the loops are bounded   *)
(* by their count for all counts.                                          *)
(***************************************************************************)
EXTENDS EmulateBranch, TLAPS

(* The types of what the invariants below are about. *)
TypeInv ==
    /\ pc \in {"compare", "branch", "target", "fall"}
    /\ insn \in Branches
    /\ count \in 0 .. CountMod - 1
    /\ trips \in [done : Nat, from : 0 .. CountMod - 1]

(* A loop that is at its comparison has counts left, and the count and the  *)
(* number of comparisons make up the first count; a branch that is no loop  *)
(* is executed once.                                                        *)
LoopInv ==
    /\ insn \in Loops =>
         /\ pc = "compare" => count = trips.from - trips.done
         /\ pc = "branch" => trips.done >= 1 /\ count = trips.from - (trips.done - 1)
         /\ pc \in {"target", "fall"} =>
              trips.done <= trips.from + 1 /\ count = (trips.from - trips.done) % CountMod
    /\ insn \notin Loops =>
         trips.done = IF pc = "compare" THEN 0 ELSE 1

(* The flags are those of the last comparison, and the branch has gone      *)
(* where they told it to.                                                   *)
FlagsInv ==
    /\ pc # "compare" =>
         /\ cmp.lhs \in Words /\ cmp.rhs \in Words /\ cmp.by \in {"CMP", "Emulate"}
         /\ flags = IF cmp.by = "Emulate" THEN UpdateFlagsSub(cmp.lhs, cmp.rhs)
                    ELSE CompareFlags(cmp.lhs, cmp.rhs)
    /\ insn \in Jcc /\ pc \in {"target", "fall"} => (pc = "target" <=> Taken(insn))

------------------------------------------------------------------------------
(* The number of words, and the place value of the sign bit. *)
LEMMA Sizes == /\ 2 ^ Size \in Nat /\ 2 ^ (Size - 1) \in Nat
               /\ 2 ^ Size = 2 * 2 ^ (Size - 1) /\ 2 ^ (Size - 1) > 0
<1>1. CASE Size = 8
  <2>1. 2 ^ 8 = 256 /\ 2 ^ (8 - 1) = 128 OBVIOUS
  <2> QED BY <1>1, <2>1
<1>2. CASE Size = 16
  <2>1. 2 ^ 16 = 65536 /\ 2 ^ (16 - 1) = 32768 OBVIOUS
  <2> QED BY <1>2, <2>1
<1> QED BY <1>1, <1>2, SizeAssumption

(* The sign bit says whether a word is negative as a number, and a word is  *)
(* that number up to a multiple of the number of words.                     *)
LEMMA SignBit ==
    ASSUME NEW v \in 0 .. 2 ^ Size - 1
    PROVE  /\ Bit(v, Size - 1) = IF v >= 2 ^ (Size - 1) THEN 1 ELSE 0
           /\ Signed(v) = IF v >= 2 ^ (Size - 1) THEN v - 2 ^ Size ELSE v
<1>1. Bit(v, Size - 1) = IF v >= 2 ^ (Size - 1) THEN 1 ELSE 0
  <2>1. CASE Size = 8
    <3>1. 2 ^ 8 = 256 /\ 2 ^ (8 - 1) = 128 OBVIOUS
    <3> QED BY <2>1, <3>1 DEF Bit
  <2>2. CASE Size = 16
    <3>1. 2 ^ 16 = 65536 /\ 2 ^ (16 - 1) = 32768 OBVIOUS
    <3> QED BY <2>2, <3>1 DEF Bit
  <2> QED BY <2>1, <2>2, SizeAssumption
<1> QED BY <1>1 DEF Signed

(* The difference of two words modulo the number of words. *)
LEMMA Difference ==
    ASSUME NEW lhs \in 0 .. 2 ^ Size - 1, NEW rhs \in 0 .. 2 ^ Size - 1
    PROVE  (lhs - rhs) % 2 ^ Size = IF lhs < rhs THEN lhs - rhs + 2 ^ Size ELSE lhs - rhs
<1>1. CASE Size = 8
  <2>1. 2 ^ 8 = 256 OBVIOUS
  <2> QED BY <1>1, <2>1
<1>2. CASE Size = 16
  <2>1. 2 ^ 16 = 65536 OBVIOUS
  <2> QED BY <1>2, <2>1
<1> QED BY <1>1, <1>2, SizeAssumption

(* SF and OF, as CMP computes them, differ exactly when the first word is   *)
(* the smaller number.                                                      *)
LEMMA SignedLess ==
    ASSUME NEW lhs \in 0 .. 2 ^ Size - 1, NEW rhs \in 0 .. 2 ^ Size - 1
    PROVE  LET f    == CompareFlags(lhs, rhs)
               diff == Signed(lhs) - Signed(rhs)
               res  == Signed((lhs - rhs) % 2 ^ Size)
           IN  /\ f.sf \in {0, 1} /\ f.of \in {0, 1}
               /\ f.sf = 1 <=> res < 0
               /\ f.of = 1 <=> diff # res
               /\ f.sf # f.of <=> diff < 0
               /\ diff \in Int /\ res \in Int /\ (diff = 0 <=> lhs = rhs)
<1> DEFINE d == (lhs - rhs) % 2 ^ Size
           h == 2 ^ (Size - 1)
           w == 2 ^ Size
<1>1. d = IF lhs < rhs THEN lhs - rhs + w ELSE lhs - rhs
  BY Difference
<1>2. w = 2 * h /\ h > 0 /\ h \in Nat /\ w \in Nat
  BY Sizes
<1>3. d \in 0 .. w - 1
  <2>1. lhs \in 0 .. w - 1 /\ rhs \in 0 .. w - 1
    OBVIOUS
  <2> HIDE DEF d, h, w
  <2> QED BY <1>1, <1>2, <2>1
<1>4. Bit(d, Size - 1) = (IF d >= h THEN 1 ELSE 0) /\ Signed(d) = IF d >= h THEN d - w ELSE d
  BY <1>3, SignBit
<1>5. Signed(lhs) = IF lhs >= h THEN lhs - w ELSE lhs
  BY SignBit
<1>6. Signed(rhs) = IF rhs >= h THEN rhs - w ELSE rhs
  BY SignBit
<1>7. /\ CompareFlags(lhs, rhs).sf = Bit(d, Size - 1)
      /\ CompareFlags(lhs, rhs).of = IF Signed(lhs) - Signed(rhs) # Signed(d) THEN 1 ELSE 0
  BY DEF CompareFlags, TruthBit
<1>8. lhs \in 0 .. w - 1 /\ rhs \in 0 .. w - 1
  OBVIOUS
<1> HIDE DEF d, h, w
<1>9. /\ CompareFlags(lhs, rhs).sf \in {0, 1} /\ CompareFlags(lhs, rhs).of \in {0, 1}
      /\ CompareFlags(lhs, rhs).sf = 1 <=> Signed(d) < 0
      /\ CompareFlags(lhs, rhs).of = 1 <=> Signed(lhs) - Signed(rhs) # Signed(d)
      /\ CompareFlags(lhs, rhs).sf # CompareFlags(lhs, rhs).of <=> Signed(lhs) - Signed(rhs) < 0
      /\ Signed(lhs) - Signed(rhs) \in Int /\ Signed(d) \in Int
      /\ (Signed(lhs) - Signed(rhs) = 0 <=> lhs = rhs)
  BY <1>1, <1>2, <1>3, <1>4, <1>5, <1>6, <1>7, <1>8
<1> QED BY <1>9 DEF d

(* The unsigned flags are the same for both kinds of comparison. *)
LEMMA UnsignedFlags ==
    ASSUME NEW lhs \in 0 .. 2 ^ Size - 1, NEW rhs \in 0 .. 2 ^ Size - 1
    PROVE  /\ CompareFlags(lhs, rhs).cf = TruthBit(lhs < rhs)
           /\ CompareFlags(lhs, rhs).zf = TruthBit(lhs = rhs)
           /\ CompareFlags(lhs, rhs).pf = ParityFlag((lhs - rhs) % 2 ^ Size)
           /\ UpdateFlagsSub(lhs, rhs).cf = TruthBit(lhs < rhs)
           /\ UpdateFlagsSub(lhs, rhs).zf = TruthBit(lhs = rhs)
           /\ UpdateFlagsSub(lhs, rhs).pf = ParityFlag((lhs - rhs) % 2 ^ Size)
<1>1. (lhs - rhs) % 2 ^ Size = 0 <=> lhs = rhs
  <2> DEFINE w == 2 ^ Size
  <2>1. w \in Nat /\ lhs \in 0 .. w - 1 /\ rhs \in 0 .. w - 1
    BY Sizes
  <2>2. (lhs - rhs) % w = IF lhs < rhs THEN lhs - rhs + w ELSE lhs - rhs
    BY Difference
  <2> HIDE DEF w
  <2>3. (lhs - rhs) % w = 0 <=> lhs = rhs
    BY <2>1, <2>2
  <2> QED BY <2>3 DEF w
<1> QED BY <1>1 DEF CompareFlags, UpdateFlagsSub, TruthBit

(* The conditions of Emulate's switch, one by one. *)
LEMMA TakenCases ==
    /\ Taken("JO") <=> flags.of = 1
    /\ Taken("JNO") <=> flags.of = 0
    /\ Taken("JB") <=> flags.cf = 1
    /\ Taken("JNB") <=> flags.cf = 0
    /\ Taken("JZ") <=> flags.zf = 1
    /\ Taken("JNZ") <=> flags.zf = 0
    /\ Taken("JBE") <=> flags.cf = 1 \/ flags.zf = 1
    /\ Taken("JNBE") <=> flags.cf = 0 /\ flags.zf = 0
    /\ Taken("JS") <=> flags.sf = 1
    /\ Taken("JNS") <=> flags.sf = 0
    /\ Taken("JP") <=> flags.pf = 1
    /\ Taken("JNP") <=> flags.pf = 0
    /\ Taken("JL") <=> flags.sf # flags.of
    /\ Taken("JNL") <=> flags.sf = flags.of
    /\ Taken("JLE") <=> flags.zf = 1 \/ flags.sf # flags.of
    /\ Taken("JNLE") <=> flags.zf = 0 /\ flags.sf = flags.of
BY DEF Taken, Always

(* After a comparison by the processor every conditional branch is taken    *)
(* when its mnemonic says so, and after one by Emulate the unsigned ones.   *)
LEMMA TakenHolds ==
    ASSUME NEW i \in Jcc, NEW lhs \in Words, NEW rhs \in Words, NEW by \in {"CMP", "Emulate"},
           flags = IF by = "Emulate" THEN UpdateFlagsSub(lhs, rhs) ELSE CompareFlags(lhs, rhs),
           by = "CMP" \/ i \notin SignedJcc
    PROVE  Taken(i) <=> Holds(i, lhs, rhs)
<1>1. lhs \in 0 .. 2 ^ Size - 1 /\ rhs \in 0 .. 2 ^ Size - 1
  BY SizeAssumption
<1>2. CASE i \in {"JB", "JNB", "JZ", "JNZ", "JBE", "JNBE", "JP", "JNP"}
  <2>1. /\ flags.cf = TruthBit(lhs < rhs) /\ flags.zf = TruthBit(lhs = rhs)
        /\ flags.pf = ParityFlag((lhs - rhs) % 2 ^ Size)
    BY <1>1, UnsignedFlags
  <2>2. lhs \in Int /\ rhs \in Int
    BY <1>1
  <2>3. ParityFlag((lhs - rhs) % 2 ^ Size) \in {0, 1}
    BY DEF ParityFlag, TruthBit
  <2>4. /\ Holds("JB", lhs, rhs) <=> lhs < rhs
        /\ Holds("JNB", lhs, rhs) <=> lhs >= rhs
        /\ Holds("JZ", lhs, rhs) <=> lhs = rhs
        /\ Holds("JNZ", lhs, rhs) <=> lhs # rhs
        /\ Holds("JBE", lhs, rhs) <=> lhs <= rhs
        /\ Holds("JNBE", lhs, rhs) <=> lhs > rhs
        /\ Holds("JP", lhs, rhs) <=> ParityFlag((lhs - rhs) % 2 ^ Size) = 1
        /\ Holds("JNP", lhs, rhs) <=> ParityFlag((lhs - rhs) % 2 ^ Size) = 0
    BY DEF Holds
  <2> QED BY <1>2, <2>1, <2>2, <2>3, <2>4, TakenCases DEF TruthBit
<1>3. CASE i \in SignedJcc
  <2> DEFINE f == CompareFlags(lhs, rhs)
             diff == Signed(lhs) - Signed(rhs)
             res == Signed((lhs - rhs) % 2 ^ Size)
  <2>1. flags = f
    BY <1>3
  <2>2. /\ f.sf \in {0, 1} /\ f.of \in {0, 1}
        /\ f.sf = 1 <=> res < 0
        /\ f.of = 1 <=> diff # res
        /\ f.sf # f.of <=> diff < 0
        /\ diff \in Int /\ res \in Int /\ (diff = 0 <=> lhs = rhs)
    BY <1>1, SignedLess
  <2>3. f.zf = 1 <=> lhs = rhs
    BY <1>1, UnsignedFlags DEF TruthBit
  <2>4. f.zf \in {0, 1}
    BY <1>1, UnsignedFlags DEF TruthBit
  <2>5. /\ Holds("JL", lhs, rhs) <=> diff < 0
        /\ Holds("JNL", lhs, rhs) <=> diff >= 0
        /\ Holds("JLE", lhs, rhs) <=> diff <= 0
        /\ Holds("JNLE", lhs, rhs) <=> diff > 0
        /\ Holds("JS", lhs, rhs) <=> res < 0
        /\ Holds("JNS", lhs, rhs) <=> res >= 0
        /\ Holds("JO", lhs, rhs) <=> diff # res
        /\ Holds("JNO", lhs, rhs) <=> diff = res
    BY DEF Holds
  <2> HIDE DEF f, diff, res
  <2> QED BY <1>3, <2>1, <2>2, <2>3, <2>4, <2>5, TakenCases DEF SignedJcc
<1> QED BY <1>2, <1>3 DEF Jcc, SignedJcc

(* A conditional branch looks at the flags alone. *)
LEMMA FlagsDecide ==
    ASSUME NEW i \in Jcc, UNCHANGED flags
    PROVE  Taken(i)' <=> Taken(i)
BY DEF Taken, Jcc
------------------------------------------------------------------------------
(* The program starts at its comparison, with no flags decided on. *)
LEMMA InitTypes == Init => TypeInv /\ LoopInv /\ FlagsInv
BY CountAssumption DEF Init, TypeInv, LoopInv, FlagsInv, Loops, Jcc

(* The count after a branch is a count again. *)
LEMMA CountAfterType ==
    ASSUME NEW i \in Branches, count \in 0 .. CountMod - 1
    PROVE  /\ CountAfter(i) \in 0 .. CountMod - 1
           /\ i \in Loops /\ count # 0 => CountAfter(i) = count - 1
           /\ i \in Loops /\ count = 0 => CountAfter(i) = (0 - 1) % CountMod
<1>1. CountMod \in Nat \ {0}
  BY CountAssumption
<1>2. \A x \in 0 .. CountMod - 1 : x % CountMod = x
  BY <1>1
<1>3. (count - 1) % CountMod \in 0 .. CountMod - 1
  BY <1>1
<1> QED BY <1>1, <1>2, <1>3 DEF CountAfter

(* A comparison sets the flags the branch will look at, and is counted. *)
LEMMA CompareStep ==
    ASSUME TypeInv, LoopInv, FlagsInv,
           NEW lhs \in Words, NEW rhs \in Words, NEW by \in {"CMP", "Emulate"},
           Compare(lhs, rhs, by)
    PROVE  TypeInv' /\ LoopInv' /\ FlagsInv'
<1>1. TypeInv'
  BY DEF TypeInv, Compare
<1>2. LoopInv'
  BY CountAssumption DEF TypeInv, LoopInv, Compare
<1>3. FlagsInv'
  BY DEF FlagsInv, Compare
<1> QED BY <1>1, <1>2, <1>3

(* A branch goes where the flags say and steps the count. *)
LEMMA BranchStep ==
    ASSUME TypeInv, LoopInv, FlagsInv, Branch
    PROVE  TypeInv' /\ LoopInv' /\ FlagsInv'
<1>1. /\ CountAfter(insn) \in 0 .. CountMod - 1
      /\ insn \in Loops /\ count # 0 => CountAfter(insn) = count - 1
      /\ insn \in Loops /\ count = 0 => CountAfter(insn) = (0 - 1) % CountMod
  BY CountAfterType DEF TypeInv
<1>2. TypeInv'
  BY <1>1 DEF TypeInv, Branch
<1>3. LoopInv'
  <2>1. insn \in Loops /\ Taken(insn) => count # 0
    BY DEF Taken, Always, Loops
  <2>2. CountMod \in Nat \ {0} /\ (\A x \in 0 .. CountMod - 1 : x % CountMod = x)
    BY CountAssumption
  <2>3. CASE insn \in Loops /\ count # 0
    BY <1>1, <2>1, <2>2, <2>3 DEF TypeInv, LoopInv, Branch
  <2>4. CASE insn \in Loops /\ count = 0
    <3>1. pc' = "fall" /\ trips.done = trips.from + 1
      BY <2>1, <2>4 DEF TypeInv, LoopInv, Branch
    <3>2. trips.from - trips.done = 0 - 1
      BY <3>1 DEF TypeInv
    <3> QED BY <1>1, <2>4, <3>1, <3>2 DEF TypeInv, LoopInv, Branch
  <2>5. CASE insn \notin Loops
    BY <2>5 DEF LoopInv, Branch
  <2> QED BY <2>3, <2>4, <2>5
<1>4. FlagsInv'
  <2>1. insn' = insn /\ flags' = flags /\ cmp' = cmp /\ pc = "branch"
    BY DEF Branch
  <2>2. insn \in Jcc => (Taken(insn)' <=> Taken(insn))
    BY <2>1, FlagsDecide
  <2>3. insn \in Jcc => pc' = IF Taken(insn) THEN "target" ELSE "fall"
    BY DEF Branch, Jcc, Loops
  <2> QED BY <2>1, <2>2, <2>3 DEF FlagsInv
<1> QED BY <1>2, <1>3, <1>4

(* The three invariants are inductive. *)
LEMMA Invariants == Spec => [](TypeInv /\ LoopInv /\ FlagsInv)
<1>1. TypeInv /\ LoopInv /\ FlagsInv /\ [Next]_vars => TypeInv' /\ LoopInv' /\ FlagsInv'
  <2> SUFFICES ASSUME TypeInv, LoopInv, FlagsInv, [Next]_vars
               PROVE  TypeInv' /\ LoopInv' /\ FlagsInv'
    OBVIOUS
  <2>1. CASE UNCHANGED vars
    <3>1. insn \in Jcc => (Taken(insn)' <=> Taken(insn))
      BY <2>1, FlagsDecide DEF vars
    <3> QED BY <2>1, <3>1 DEF vars, TypeInv, LoopInv, FlagsInv
  <2>2. CASE \E lhs, rhs \in Words, by \in {"CMP", "Emulate"} : Compare(lhs, rhs, by)
    BY <2>2, CompareStep
  <2>3. CASE Branch
    BY <2>3, BranchStep
  <2> QED BY <2>1, <2>2, <2>3 DEF Next, Done
<1> QED BY InitTypes, <1>1, PTL DEF Spec

(* For all words of either size, a conditional branch goes where its        *)
(* mnemonic says: every one of Emulate's sixteen Jcc cases after a CMP, and *)
(* the ones on CF, ZF and PF also after UpdateFlagsSub.                     *)
THEOREM BranchesCorrectly == Spec => []BranchCorrect
<1>1. FlagsInv => BranchCorrect
  <2> SUFFICES ASSUME FlagsInv, insn \in Jcc, pc \in {"target", "fall"},
                      cmp.by = "CMP" \/ insn \notin SignedJcc
               PROVE  pc = "target" <=> Holds(insn, cmp.lhs, cmp.rhs)
    BY DEF BranchCorrect
  <2>1. pc = "target" <=> Taken(insn)
    BY DEF FlagsInv
  <2>2. /\ cmp.lhs \in Words /\ cmp.rhs \in Words /\ cmp.by \in {"CMP", "Emulate"}
        /\ flags = IF cmp.by = "Emulate" THEN UpdateFlagsSub(cmp.lhs, cmp.rhs)
                   ELSE CompareFlags(cmp.lhs, cmp.rhs)
    BY DEF FlagsInv
  <2> QED BY <2>1, <2>2, TakenHolds
<1> QED BY Invariants, <1>1, PTL

(* For every width of the count register, a LOOP, LOOPE or LOOPNE comes     *)
(* back at most as often as its count says and steps the count down once    *)
(* for each execution, also across the wrap from zero.                      *)
THEOREM LoopsEnd == Spec => []LoopBounded
<1>1. TypeInv /\ LoopInv => LoopBounded
  <2> SUFFICES ASSUME TypeInv, LoopInv PROVE LoopBounded
    OBVIOUS
  <2>1. CountMod \in Nat \ {0} /\ (\A x \in 0 .. CountMod - 1 : x % CountMod = x)
    BY CountAssumption
  <2> QED BY <2>1 DEF TypeInv, LoopInv, LoopBounded
<1> QED BY Invariants, <1>1, PTL
==============================================================================
