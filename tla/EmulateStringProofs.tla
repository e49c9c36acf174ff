------------------------- MODULE EmulateStringProofs -------------------------
(***************************************************************************)
(* Theorems about EmulateString: a string instruction that Emulate runs    *)
(* one iteration at a time, interrupted by missing pages, does what the    *)
(* whole instruction does, for every size of memory, count and operand.    *)
(*                                                                         *)
(* MOVS is described by a recursion over its iterations. The facts about   *)
(* it are proved by induction on the natural numbers, which is here the    *)
(* statement that a set of natural numbers has a least element.            *)
(***************************************************************************)
EXTENDS EmulateString, TLAPS, WellFoundedInduction

(* A set of natural numbers has a least element. *)
LEMMA LeastNat ==
    ASSUME NEW T, T \subseteq Nat, T # {}
    PROVE  \E x \in T : \A y \in T : x <= y
<1> DEFINE R == OpToRel(<, Nat)
<1>1. IsWellFoundedOn(R, Nat)
  BY NatLessThanWellFounded
<1>2. R = {ss \in Nat \X Nat : ss[1] < ss[2]}
  BY DEF OpToRel
<1> HIDE DEF R
<1>3. PICK x \in T : \A y \in T : ~ (<<y, x>> \in R)
  BY <1>1, WFMin, Zenon
<1>4. \A y \in T : ~(y < x)
  BY <1>2, <1>3
<1> QED BY <1>4

(* Induction, for a set. *)
LEMMA SetInduction ==
    ASSUME NEW S, 0 \in S, \A n \in Nat : n \in S => n + 1 \in S
    PROVE  Nat \subseteq S
<1> SUFFICES ASSUME NEW j \in Nat, j \notin S PROVE FALSE
  OBVIOUS
<1> DEFINE T == Nat \ S
<1>1. PICK x \in T : \A y \in T : x <= y
  BY LeastNat
<1>2. x # 0 /\ x - 1 \in Nat
  OBVIOUS
<1>3. x - 1 \in S
  BY <1>1, <1>2
<1> QED BY <1>2, <1>3

------------------------------------------------------------------------------
(* Addresses wrap. *)

(* A multiple of a that is nearer to zero than a is zero. *)
LEMMA Multiple ==
    ASSUME NEW a \in Nat \ {0}, NEW d \in Int, a * d < a, -a < a * d
    PROVE  d = 0
<1>1. CASE d >= 1
  <2>1. a * d >= a * 1
    BY <1>1
  <2> QED BY <2>1
<1>2. CASE d <= -1
  <2>1. a * d <= a * (-1)
    BY <1>2
  <2> QED BY <2>1
<1> QED BY <1>1, <1>2

(* An address that wraps is an address. *)
LEMMA ModRange ==
    ASSUME NEW x \in Int
    PROVE  x % AddrMod \in Addr
BY MemoryAssumption DEF Addr

(* An address wraps to itself. *)
LEMMA ModSmall ==
    ASSUME NEW x \in Addr
    PROVE  x % AddrMod = x
BY MemoryAssumption DEF Addr

(* Wrapping before an addition makes no difference to wrapping after it. *)
LEMMA ModAdd ==
    ASSUME NEW x \in Int, NEW y \in Int
    PROVE  ((x % AddrMod) + y) % AddrMod = (x + y) % AddrMod
<1> DEFINE q == x \div AddrMod
           w == (x % AddrMod) + y
           z == x + y
<1>1. AddrMod \in Nat \ {0}
  BY MemoryAssumption
<1>2. q \in Int /\ x = AddrMod * q + (x % AddrMod) /\ x % AddrMod \in Int
  BY <1>1
<1>p. AddrMod * q \in Int
  BY <1>1, <1>2
<1> HIDE DEF q
<1>3. w \in Int /\ z \in Int /\ z = w + AddrMod * q
  <2> DEFINE p == AddrMod * q
             m == x % AddrMod
  <2>1. p \in Int /\ m \in Int /\ x = p + m
    BY <1>2, <1>p
  <2> HIDE DEF p, m
  <2>2. m + y \in Int /\ x + y \in Int /\ x + y = (m + y) + p
    BY <2>1
  <2> QED BY <2>2 DEF p, m
<1> HIDE DEF w, z
<1>4. /\ w \div AddrMod \in Int /\ w % AddrMod \in 0 .. AddrMod - 1
      /\ w = AddrMod * (w \div AddrMod) + (w % AddrMod)
  BY <1>1, <1>3
<1>5. /\ z \div AddrMod \in Int /\ z % AddrMod \in 0 .. AddrMod - 1
      /\ z = AddrMod * (z \div AddrMod) + (z % AddrMod)
  BY <1>1, <1>3
<1> DEFINE d == z \div AddrMod - w \div AddrMod - q
<1>6. d \in Int /\ AddrMod * d = (w % AddrMod) - (z % AddrMod)
  <2>1. \A i, j \in Int : AddrMod * (i - j) = AddrMod * i - AddrMod * j
    BY <1>1
  <2>2. AddrMod * d = AddrMod * (z \div AddrMod) - AddrMod * (w \div AddrMod) - AddrMod * q
    BY <1>2, <1>4, <1>5, <2>1
  <2>3. \A i \in Int : AddrMod * i \in Int
    BY <1>1
  <2> HIDE DEF d
  <2> DEFINE zz == AddrMod * (z \div AddrMod)
             ww == AddrMod * (w \div AddrMod)
             qq == AddrMod * q
  <2>4. /\ zz \in Int /\ ww \in Int /\ qq \in Int
        /\ z = zz + (z % AddrMod) /\ w = ww + (w % AddrMod) /\ z = w + qq
        /\ AddrMod * d = zz - ww - qq
    BY <1>2, <1>3, <1>4, <1>5, <2>2, <2>3
  <2> HIDE DEF zz, ww, qq
  <2>5. AddrMod * d = (w % AddrMod) - (z % AddrMod)
    BY <1>3, <1>4, <1>5, <2>4
  <2> QED BY <1>2, <1>4, <1>5, <2>5 DEF d
<1> HIDE DEF d
<1>7. d = 0
  BY <1>1, <1>4, <1>5, <1>6, Multiple
<1>8. w % AddrMod = z % AddrMod
  BY <1>1, <1>4, <1>5, <1>6, <1>7
<1> QED BY <1>8 DEF w, z
------------------------------------------------------------------------------
(* What an instruction is, and the types of what is computed from it. *)

(* The fields of an instruction. *)
LEMMA InsnParts ==
    ASSUME insn \in Insns
    PROVE  /\ insn.size \in {1, 2}
           /\ insn.op \in {"STOS", "LODS", "MOVS", "SCAS", "CMPS"}
           /\ insn.op \in Moving => insn.prefix \in {"none", "REP"}
           /\ insn.op \in Comparing => insn.prefix \in {"none", "REPE", "REPNE"}
<1>1. PICK op \in Moving \cup Comparing :
        insn \in [op : {op}, prefix : Prefixes(op), size : {1, 2}]
  BY DEF Insns
<1>2. insn.op = op /\ insn.prefix \in Prefixes(op) /\ insn.size \in {1, 2}
  BY <1>1
<1> QED BY <1>2 DEF Moving, Comparing, Prefixes

(* The step of the index registers. *)
LEMMA Increment ==
    ASSUME insn \in Insns, NEW m
    PROVE  /\ StringInc(m) \in {-2, -1, 1, 2}
           /\ \A k \in Int : k * StringInc(m) \in Int
           /\ \A k \in Int : (k + 1) * StringInc(m) = k * StringInc(m) + StringInc(m)
<1>1. StringInc(m) \in {-2, -1, 1, 2}
  BY InsnParts DEF StringInc
<1> QED BY <1>1

(* An index register stays an address. *)
LEMMA MovedType ==
    ASSUME insn \in Insns, NEW m, NEW index \in Addr
    PROVE  Moved(m, index) \in Addr
<1>1. index + StringInc(m) \in Int
  BY Increment, MemoryAssumption DEF Addr
<1> QED BY <1>1, ModRange DEF Moved

(* Each iteration is at an address. *)
LEMMA IndexType ==
    ASSUME insn \in Insns, NEW m, NEW index \in Addr, NEW k \in Int
    PROVE  IndexAt(m, index, k) \in Addr
<1>1. IndexAt(m, index, k) = (index + (k - 1) * StringInc(m)) % AddrMod
  BY DEF IndexAt, StringInc
<1>2. index + (k - 1) * StringInc(m) \in Int
  <2>1. k - 1 \in Int /\ index \in Int
    BY MemoryAssumption DEF Addr
  <2>2. (k - 1) * StringInc(m) \in Int
    BY <2>1, Increment
  <2> QED BY <2>1, <2>2
<1> QED BY <1>1, <1>2, ModRange

(* The first iteration is at the index register. *)
LEMMA IndexFirst ==
    ASSUME insn \in Insns, NEW m, NEW index \in Addr
    PROVE  IndexAt(m, index, 1) = index
<1>1. IndexAt(m, index, 1) = (index + (1 - 1) * StringInc(m)) % AddrMod
  BY DEF IndexAt, StringInc
<1>2. index + (1 - 1) * StringInc(m) = index
  BY Increment, MemoryAssumption DEF Addr
<1> QED BY <1>1, <1>2, ModSmall

(* After an iteration the k-th one left is the one after the k-th. *)
LEMMA IndexNext ==
    ASSUME insn \in Insns, NEW m, NEW n, n.df = m.df, NEW index \in Addr, NEW k \in Int
    PROVE  IndexAt(n, Moved(m, index), k) = IndexAt(m, index, k + 1)
<1> DEFINE inc == StringInc(m)
           rest == (k - 1) * inc
<1>1. index \in Int /\ k - 1 \in Int
  BY MemoryAssumption DEF Addr
<1>2. inc \in Int /\ rest \in Int /\ k * inc \in Int /\ k * inc = rest + inc
  <2>1. ((k - 1) + 1) * inc = (k - 1) * inc + inc
    BY <1>1, Increment
  <2>2. (k - 1) + 1 = k
    OBVIOUS
  <2>3. inc \in Int /\ rest \in Int /\ k * inc \in Int
    BY <1>1, Increment
  <2> QED BY <2>1, <2>2, <2>3
<1>3. IndexAt(n, Moved(m, index), k) = (((index + inc) % AddrMod) + rest) % AddrMod
  BY DEF IndexAt, StringInc, Moved
<1>4. IndexAt(m, index, k + 1) = (index + k * inc) % AddrMod
  <2>1. (k + 1) - 1 = k
    OBVIOUS
  <2>2. IndexAt(m, index, k + 1) = (index + ((k + 1) - 1) * inc) % AddrMod
    BY DEF IndexAt, StringInc
  <2> QED BY <2>1, <2>2
<1> HIDE DEF inc, rest
<1>5. (((index + inc) % AddrMod) + rest) % AddrMod = ((index + inc) + rest) % AddrMod
  <2>1. index + inc \in Int
    BY <1>1, <1>2
  <2> QED BY <2>1, <1>2, ModAdd
<1>6. (index + inc) + rest = index + k * inc
  BY <1>1, <1>2
<1> QED BY <1>3, <1>4, <1>5, <1>6

(* Elements are bytes at addresses, and storing one leaves memory. *)
LEMMA ElementTypes ==
    ASSUME insn \in Insns, NEW a \in Addr
    PROVE  /\ Span(a) \in [1 .. insn.size -> Addr]
           /\ \A f \in [Addr -> Bytes] : Load(f, a) \in [1 .. insn.size -> Bytes]
           /\ \A f \in [Addr -> Bytes] : \A v \in [1 .. insn.size -> Bytes] :
                 Store(f, a, v) \in [Addr -> Bytes]
<1>1. \A k \in 1 .. insn.size : (a + k - 1) % AddrMod \in Addr
  <2> SUFFICES ASSUME NEW k \in 1 .. insn.size PROVE (a + k - 1) % AddrMod \in Addr
    OBVIOUS
  <2>1. a + k - 1 \in Int
    BY InsnParts, MemoryAssumption DEF Addr
  <2> QED BY <2>1, ModRange
<1>2. Span(a) \in [1 .. insn.size -> Addr]
  BY <1>1 DEF Span
<1>3. \A f \in [Addr -> Bytes] : Load(f, a) \in [1 .. insn.size -> Bytes]
  BY <1>2 DEF Load
<1>4. \A b : Hits(a, b) => Offset(a, b) \in 1 .. insn.size /\ Span(a)[Offset(a, b)] = b
  BY DEF Hits, Offset
<1>5. \A f \in [Addr -> Bytes] : \A v \in [1 .. insn.size -> Bytes] :
        Store(f, a, v) \in [Addr -> Bytes]
  BY <1>4 DEF Store
<1> QED BY <1>2, <1>3, <1>5

(* AL and AX are elements, and storing one leaves AX. *)
LEMMA AXTypes ==
    ASSUME insn \in Insns, NEW m \in Machine
    PROVE  /\ ReadAX(m) \in [1 .. insn.size -> Bytes]
           /\ \A v \in [1 .. insn.size -> Bytes] : WriteAX(m, v) \in Bytes \X Bytes
<1>1. insn.size \in {1, 2} /\ m.ax \in Bytes \X Bytes
  BY InsnParts DEF Machine
<1>2. m.ax[1] \in Bytes /\ m.ax[2] \in Bytes
  BY <1>1
<1>3. \A k \in 1 .. insn.size : k \in {1, 2}
  BY <1>1
<1> QED BY <1>1, <1>2, <1>3 DEF ReadAX, WriteAX
------------------------------------------------------------------------------
(* One iteration. *)

(* An execution that finds an iteration to run, rather than a count of zero. *)
Runs(m) == m.pc = "at" /\ (insn.prefix = "none" \/ m.cx # 0)

(* What n has in common with an iteration run in m. *)
OneIteration(m, n) ==
    /\ n.pc = IF insn.prefix # "none" /\ Repeats(n) THEN "at" ELSE "next"
    /\ n.cx = IF insn.prefix = "none" THEN m.cx ELSE m.cx - 1
    /\ n.si = IF insn.op \in {"LODS", "MOVS", "CMPS"} THEN Moved(m, m.si) ELSE m.si
    /\ n.di = IF insn.op = "LODS" THEN m.di ELSE Moved(m, m.di)
    /\ n.ax = IF insn.op = "LODS" THEN WriteAX(m, Load(m.mem, m.si)) ELSE m.ax
    /\ n.df = m.df
    /\ n.zf = IF insn.op \notin Comparing THEN m.zf ELSE IF Equal(m, 1) THEN 1 ELSE 0
    /\ n.mem = CASE insn.op = "STOS" -> Store(m.mem, m.di, ReadAX(m))
                 [] insn.op = "MOVS" -> Store(m.mem, m.di, Load(m.mem, m.si))
                 [] OTHER -> m.mem

(* The first comparison is the one at the index registers. *)
LEMMA EqualFirst ==
    ASSUME insn \in Insns, NEW m \in Machine
    PROVE  Equal(m, 1) <=> IF insn.op = "SCAS" THEN ReadAX(m) = Load(m.mem, m.di)
                           ELSE Load(m.mem, m.si) = Load(m.mem, m.di)
<1>1. m.si \in Addr /\ m.di \in Addr
  BY DEF Machine
<1>2. IndexAt(m, m.si, 1) = m.si /\ IndexAt(m, m.di, 1) = m.di
  BY <1>1, IndexFirst
<1> QED BY <1>2 DEF Equal

(* The operation, field by field. *)
LEMMA OperationFields ==
    ASSUME insn \in Insns, NEW m \in Machine
    PROVE  LET o == Operation(m)
           IN  o = [pc |-> m.pc, cx |-> m.cx, si |-> o.si, di |-> o.di, ax |-> o.ax,
                    df |-> m.df, zf |-> o.zf, mem |-> o.mem]
               /\ o.si = (IF insn.op \in {"LODS", "MOVS", "CMPS"} THEN Moved(m, m.si) ELSE m.si)
               /\ o.di = (IF insn.op = "LODS" THEN m.di ELSE Moved(m, m.di))
               /\ o.ax = (IF insn.op = "LODS" THEN WriteAX(m, Load(m.mem, m.si)) ELSE m.ax)
               /\ o.zf = (IF insn.op \notin Comparing THEN m.zf
                          ELSE IF Equal(m, 1) THEN 1 ELSE 0)
               /\ o.mem = CASE insn.op = "STOS" -> Store(m.mem, m.di, ReadAX(m))
                            [] insn.op = "MOVS" -> Store(m.mem, m.di, Load(m.mem, m.si))
                            [] OTHER -> m.mem
<1>1. m = [pc |-> m.pc, cx |-> m.cx, si |-> m.si, di |-> m.di, ax |-> m.ax,
           df |-> m.df, zf |-> m.zf, mem |-> m.mem]
  BY DEF Machine
<1>2. CASE insn.op = "STOS"
  <2>1. Operation(m) = STOS(m)
    BY <1>2 DEF Operation
  <2> QED BY <1>1, <1>2, <2>1 DEF STOS, Comparing
<1>3. CASE insn.op = "LODS"
  <2>1. Operation(m) = LODS(m)
    BY <1>3 DEF Operation
  <2> QED BY <1>1, <1>3, <2>1 DEF LODS, Comparing
<1>4. CASE insn.op = "MOVS"
  <2>1. Operation(m) = MOVS(m)
    BY <1>4 DEF Operation
  <2> QED BY <1>1, <1>4, <2>1 DEF MOVS, Comparing
<1>5. CASE insn.op = "SCAS"
  <2>1. Operation(m) = SCAS(m)
    BY <1>5 DEF Operation
  <2>2. Equal(m, 1) <=> ReadAX(m) = Load(m.mem, m.di)
    BY <1>5, EqualFirst
  <2> QED BY <1>1, <1>5, <2>1, <2>2 DEF SCAS, Zf, Comparing
<1>6. CASE insn.op = "CMPS"
  <2>1. Operation(m) = CMPS(m)
    BY <1>6 DEF Operation
  <2>2. Equal(m, 1) <=> Load(m.mem, m.si) = Load(m.mem, m.di)
    BY <1>6, EqualFirst
  <2> QED BY <1>1, <1>6, <2>1, <2>2 DEF CMPS, Zf, Comparing
<1> QED BY <1>2, <1>3, <1>4, <1>5, <1>6, InsnParts

(* Emulate runs one iteration, and leaves a state of the machine. *)
LEMMA EmulateRuns ==
    ASSUME insn \in Insns, NEW m \in Machine, Runs(m)
    PROVE  Emulate(m) \in Machine /\ OneIteration(m, Emulate(m))
<1> DEFINE o == Operation(m)
           e == Emulate(m)
           cx == IF insn.prefix = "none" THEN m.cx ELSE m.cx - 1
           again == insn.prefix # "none" /\ Repeats(e)
           pcs == IF again THEN "at" ELSE "next"
<1>1. /\ o = [pc |-> m.pc, cx |-> m.cx, si |-> o.si, di |-> o.di, ax |-> o.ax,
              df |-> m.df, zf |-> o.zf, mem |-> o.mem]
      /\ o.si = (IF insn.op \in {"LODS", "MOVS", "CMPS"} THEN Moved(m, m.si) ELSE m.si)
      /\ o.di = (IF insn.op = "LODS" THEN m.di ELSE Moved(m, m.di))
      /\ o.ax = (IF insn.op = "LODS" THEN WriteAX(m, Load(m.mem, m.si)) ELSE m.ax)
      /\ o.zf = (IF insn.op \notin Comparing THEN m.zf ELSE IF Equal(m, 1) THEN 1 ELSE 0)
      /\ o.mem = CASE insn.op = "STOS" -> Store(m.mem, m.di, ReadAX(m))
                   [] insn.op = "MOVS" -> Store(m.mem, m.di, Load(m.mem, m.si))
                   [] OTHER -> m.mem
  BY OperationFields
<1>2. /\ m.cx \in Nat /\ m.si \in Addr /\ m.di \in Addr /\ m.ax \in Bytes \X Bytes
      /\ m.df \in {0, 1} /\ m.zf \in {0, 1} /\ m.mem \in [Addr -> Bytes]
  BY DEF Machine
<1>3. cx \in Nat
  BY <1>2 DEF Runs
<1>4. o.si \in Addr /\ o.di \in Addr
  BY <1>1, <1>2, MovedType
<1>5. o.ax \in Bytes \X Bytes
  BY <1>1, <1>2, ElementTypes, AXTypes
<1>6. o.mem \in [Addr -> Bytes]
  <2>1. Store(m.mem, m.di, ReadAX(m)) \in [Addr -> Bytes]
    BY <1>2, ElementTypes, AXTypes
  <2>2. Store(m.mem, m.di, Load(m.mem, m.si)) \in [Addr -> Bytes]
    BY <1>2, ElementTypes
  <2> QED BY <1>1, <1>2, <2>1, <2>2
<1>7. o.zf \in {0, 1}
  BY <1>1, <1>2
<1>8. e = [pc |-> pcs, cx |-> cx, si |-> o.si, di |-> o.di, ax |-> o.ax,
           df |-> m.df, zf |-> o.zf, mem |-> o.mem]
  <2>1. CASE insn.prefix = "none"
    <3>1. e = [o EXCEPT !.pc = "next"]
      BY <2>1 DEF Emulate
    <3> HIDE DEF e, o
    <3> QED BY <1>1, <2>1, <3>1
  <2>2. CASE insn.prefix # "none"
    <3> DEFINE n == [o EXCEPT !.cx = @ - 1]
    <3>1. e = [n EXCEPT !.pc = IF Repeats(n) THEN "at" ELSE "next"]
      BY <2>2 DEF Emulate, Runs
    <3> HIDE DEF e, o
    <3>2. n = [pc |-> m.pc, cx |-> m.cx - 1, si |-> o.si, di |-> o.di, ax |-> o.ax,
               df |-> m.df, zf |-> o.zf, mem |-> o.mem]
      BY <1>1
    <3> HIDE DEF n
    <3>3. e.cx = n.cx /\ e.zf = n.zf
      BY <3>1, <3>2
    <3>4. Repeats(e) <=> Repeats(n)
      BY <3>3 DEF Repeats
    <3> QED BY <2>2, <3>1, <3>2, <3>4
  <2> QED BY <2>1, <2>2
<1> HIDE DEF o, cx
<1>9. e \in Machine
  BY <1>2, <1>3, <1>4, <1>5, <1>6, <1>7, <1>8 DEF Machine
<1>10. OneIteration(m, e)
  <2>1. /\ e.pc = pcs /\ e.cx = cx /\ e.si = o.si /\ e.di = o.di /\ e.ax = o.ax
        /\ e.df = m.df /\ e.zf = o.zf /\ e.mem = o.mem
    BY <1>8
  <2> HIDE DEF e
  <2> QED BY <1>1, <2>1 DEF OneIteration, cx
<1> QED BY <1>9, <1>10
------------------------------------------------------------------------------
(* How many iterations are left. *)

(* A comparison leaves memory and AX alone, so that the k-th comparison     *)
(* after an iteration is the one after the k-th before it.                  *)
LEMMA EqualNext ==
    ASSUME insn \in Insns, NEW m \in Machine, NEW n, OneIteration(m, n),
           insn.op \in Comparing, NEW k \in Int
    PROVE  Equal(n, k) <=> Equal(m, k + 1)
<1>1. /\ n.df = m.df /\ n.ax = m.ax /\ n.mem = m.mem /\ n.di = Moved(m, m.di)
      /\ insn.op = "CMPS" => n.si = Moved(m, m.si)
  BY DEF OneIteration, Comparing
<1>2. m.si \in Addr /\ m.di \in Addr
  BY DEF Machine
<1>3. IndexAt(n, n.di, k) = IndexAt(m, m.di, k + 1)
  BY <1>1, <1>2, IndexNext
<1>4. CASE insn.op = "SCAS"
  <2>1. ReadAX(n) = ReadAX(m)
    BY <1>1 DEF ReadAX
  <2> QED BY <1>1, <1>3, <1>4, <2>1 DEF Equal
<1>5. CASE insn.op = "CMPS"
  <2>1. IndexAt(n, n.si, k) = IndexAt(m, m.si, k + 1)
    BY <1>1, <1>2, <1>5, IndexNext
  <2> QED BY <1>1, <1>3, <1>5, <2>1 DEF Equal
<1> QED BY <1>4, <1>5 DEF Comparing

(* Where REPE and REPNE stop. *)
LEMMA LeastStop ==
    ASSUME NEW m \in Machine, Stops(m) # {}, NEW c,
           c = CHOOSE k \in Stops(m) : \A j \in Stops(m) : k <= j
    PROVE  c \in Stops(m) /\ \A j \in Stops(m) : c <= j
<1>1. Stops(m) \subseteq Nat
  BY DEF Stops, Machine
<1>2. \E k \in Stops(m) : \A j \in Stops(m) : k <= j
  BY <1>1, LeastNat
<1> QED BY <1>2

(* Each execution runs the first of the iterations that are left. *)
LEMMA IterationsLeft ==
    ASSUME insn \in Insns, NEW m \in Machine, Runs(m),
           NEW n \in Machine, OneIteration(m, n)
    PROVE  /\ Iterations(m) \in Nat \ {0}
           /\ Iterations(n) = Iterations(m) - 1
<1>1. m.pc = "at" /\ m.cx \in Nat /\ n.cx \in Nat
  BY DEF Runs, Machine
<1>2. CASE insn.prefix = "none"
  <2>1. n.pc = "next"
    BY <1>2 DEF OneIteration
  <2> QED BY <1>1, <1>2, <2>1 DEF Iterations
<1>3. CASE insn.prefix # "none" /\ insn.op \in Moving
  <2>1. insn.prefix = "REP" /\ m.cx # 0 /\ n.cx = m.cx - 1
    BY <1>3, InsnParts DEF Runs, OneIteration
  <2>2. n.pc = IF n.cx # 0 THEN "at" ELSE "next"
    BY <1>3, <2>1 DEF OneIteration, Repeats
  <2>3. Iterations(m) = m.cx
    BY <1>1, <1>3 DEF Iterations
  <2>4. Iterations(n) = n.cx
    BY <1>3, <2>2 DEF Iterations
  <2> QED BY <1>1, <2>1, <2>3, <2>4
<1>4. CASE insn.prefix # "none" /\ insn.op \in Comparing
  <2>1. insn.prefix \in {"REPE", "REPNE"} /\ m.cx # 0 /\ n.cx = m.cx - 1
    BY <1>4, InsnParts DEF Runs, OneIteration
  <2>2. n.zf = IF Equal(m, 1) THEN 1 ELSE 0
    BY <1>4 DEF OneIteration
  <2>3. Repeats(n) <=> n.cx # 0 /\ ~(Equal(m, 1) <=> insn.prefix = "REPNE")
    <3>1. insn.prefix = "REPE" => (Repeats(n) <=> n.cx # 0 /\ n.zf = 1)
      BY DEF Repeats
    <3>2. insn.prefix = "REPNE" => (Repeats(n) <=> n.cx # 0 /\ n.zf = 0)
      BY DEF Repeats
    <3> QED BY <2>1, <2>2, <3>1, <3>2
  <2>4. n.pc = IF Repeats(n) THEN "at" ELSE "next"
    BY <1>4 DEF OneIteration
  <2>5. 1 \in Stops(m) <=> (Equal(m, 1) <=> insn.prefix = "REPNE")
    BY <1>1, <2>1 DEF Stops
  <2>6. Stops(m) \subseteq 1 .. m.cx
    BY DEF Stops
  <2>7. insn.op \notin Moving
    BY <1>4 DEF Comparing, Moving
  <2>8. CASE 1 \in Stops(m)
    <3>1. n.pc = "next"
      BY <2>3, <2>4, <2>5, <2>8
    <3> DEFINE c == CHOOSE k \in Stops(m) : \A j \in Stops(m) : k <= j
    <3>2. Iterations(m) = c
      BY <1>1, <1>4, <2>7, <2>8 DEF Iterations
    <3>3. c \in Stops(m) /\ \A j \in Stops(m) : c <= j
      BY <2>8, LeastStop
    <3> HIDE DEF c
    <3>4. c = 1
      BY <1>1, <2>6, <2>8, <3>3
    <3>5. Iterations(n) = 0
      BY <3>1 DEF Iterations
    <3> QED BY <3>2, <3>4, <3>5
  <2>9. CASE 1 \notin Stops(m) /\ m.cx = 1
    <3>1. Stops(m) = {}
      BY <2>6, <2>9
    <3>2. Iterations(m) = 1
      BY <1>1, <1>4, <2>9, <3>1 DEF Iterations
    <3>3. n.pc = "next"
      BY <2>1, <2>3, <2>4, <2>9
    <3>4. Iterations(n) = 0
      BY <3>3 DEF Iterations
    <3> QED BY <3>2, <3>4
  <2>10. CASE 1 \notin Stops(m) /\ m.cx # 1
    <3>1. n.pc = "at" /\ n.cx # 0
      BY <1>1, <2>1, <2>3, <2>4, <2>5, <2>10
    <3>2. \A k \in Int : k \in Stops(n) <=> k + 1 \in Stops(m) /\ k >= 1
      <4> SUFFICES ASSUME NEW k \in Int
                   PROVE  k \in Stops(n) <=> k + 1 \in Stops(m) /\ k >= 1
        OBVIOUS
      <4>1. Equal(n, k) <=> Equal(m, k + 1)
        BY <1>4, EqualNext
      <4>2. k \in 1 .. n.cx <=> k + 1 \in 1 .. m.cx /\ k >= 1
        BY <1>1, <2>1
      <4> QED BY <4>1, <4>2 DEF Stops
    <3>3. Stops(n) \subseteq Int
      BY <1>1 DEF Stops
    <3>4. \A k \in Stops(m) : k - 1 \in Stops(n)
      <4> SUFFICES ASSUME NEW k \in Stops(m) PROVE k - 1 \in Stops(n)
        OBVIOUS
      <4>1. k \in Int /\ k >= 2
        BY <1>1, <2>6, <2>10
      <4>2. k - 1 \in Int /\ (k - 1) + 1 = k /\ k - 1 >= 1
        BY <4>1
      <4> QED BY <3>2, <4>2
    <3>5. CASE Stops(m) = {}
      <4>1. Stops(n) = {}
        BY <3>2, <3>3, <3>5
      <4>2. Iterations(m) = m.cx /\ Iterations(n) = n.cx
        BY <1>1, <1>4, <3>1, <3>5, <4>1 DEF Iterations
      <4> QED BY <1>1, <2>1, <4>2
    <3>6. CASE Stops(m) # {}
      <4> DEFINE c == CHOOSE k \in Stops(m) : \A j \in Stops(m) : k <= j
                 d == CHOOSE k \in Stops(n) : \A j \in Stops(n) : k <= j
      <4>1. Stops(n) # {}
        BY <3>4, <3>6
      <4>2. Iterations(m) = c
        BY <1>1, <1>4, <2>7, <3>6 DEF Iterations
      <4>3. Iterations(n) = d
        BY <1>4, <2>7, <3>1, <4>1 DEF Iterations
      <4>4. c \in Stops(m) /\ \A j \in Stops(m) : c <= j
        BY <3>6, LeastStop
      <4>5. d \in Stops(n) /\ \A j \in Stops(n) : d <= j
        BY <4>1, LeastStop
      <4> HIDE DEF c, d
      <4>6. c \in Nat \ {0} /\ d \in Int
        BY <1>1, <2>6, <3>3, <4>4, <4>5
      <4>7. d <= c - 1
        BY <3>4, <4>4, <4>5
      <4>8. c <= d + 1
        BY <3>2, <4>4, <4>5, <4>6
      <4>9. d = c - 1
        BY <4>6, <4>7, <4>8
      <4> QED BY <4>2, <4>3, <4>6, <4>9
    <3> QED BY <3>5, <3>6
  <2> QED BY <2>8, <2>9, <2>10
<1> QED BY <1>2, <1>3, <1>4, InsnParts DEF Moving, Comparing
------------------------------------------------------------------------------
(* What the iterations of STOS leave in memory. *)

(* Iteration k of the first n is the last one that writes the byte at b. *)
WritesLast(m, n, b, k) ==
    /\ k \in 1 .. n /\ Hits(IndexAt(m, m.di, k), b)
    /\ \A l \in (k + 1) .. n : ~Hits(IndexAt(m, m.di, l), b)

(* LastHit is the iteration that writes last. *)
LEMMA LastHitIs ==
    ASSUME NEW m, NEW n \in Nat, NEW b, NEW k \in Nat, WritesLast(m, n, b, k)
    PROVE  LastHit(m, n, b) = k
<1> DEFINE c == LastHit(m, n, b)
<1>1. /\ c \in 1 .. n /\ Hits(IndexAt(m, m.di, c), b)
      /\ \A l \in (c + 1) .. n : ~Hits(IndexAt(m, m.di, l), b)
  BY DEF LastHit, WritesLast
<1> HIDE DEF c
<1>2. ~(k < c) /\ ~(c < k)
  BY <1>1 DEF WritesLast
<1>3. c = k
  BY <1>1, <1>2
<1> QED BY <1>3 DEF c

(* Where some iteration writes, one writes last. *)
LEMMA LastHitExists ==
    ASSUME NEW m, NEW n \in Nat, NEW b, \E k \in 1 .. n : Hits(IndexAt(m, m.di, k), b)
    PROVE  \E k \in Nat : WritesLast(m, n, b, k)
<1> DEFINE T == {j \in Nat : n - j \in 1 .. n /\ Hits(IndexAt(m, m.di, n - j), b)}
<1>1. PICK k \in 1 .. n : Hits(IndexAt(m, m.di, k), b)
  OBVIOUS
<1>2. n - k \in T
  <2>1. n - k \in Nat /\ n - (n - k) = k
    OBVIOUS
  <2> QED BY <1>1, <2>1
<1>3. PICK x \in T : \A y \in T : x <= y
  BY <1>2, LeastNat
<1>4. \A l \in (n - x + 1) .. n : ~Hits(IndexAt(m, m.di, l), b)
  <2> SUFFICES ASSUME NEW l \in (n - x + 1) .. n, Hits(IndexAt(m, m.di, l), b) PROVE FALSE
    OBVIOUS
  <2>1. x \in Nat /\ n - x \in 1 .. n
    OBVIOUS
  <2>2. n - l \in Nat /\ n - (n - l) = l /\ n - l < x /\ l \in 1 .. n
    BY <2>1
  <2>3. n - l \in T
    BY <2>2
  <2> QED BY <1>3, <2>1, <2>2, <2>3
<1>5. n - x \in Nat /\ n - x \in 1 .. n /\ Hits(IndexAt(m, m.di, n - x), b)
  OBVIOUS
<1>6. WritesLast(m, n, b, n - x)
  BY <1>4, <1>5 DEF WritesLast
<1> QED BY <1>5, <1>6

(* After an iteration of STOS, what the rest of them leave in memory. *)
LEMMA StoredNext ==
    ASSUME insn \in Insns, NEW m \in Machine, NEW n, OneIteration(m, n), insn.op = "STOS",
           NEW k \in Nat
    PROVE  StoredMemory(n, k) = StoredMemory(m, k + 1)
<1>1. /\ n.df = m.df /\ n.ax = m.ax /\ n.di = Moved(m, m.di)
      /\ n.mem = Store(m.mem, m.di, ReadAX(m))
  BY DEF OneIteration
<1>2. m.di \in Addr
  BY DEF Machine
<1>3. \A j \in Int : IndexAt(n, n.di, j) = IndexAt(m, m.di, j + 1)
  BY <1>1, <1>2, IndexNext
<1>4. IndexAt(m, m.di, 1) = m.di
  BY <1>2, IndexFirst
<1>5. ReadAX(n) = ReadAX(m)
  BY <1>1 DEF ReadAX
<1> SUFFICES ASSUME NEW b \in Addr PROVE StoredMemory(n, k)[b] = StoredMemory(m, k + 1)[b]
  BY DEF StoredMemory
<1>6. StoredMemory(n, k)[b] =
        IF \E j \in 1 .. k : Hits(IndexAt(n, n.di, j), b)
        THEN ReadAX(n)[Offset(IndexAt(n, n.di, LastHit(n, k, b)), b)] ELSE n.mem[b]
  BY DEF StoredMemory
<1>7. StoredMemory(m, k + 1)[b] =
        IF \E j \in 1 .. k + 1 : Hits(IndexAt(m, m.di, j), b)
        THEN ReadAX(m)[Offset(IndexAt(m, m.di, LastHit(m, k + 1, b)), b)] ELSE m.mem[b]
  BY DEF StoredMemory
<1>8. n.mem[b] = IF Hits(m.di, b) THEN ReadAX(m)[Offset(m.di, b)] ELSE m.mem[b]
  BY <1>1 DEF Store
<1>9. CASE \E j \in 1 .. k : Hits(IndexAt(n, n.di, j), b)
  <2>1. PICK j \in Nat : WritesLast(n, k, b, j)
    BY <1>9, LastHitExists
  <2>2. j \in 1 .. k /\ Hits(IndexAt(n, n.di, j), b)
    BY <2>1 DEF WritesLast
  <2>3. \A l \in (j + 1) .. k : ~Hits(IndexAt(n, n.di, l), b)
    BY <2>1 DEF WritesLast
  <2>4. j + 1 \in 1 .. k + 1 /\ Hits(IndexAt(m, m.di, j + 1), b)
    BY <1>3, <2>2
  <2>5. \A l \in ((j + 1) + 1) .. k + 1 : ~Hits(IndexAt(m, m.di, l), b)
    <3> SUFFICES ASSUME NEW l \in ((j + 1) + 1) .. k + 1 PROVE ~Hits(IndexAt(m, m.di, l), b)
      OBVIOUS
    <3>1. l - 1 \in (j + 1) .. k /\ l - 1 \in Int /\ (l - 1) + 1 = l
      OBVIOUS
    <3> QED BY <1>3, <2>3, <3>1
  <2>6. WritesLast(m, k + 1, b, j + 1)
    BY <2>4, <2>5 DEF WritesLast
  <2>7. LastHit(n, k, b) = j /\ LastHit(m, k + 1, b) = j + 1
    <3>1. LastHit(n, k, b) = j
      BY <2>1, LastHitIs
    <3>2. k + 1 \in Nat /\ j + 1 \in Nat
      OBVIOUS
    <3> QED BY <2>6, <3>1, <3>2, LastHitIs
  <2> QED BY <1>3, <1>5, <1>6, <1>7, <1>9, <2>4, <2>7
<1>10. CASE ~(\E j \in 1 .. k : Hits(IndexAt(n, n.di, j), b))
  <2>1. \A l \in 2 .. k + 1 : ~Hits(IndexAt(m, m.di, l), b)
    <3> SUFFICES ASSUME NEW l \in 2 .. k + 1 PROVE ~Hits(IndexAt(m, m.di, l), b)
      OBVIOUS
    <3>1. l - 1 \in 1 .. k /\ l - 1 \in Int /\ (l - 1) + 1 = l
      OBVIOUS
    <3> QED BY <1>3, <1>10, <3>1
  <2>2. CASE Hits(m.di, b)
    <3>1. WritesLast(m, k + 1, b, 1)
      BY <1>4, <2>1, <2>2 DEF WritesLast
    <3>2. LastHit(m, k + 1, b) = 1
      BY <3>1, LastHitIs
    <3>3. \E j \in 1 .. k + 1 : Hits(IndexAt(m, m.di, j), b)
      BY <1>4, <2>2
    <3> QED BY <1>4, <1>6, <1>7, <1>8, <1>10, <2>2, <3>2, <3>3
  <2>3. CASE ~Hits(m.di, b)
    <3>1. ~(\E j \in 1 .. k + 1 : Hits(IndexAt(m, m.di, j), b))
      BY <1>4, <2>1, <2>3
    <3> QED BY <1>6, <1>7, <1>8, <1>10, <2>3, <3>1
  <2> QED BY <2>2, <2>3
<1> QED BY <1>9, <1>10

(* No iteration of STOS changes nothing. *)
LEMMA StoredNone ==
    ASSUME NEW m \in Machine
    PROVE  StoredMemory(m, 0) = m.mem
BY DEF StoredMemory, Machine

------------------------------------------------------------------------------
(* What the iterations of MOVS leave in memory. *)

(* g is memory after each of the first n iterations. *)
MovedBy(m, n, g) ==
    g = [k \in 0 .. n |->
           IF k = 0 THEN m.mem
           ELSE Store(g[k - 1], IndexAt(m, m.di, k), Load(g[k - 1], IndexAt(m, m.si, k)))]

(* The recursion is well-founded. *)
LEMMA MovedExists ==
    ASSUME NEW m, NEW n \in Nat
    PROVE  \E g : MovedBy(m, n, g)
<1> DEFINE S == {j \in Nat : \E g : MovedBy(m, j, g)}
<1>1. 0 \in S
  <2>1. MovedBy(m, 0, [k \in 0 .. 0 |-> m.mem])
    BY DEF MovedBy
  <2> QED BY <2>1
<1>2. ASSUME NEW j \in Nat, j \in S PROVE j + 1 \in S
  <2>1. PICK g : MovedBy(m, j, g)
    BY <1>2
  <2> DEFINE last == Store(g[j], IndexAt(m, m.di, j + 1), Load(g[j], IndexAt(m, m.si, j + 1)))
             h == [k \in 0 .. j + 1 |-> IF k = j + 1 THEN last ELSE g[k]]
             new == [k \in 0 .. j + 1 |->
                       IF k = 0 THEN m.mem
                       ELSE Store(h[k - 1], IndexAt(m, m.di, k),
                                  Load(h[k - 1], IndexAt(m, m.si, k)))]
  <2>2. \A k \in 0 .. j : g[k] =
          IF k = 0 THEN m.mem
          ELSE Store(g[k - 1], IndexAt(m, m.di, k), Load(g[k - 1], IndexAt(m, m.si, k)))
    BY <2>1 DEF MovedBy
  <2>3. ASSUME NEW k \in 0 .. j + 1 PROVE h[k] = new[k]
    <3>1. CASE k = 0
      BY <2>2, <3>1
    <3>2. CASE k # 0
      <4>1. k - 1 \in 0 .. j /\ k - 1 \in 0 .. j + 1 /\ k - 1 # j + 1
        BY <3>2
      <4>2. h[k - 1] = g[k - 1]
        BY <4>1
      <4>3. new[k] = Store(g[k - 1], IndexAt(m, m.di, k), Load(g[k - 1], IndexAt(m, m.si, k)))
        BY <3>2, <4>2
      <4>4. CASE k = j + 1
        <5>1. k - 1 = j
          BY <4>4
        <5> QED BY <4>3, <4>4, <5>1
      <4>5. CASE k # j + 1
        <5>1. k \in 0 .. j
          BY <4>5
        <5> QED BY <2>2, <3>2, <4>3, <4>5, <5>1
      <4> QED BY <4>4, <4>5
    <3> QED BY <3>1, <3>2
  <2>4. h = new
    BY <2>3
  <2>5. MovedBy(m, j + 1, h)
    BY <2>4 DEF MovedBy
  <2> QED BY <2>5
<1> HIDE DEF S
<1>3. Nat \subseteq S
  BY <1>1, <1>2, SetInduction
<1> QED BY <1>3 DEF S

(* MovedMemory is the last value of the recursion. *)
LEMMA MovedIs ==
    ASSUME NEW m, NEW n \in Nat
    PROVE  \E g : MovedBy(m, n, g) /\ MovedMemory(m, n) = g[n]
<1> DEFINE g == CHOOSE f : MovedBy(m, n, f)
<1>1. MovedBy(m, n, g)
  BY MovedExists
<1>2. MovedMemory(m, n) = g[n]
  BY DEF MovedMemory, MovedBy
<1> QED BY <1>1, <1>2
(* No iteration of MOVS changes nothing. *)
LEMMA MovedNone ==
    ASSUME NEW m
    PROVE  MovedMemory(m, 0) = m.mem
<1>1. PICK g : MovedBy(m, 0, g) /\ MovedMemory(m, 0) = g[0]
  BY MovedIs
<1> QED BY <1>1 DEF MovedBy

(* After an iteration of MOVS, what the rest of them leave in memory. *)
LEMMA MovedNext ==
    ASSUME insn \in Insns, NEW m \in Machine, NEW n, OneIteration(m, n), insn.op = "MOVS",
           NEW j \in Nat
    PROVE  MovedMemory(n, j) = MovedMemory(m, j + 1)
<1>1. /\ n.df = m.df /\ n.si = Moved(m, m.si) /\ n.di = Moved(m, m.di)
      /\ n.mem = Store(m.mem, m.di, Load(m.mem, m.si))
  BY DEF OneIteration
<1>2. m.si \in Addr /\ m.di \in Addr
  BY DEF Machine
<1>3. \A k \in Int : /\ IndexAt(n, n.di, k) = IndexAt(m, m.di, k + 1)
                     /\ IndexAt(n, n.si, k) = IndexAt(m, m.si, k + 1)
  BY <1>1, <1>2, IndexNext
<1>4. IndexAt(m, m.di, 1) = m.di /\ IndexAt(m, m.si, 1) = m.si
  BY <1>2, IndexFirst
<1>5. PICK h : MovedBy(n, j, h) /\ MovedMemory(n, j) = h[j]
  BY MovedIs
<1>6. PICK g : MovedBy(m, j + 1, g) /\ MovedMemory(m, j + 1) = g[j + 1]
  <2>1. j + 1 \in Nat
    OBVIOUS
  <2> QED BY <2>1, MovedIs
<1> DEFINE S == {k \in Nat : k <= j => h[k] = g[k + 1]}
<1>7. \A k \in 0 .. j : h[k] =
        IF k = 0 THEN n.mem
        ELSE Store(h[k - 1], IndexAt(n, n.di, k), Load(h[k - 1], IndexAt(n, n.si, k)))
  BY <1>5 DEF MovedBy
<1>8. \A k \in 0 .. j + 1 : g[k] =
        IF k = 0 THEN m.mem
        ELSE Store(g[k - 1], IndexAt(m, m.di, k), Load(g[k - 1], IndexAt(m, m.si, k)))
  BY <1>6 DEF MovedBy
<1>9. 0 \in S
  <2>1. 0 \in 0 .. j + 1 /\ 1 \in 0 .. j + 1 /\ 1 - 1 = 0 /\ 0 + 1 = 1 /\ 1 # 0 /\ 0 \in 0 .. j
    OBVIOUS
  <2>2. h[0] = n.mem
    BY <1>7, <2>1
  <2>3. g[0] = m.mem
    BY <1>8, <2>1
  <2>4. g[1] = Store(g[0], IndexAt(m, m.di, 1), Load(g[0], IndexAt(m, m.si, 1)))
    BY <1>8, <2>1
  <2>5. g[1] = n.mem
    BY <1>1, <1>4, <2>3, <2>4
  <2> QED BY <2>1, <2>2, <2>5
<1>10. ASSUME NEW k \in Nat, k \in S PROVE k + 1 \in S
  <2> SUFFICES ASSUME k + 1 <= j PROVE h[k + 1] = g[(k + 1) + 1]
    OBVIOUS
  <2>1. /\ k <= j /\ k + 1 \in 0 .. j /\ (k + 1) + 1 \in 0 .. j + 1 /\ (k + 1) - 1 = k
        /\ ((k + 1) + 1) - 1 = k + 1 /\ k + 1 # 0 /\ (k + 1) + 1 # 0 /\ k + 1 \in Int
    OBVIOUS
  <2>2. h[k] = g[k + 1]
    BY <1>10, <2>1
  <2>3. h[k + 1] = Store(h[k], IndexAt(n, n.di, k + 1), Load(h[k], IndexAt(n, n.si, k + 1)))
    BY <1>7, <2>1
  <2>4. g[(k + 1) + 1] = Store(g[k + 1], IndexAt(m, m.di, (k + 1) + 1),
                               Load(g[k + 1], IndexAt(m, m.si, (k + 1) + 1)))
    BY <1>8, <2>1
  <2> QED BY <1>3, <2>1, <2>2, <2>3, <2>4
<1> HIDE DEF S
<1>11. j \in S
  BY <1>9, <1>10, SetInduction
<1> QED BY <1>5, <1>6, <1>11 DEF S

------------------------------------------------------------------------------
(* The whole instruction, from one state to the next. *)

(* When the instruction is over, the rest of it changes nothing. *)
LEMMA WholeDone ==
    ASSUME insn \in Insns, NEW m \in Machine, m.pc = "next"
    PROVE  Whole(m) = m
<1>1. Iterations(m) = 0
  BY DEF Iterations
<1>2. m.si \in Addr /\ m.di \in Addr /\ m.cx \in Nat
  BY DEF Machine
<1>3. IndexAt(m, m.si, 0 + 1) = m.si /\ IndexAt(m, m.di, 0 + 1) = m.di
  <2>1. 0 + 1 = 1
    OBVIOUS
  <2> QED BY <1>2, <2>1, IndexFirst
<1>4. StoredMemory(m, 0) = m.mem /\ MovedMemory(m, 0) = m.mem
  BY StoredNone, MovedNone
<1>5. m = [pc |-> m.pc, cx |-> m.cx, si |-> m.si, di |-> m.di, ax |-> m.ax,
           df |-> m.df, zf |-> m.zf, mem |-> m.mem]
  BY DEF Machine
<1>6. Whole(m) = [pc |-> "next", cx |-> m.cx, si |-> m.si, di |-> m.di, ax |-> m.ax,
                  df |-> m.df, zf |-> m.zf, mem |-> m.mem]
  BY <1>1, <1>2, <1>3, <1>4 DEF Whole
<1> QED BY <1>5, <1>6

(* A count of zero is no iteration. *)
LEMMA WholeEmpty ==
    ASSUME insn \in Insns, NEW m \in Machine, m.pc = "at", insn.prefix # "none", m.cx = 0
    PROVE  Whole(m) = [m EXCEPT !.pc = "next"]
<1>1. Iterations(m) = 0
  <2>1. Stops(m) = {}
    BY DEF Stops
  <2> QED BY <2>1 DEF Iterations
<1>2. m.si \in Addr /\ m.di \in Addr /\ m.cx \in Nat
  BY DEF Machine
<1>3. IndexAt(m, m.si, 0 + 1) = m.si /\ IndexAt(m, m.di, 0 + 1) = m.di
  <2>1. 0 + 1 = 1
    OBVIOUS
  <2> QED BY <1>2, <2>1, IndexFirst
<1>4. StoredMemory(m, 0) = m.mem /\ MovedMemory(m, 0) = m.mem
  BY StoredNone, MovedNone
<1>5. m = [pc |-> m.pc, cx |-> m.cx, si |-> m.si, di |-> m.di, ax |-> m.ax,
           df |-> m.df, zf |-> m.zf, mem |-> m.mem]
  BY DEF Machine
<1>6. Whole(m) = [pc |-> "next", cx |-> m.cx, si |-> m.si, di |-> m.di, ax |-> m.ax,
                  df |-> m.df, zf |-> m.zf, mem |-> m.mem]
  BY <1>1, <1>2, <1>3, <1>4 DEF Whole
<1> QED BY <1>5, <1>6

(* After an iteration, the rest of the instruction leads where the whole    *)
(* of it would have led before.                                             *)
LEMMA WholeNext ==
    ASSUME insn \in Insns, NEW m \in Machine, Runs(m),
           NEW n \in Machine, OneIteration(m, n)
    PROVE  Whole(n) = Whole(m)
<1> DEFINE N == Iterations(n)
<1>1. N \in Nat /\ Iterations(m) = N + 1
  BY IterationsLeft
<1> HIDE DEF N
<1>2. /\ m.si \in Addr /\ m.di \in Addr /\ m.cx \in Nat /\ n.cx \in Nat
      /\ m.mem \in [Addr -> Bytes] /\ N + 1 \in Int /\ N \in Int
  BY <1>1 DEF Machine
<1>3. (IF insn.prefix = "none" THEN n.cx ELSE n.cx - N)
      = (IF insn.prefix = "none" THEN m.cx ELSE m.cx - (N + 1))
  BY <1>1, <1>2 DEF OneIteration
<1>4. (IF insn.op \in {"LODS", "MOVS", "CMPS"} THEN IndexAt(n, n.si, N + 1) ELSE n.si)
      = (IF insn.op \in {"LODS", "MOVS", "CMPS"} THEN IndexAt(m, m.si, (N + 1) + 1) ELSE m.si)
  BY <1>2, IndexNext DEF OneIteration
<1>5. (IF insn.op = "LODS" THEN n.di ELSE IndexAt(n, n.di, N + 1))
      = (IF insn.op = "LODS" THEN m.di ELSE IndexAt(m, m.di, (N + 1) + 1))
  BY <1>2, IndexNext DEF OneIteration
<1>6. N + 1 > 0
  BY <1>1
<1>7. (IF insn.op = "LODS" /\ N > 0 THEN WriteAX(n, Load(n.mem, IndexAt(n, n.si, N))) ELSE n.ax)
      = (IF insn.op = "LODS" /\ N + 1 > 0
         THEN WriteAX(m, Load(m.mem, IndexAt(m, m.si, N + 1))) ELSE m.ax)
  <2>1. CASE insn.op # "LODS"
    BY <2>1 DEF OneIteration
  <2>2. CASE insn.op = "LODS" /\ N = 0
    <3>1. IndexAt(m, m.si, N + 1) = m.si
      <4>1. N + 1 = 1
        BY <2>2
      <4> QED BY <1>2, <4>1, IndexFirst
    <3> QED BY <1>6, <2>2, <3>1 DEF OneIteration
  <2>3. CASE insn.op = "LODS" /\ N # 0
    <3>1. N > 0
      BY <1>1, <2>3
    <3>2. /\ n.df = m.df /\ n.si = Moved(m, m.si) /\ n.mem = m.mem
          /\ n.ax = WriteAX(m, Load(m.mem, m.si))
      BY <2>3 DEF OneIteration
    <3>3. IndexAt(n, n.si, N) = IndexAt(m, m.si, N + 1)
      BY <1>2, <3>2, IndexNext
    <3>4. insn.size \in {1, 2}
      BY InsnParts
    <3>5. \A v : WriteAX(n, v) = WriteAX(m, v)
      BY <3>2, <3>4 DEF WriteAX
    <3> QED BY <1>6, <2>3, <3>1, <3>2, <3>3, <3>5
  <2> QED BY <2>1, <2>2, <2>3
<1>8. (IF insn.op \in Comparing /\ N > 0 THEN IF Equal(n, N) THEN 1 ELSE 0 ELSE n.zf)
      = (IF insn.op \in Comparing /\ N + 1 > 0 THEN IF Equal(m, N + 1) THEN 1 ELSE 0 ELSE m.zf)
  <2>1. CASE insn.op \notin Comparing
    BY <2>1 DEF OneIteration
  <2>2. CASE insn.op \in Comparing /\ N = 0
    <3>1. N + 1 = 1
      BY <2>2
    <3> QED BY <1>6, <2>2, <3>1 DEF OneIteration
  <2>3. CASE insn.op \in Comparing /\ N # 0
    <3>1. N > 0
      BY <1>1, <2>3
    <3>2. Equal(n, N) <=> Equal(m, N + 1)
      BY <1>2, <2>3, EqualNext
    <3> QED BY <1>6, <2>3, <3>1, <3>2
  <2> QED BY <2>1, <2>2, <2>3
<1>9. (CASE insn.op = "MOVS" -> MovedMemory(n, N)
         [] insn.op = "STOS" -> StoredMemory(n, N)
         [] OTHER -> n.mem)
      = (CASE insn.op = "MOVS" -> MovedMemory(m, N + 1)
           [] insn.op = "STOS" -> StoredMemory(m, N + 1)
           [] OTHER -> m.mem)
  <2>1. CASE insn.op = "MOVS"
    <3>1. MovedMemory(n, N) = MovedMemory(m, N + 1)
      BY <1>1, <2>1, MovedNext
    <3> QED BY <2>1, <3>1
  <2>2. CASE insn.op = "STOS"
    <3>1. StoredMemory(n, N) = StoredMemory(m, N + 1)
      BY <1>1, <2>2, StoredNext
    <3> QED BY <2>2, <3>1
  <2>3. CASE insn.op \notin {"MOVS", "STOS"}
    <3>1. n.mem = m.mem
      BY <2>3 DEF OneIteration
    <3> QED BY <2>3, <3>1
  <2> QED BY <2>1, <2>2, <2>3
<1>10. n.df = m.df
  BY DEF OneIteration
<1> QED BY <1>1, <1>3, <1>4, <1>5, <1>7, <1>8, <1>9, <1>10 DEF Whole, N
------------------------------------------------------------------------------
(* The instruction does not change. *)
LEMMA SameWhole ==
    ASSUME UNCHANGED insn
    PROVE  Whole(s)' = Whole(s') /\ Whole(first)' = Whole(first')
BY DEF Whole, Iterations, IndexAt, Equal, Load, Stops, Span, Hits, Offset, ReadAX, WriteAX,
       MovedMemory, StoredMemory, LastHit, Store

(* What Resumable needs to be inductive. *)
StringInv == insn \in Insns /\ first \in Machine /\ Resumable

(* At the start the instruction is whole. *)
LEMMA InitString == Init => StringInv
<1> SUFFICES ASSUME Init PROVE StringInv
  OBVIOUS
<1>1. insn \in Insns /\ first = s
  BY DEF Init
<1>2. /\ s \in [pc : {"at"}, cx : Counts, si : Sources, di : Addr, ax : AXs, df : {0, 1},
                zf : {0, 1}, mem : [Addr -> Bytes]]
  BY DEF Init
<1>3. Counts \subseteq Nat /\ Sources \subseteq Addr /\ AXs \subseteq Bytes \X Bytes
  BY MemoryAssumption DEF Addr
<1>4. s \in Machine
  BY <1>2, <1>3 DEF Machine
<1> QED BY <1>1, <1>4 DEF StringInv, Resumable

(* An execution leads to a state that stands for the rest. *)
LEMMA ExecuteString ==
    ASSUME StringInv, Execute
    PROVE  StringInv'
<1>1. UNCHANGED <<insn, first>> /\ s.pc = "at" /\ insn \in Insns /\ s \in Machine
  BY DEF StringInv, Resumable, Execute
<1>2. s' \in Machine /\ Whole(s') = Whole(s)
  <2>1. CASE Missing # {}
    BY <1>1, <2>1 DEF Execute
  <2>2. CASE Missing = {} /\ Runs(s)
    <3>1. s' = Emulate(s)
      BY <2>2 DEF Execute
    <3>2. Emulate(s) \in Machine /\ OneIteration(s, Emulate(s))
      BY <1>1, <2>2, EmulateRuns
    <3>3. Whole(Emulate(s)) = Whole(s)
      BY <1>1, <2>2, <3>2, WholeNext
    <3> QED BY <3>1, <3>2, <3>3
  <2>3. CASE Missing = {} /\ ~Runs(s)
    <3>1. insn.prefix # "none" /\ s.cx = 0
      BY <1>1, <2>3 DEF Runs
    <3>2. s' = [s EXCEPT !.pc = "next"]
      BY <2>3, <3>1 DEF Execute, Emulate
    <3>3. [s EXCEPT !.pc = "next"] \in Machine /\ [s EXCEPT !.pc = "next"].pc = "next"
      BY <1>1 DEF Machine
    <3>4. Whole(s) = [s EXCEPT !.pc = "next"]
      BY <1>1, <3>1, WholeEmpty
    <3>5. Whole([s EXCEPT !.pc = "next"]) = [s EXCEPT !.pc = "next"]
      BY <1>1, <3>3, WholeDone
    <3> QED BY <3>2, <3>3, <3>4, <3>5
  <2> QED BY <2>1, <2>2, <2>3
<1>3. Machine' = Machine /\ Insns' = Insns
  BY DEF Machine, Insns, Addr, Prefixes, Moving, Comparing
<1>4. Whole(s)' = Whole(first)'
  BY <1>1, <1>2, SameWhole DEF StringInv, Resumable
<1> QED BY <1>1, <1>2, <1>3, <1>4 DEF StringInv, Resumable

(* Mapping a page changes nothing of the machine. *)
LEMMA SameString ==
    ASSUME StringInv, UNCHANGED <<insn, s, first>>
    PROVE  StringInv'
<1>1. Machine' = Machine /\ Insns' = Insns
  BY DEF Machine, Insns, Addr, Prefixes, Moving, Comparing
<1>2. Whole(s)' = Whole(first)'
  BY SameWhole DEF StringInv, Resumable
<1> QED BY <1>1, <1>2 DEF StringInv, Resumable

(* The invariant is inductive. *)
LEMMA StringInvariant == Spec => []StringInv
<1>1. StringInv /\ [Next]_vars => StringInv'
  <2> SUFFICES ASSUME StringInv, [Next]_vars PROVE StringInv'
    OBVIOUS
  <2>1. CASE Execute
    BY <2>1, ExecuteString
  <2>2. CASE MapPage
    BY <2>2, SameString DEF MapPage
  <2>3. CASE UNCHANGED vars
    BY <2>3, SameString DEF vars
  <2> QED BY <2>1, <2>2, <2>3 DEF Next, Done
<1> QED BY InitString, <1>1, PTL DEF Spec

(* For every size of memory and of its pages, every count, operand size and *)
(* prefix: what Emulate leaves after any number of executions, in registers *)
(* and memory, with any number of missing pages in between, is a state from *)
(* which the rest of the instruction gives what the whole of it gives.      *)
THEOREM StringsResume == Spec => []Resumable
<1>1. StringInv => Resumable
  BY DEF StringInv
<1> QED BY StringInvariant, <1>1, PTL
------------------------------------------------------------------------------
(* The bytes of an element are within its size of its address. *)
LEMMA WithinElement ==
    ASSUME insn \in Insns, NEW d \in Addr, NEW a \in Addr, Hits(d, a)
    PROVE  (a - d) % AddrMod < insn.size
<1>1. PICK k \in 1 .. insn.size : a = (d + k - 1) % AddrMod
  BY DEF Hits, Span
<1>2. insn.size \in {1, 2} /\ d \in Int /\ AddrMod \in Nat \ {0}
  BY InsnParts, MemoryAssumption DEF Addr
<1> DEFINE x == d + k - 1
           y == -d
<1>3. x \in Int /\ y \in Int /\ x + y = k - 1 /\ k - 1 \in {0, 1} /\ k - 1 < insn.size
  BY <1>2
<1>4. a - d = (x % AddrMod) + y
  <2>1. a = x % AddrMod
    BY <1>1
  <2>2. a \in Int
    BY MemoryAssumption DEF Addr
  <2> HIDE DEF x
  <2> QED BY <1>2, <2>1, <2>2
<1> HIDE DEF x, y
<1>5. (a - d) % AddrMod = (k - 1) % AddrMod
  BY <1>3, <1>4, ModAdd
<1>6. (k - 1) % AddrMod <= k - 1
  <2>1. 0 % AddrMod = 0
    BY <1>2
  <2>2. 1 % AddrMod \in {0, 1}
    <3>1. CASE AddrMod = 1
      BY <3>1
    <3>2. CASE AddrMod > 1
      BY <1>2, <3>2
    <3> QED BY <1>2, <3>1, <3>2
  <2> QED BY <1>3, <2>1, <2>2
<1>7. (k - 1) % AddrMod \in Int
  BY <1>2, <1>3
<1> QED BY <1>2, <1>3, <1>5, <1>6, <1>7

(* For every size of memory and its pages: an execution of a string         *)
(* instruction changes memory only if it is STOS or MOVS, only within the   *)
(* element at its destination, and only on pages that are there, although   *)
(* it is Execute, before Emulate, that looks whether they are.              *)
THEOREM StringsStore == Spec => StoresElement
<1> DEFINE A == \A a \in Addr : s'.mem[a] # s.mem[a] =>
                  /\ Page(a) \in mapped
                  /\ insn.op \in {"STOS", "MOVS"}
                  /\ (a - s.di) % AddrMod < insn.size
<1>1. StringInv /\ [Next]_vars => [A]_vars
  <2> SUFFICES ASSUME StringInv, [Next]_vars,
                      NEW a \in Addr, s'.mem[a] # s.mem[a]
               PROVE  /\ Page(a) \in mapped
                      /\ insn.op \in {"STOS", "MOVS"}
                      /\ (a - s.di) % AddrMod < insn.size
    OBVIOUS
  <2>1. Execute /\ Missing = {} /\ s' = Emulate(s)
    BY DEF Next, Done, MapPage, Execute, vars
  <2>2. insn \in Insns /\ s \in Machine /\ s.pc = "at"
    BY <2>1 DEF StringInv, Resumable, Execute
  <2>3. Runs(s)
    <3> SUFFICES ASSUME ~Runs(s) PROVE FALSE
      OBVIOUS
    <3>1. s' = [s EXCEPT !.pc = "next"]
      BY <2>1, <2>2 DEF Runs, Emulate
    <3>2. s'.mem = s.mem
      BY <2>2, <3>1 DEF Machine
    <3> QED BY <3>2
  <2>4. OneIteration(s, s')
    BY <2>1, <2>2, <2>3, EmulateRuns
  <2>5. /\ insn.op \in {"STOS", "MOVS"}
        /\ \E v : s'.mem = Store(s.mem, s.di, v)
    <3>1. insn.op \notin {"STOS", "MOVS"} => s'.mem = s.mem
      BY <2>4 DEF OneIteration
    <3>2. insn.op = "STOS" => s'.mem = Store(s.mem, s.di, ReadAX(s))
      BY <2>4 DEF OneIteration
    <3>3. insn.op = "MOVS" => s'.mem = Store(s.mem, s.di, Load(s.mem, s.si))
      BY <2>4 DEF OneIteration
    <3> QED BY <3>1, <3>2, <3>3
  <2>6. Hits(s.di, a)
    BY <2>5 DEF Store
  <2>7. Page(a) \in mapped
    <3>1. PICK k \in 1 .. insn.size : Span(s.di)[k] = a
      BY <2>6 DEF Hits
    <3>2. a \in Touched
      BY <2>5, <3>1 DEF Touched
    <3> QED BY <2>1, <3>2 DEF Missing
  <2>8. s.di \in Addr
    BY <2>2 DEF Machine
  <2> QED BY <2>2, <2>5, <2>6, <2>7, <2>8, WithinElement
<1>2. StringInv /\ [Next]_vars => [\A a \in Addr : s'.mem[a] # s.mem[a] =>
                                    /\ Page(a) \in mapped
                                    /\ insn.op \in {"STOS", "MOVS"}
                                    /\ (a - s.di) % AddrMod < insn.size]_vars
  BY <1>1
<1> QED BY StringInvariant, <1>2, PTL DEF Spec, StoresElement
==============================================================================
