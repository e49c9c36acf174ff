---------------------------- MODULE EmulateString ----------------------------
(***************************************************************************)
(* The string instructions of Emulate (Executor.cpp), with and without a   *)
(* repetition prefix.                                                      *)
(*                                                                         *)
(* "We want to treat REP instructions as executing just a single loop of   *)
(* the (internal) repetition loop": one call of Execute runs one iteration *)
(* and leaves the PC at the instruction while there are more, so that the  *)
(* count, the index registers, the flags and memory must carry everything  *)
(* the remaining iterations need. Between two iterations a page of memory  *)
(* may turn out to be missing; the client maps it and executes again.      *)
(***************************************************************************)
EXTENDS Integers, FiniteSets

CONSTANTS
    Bytes,        \* the values of a byte
    AddrMod,      \* the number of addresses, which wrap
    PageSize,
    Counts,       \* the counts the program starts from
    Sources,      \* the addresses of its source
    AXs,          \* the values of AX it starts from, as <<AL, AH>>
    Present       \* the sets of pages that may be mapped at the start

ASSUME MemoryAssumption ==
    /\ AddrMod \in Nat \ {0} /\ PageSize \in Nat \ {0} /\ AddrMod % PageSize = 0
    /\ Counts \subseteq Nat /\ Sources \subseteq 0 .. (AddrMod - 1)
    /\ AXs \subseteq Bytes \X Bytes
    /\ Present \subseteq SUBSET (0 .. (AddrMod \div PageSize - 1))

VARIABLES
    insn,         \* the instruction: operation, prefix and operand size in bytes
    s,            \* the client's state: pc, cx, si, di, ax, df, zf, mem
    mapped,       \* the pages that are there
    status,       \* what the last call of Execute returned
    first         \* history: s when the instruction was first executed

vars == <<insn, s, mapped, status, first>>

Addr == 0 .. (AddrMod - 1)
Page(a) == a \div PageSize

Moving    == {"STOS", "LODS", "MOVS"}
Comparing == {"SCAS", "CMPS"}
Prefixes(op) == IF op \in Moving THEN {"none", "REP"} ELSE {"none", "REPE", "REPNE"}
Insns == UNION {[op : {op}, prefix : Prefixes(op), size : {1, 2}] : op \in Moving \cup Comparing}

Machine == [pc : {"at", "next"}, cx : Nat, si : Addr, di : Addr, ax : Bytes \X Bytes,
            df : {0, 1}, zf : {0, 1}, mem : [Addr -> Bytes]]

(* The bytes of the element at address a, and memory with an element there. *)
Span(a) == [k \in 1 .. insn.size |-> (a + k - 1) % AddrMod]
Hits(a, b) == \E k \in 1 .. insn.size : Span(a)[k] = b
Offset(a, b) == CHOOSE k \in 1 .. insn.size : Span(a)[k] = b
Load(m, a) == [k \in 1 .. insn.size |-> m[Span(a)[k]]]
Store(m, a, v) == [b \in Addr |-> IF Hits(a, b) THEN v[Offset(a, b)] ELSE m[b]]

(* AL or AX, and AX with a new AL or AX. *)
ReadAX(m) == [k \in 1 .. insn.size |-> m.ax[k]]
WriteAX(m, v) == <<v[1], IF insn.size = 2 THEN v[2] ELSE m.ax[2]>>

(* stringop_inc *)
StringInc(m) == IF m.df = 1 THEN -insn.size ELSE insn.size

Moved(m, index) == (index + StringInc(m)) % AddrMod
Zf(m, v, w) == IF v = w THEN 1 ELSE 0

STOS(m) == [m EXCEPT !.mem = Store(m.mem, m.di, ReadAX(m)), !.di = Moved(m, m.di)]
LODS(m) == [m EXCEPT !.ax = WriteAX(m, Load(m.mem, m.si)), !.si = Moved(m, m.si)]
MOVS(m) == [m EXCEPT !.mem = Store(m.mem, m.di, Load(m.mem, m.si)),
                     !.si = Moved(m, m.si), !.di = Moved(m, m.di)]
SCAS(m) == [m EXCEPT !.zf = Zf(m, ReadAX(m), Load(m.mem, m.di)), !.di = Moved(m, m.di)]
CMPS(m) == [m EXCEPT !.zf = Zf(m, Load(m.mem, m.si), Load(m.mem, m.di)),
                     !.si = Moved(m, m.si), !.di = Moved(m, m.di)]

(* One iteration of the operation itself. *)
Operation(m) ==
    CASE insn.op = "STOS" -> STOS(m)
      [] insn.op = "LODS" -> LODS(m)
      [] insn.op = "MOVS" -> MOVS(m)
      [] insn.op = "SCAS" -> SCAS(m)
      [] insn.op = "CMPS" -> CMPS(m)

(* REPE and REPNE stop on the count alone. *)
Repeats_CountOnly(m) == m.cx # 0

(* Whether there are more iterations after the one that left m: REP, REPE   *)
(* and REPNE after the decrement.                                           *)
Repeats(m) ==
    /\ m.cx # 0
    /\ CASE insn.prefix = "REP"   -> TRUE
         [] insn.prefix = "REPE"  -> m.zf = 1
         [] insn.prefix = "REPNE" -> m.zf = 0

(* The count is not written back. *)
Emulate_KeepsCount(m) ==
    IF insn.prefix = "none" THEN [Operation(m) EXCEPT !.pc = "next"]
    ELSE [Operation(m) EXCEPT !.pc = IF Repeats(m) THEN "at" ELSE "next"]

(* What one execution leaves. *)
Emulate(m) ==
    IF insn.prefix = "none" THEN [Operation(m) EXCEPT !.pc = "next"]
    ELSE IF m.cx = 0 THEN [m EXCEPT !.pc = "next"]
    ELSE LET n == [Operation(m) EXCEPT !.cx = @ - 1]
         IN  [n EXCEPT !.pc = IF Repeats(n) THEN "at" ELSE "next"]

(* A destination that is only written is not read first. *)
Touched_SourceOnly ==
    IF insn.op \in {"LODS", "MOVS", "CMPS"} THEN {Span(s.si)[k] : k \in 1 .. insn.size} ELSE {}

(* The memory operands, which ReadMemory reads before Emulate, whatever the *)
(* count.                                                                   *)
Touched ==
    UNION {{Span(a)[k] : k \in 1 .. insn.size} :
             a \in (IF insn.op \in {"STOS", "MOVS", "SCAS", "CMPS"} THEN {s.di} ELSE {})
                   \cup (IF insn.op \in {"LODS", "MOVS", "CMPS"} THEN {s.si} ELSE {})}

Missing == {Page(a) : a \in Touched} \ mapped

Init ==
    /\ insn \in Insns
    /\ s \in {m \in [pc : {"at"}, cx : Counts, si : Sources, di : Addr, ax : AXs, df : {0, 1},
                     zf : {0, 1}, mem : [Addr -> Bytes]] : insn.prefix = "none" => m.cx = 0}
    /\ mapped \in Present
    /\ status = "kGood"
    /\ first = s

(* Execute(1). *)
Execute ==
    /\ s.pc = "at" /\ status = "kGood"
    /\ IF Missing = {} THEN s' = Emulate(s) /\ UNCHANGED status
                       ELSE status' = "kErrorReadMem" /\ UNCHANGED s
    /\ UNCHANGED <<insn, mapped, first>>

(* The client maps a missing page and tries again. *)
MapPage ==
    /\ status = "kErrorReadMem"
    /\ \E p \in Missing : mapped' = mapped \cup {p}
    /\ status' = "kGood"
    /\ UNCHANGED <<insn, s, first>>

Done == s.pc = "next" /\ UNCHANGED vars

Next == Execute \/ MapPage \/ Done

(* The client keeps executing, and finds every page it needs. *)
Spec == Init /\ [][Next]_vars /\ WF_vars(Execute \/ MapPage)
------------------------------------------------------------------------------
(* The whole instruction, as the processor describes it.                    *)

(* The index register and the element of the k-th iteration. *)
IndexAt(m, index, k) == (index + (k - 1) * (IF m.df = 1 THEN -insn.size ELSE insn.size)) % AddrMod
Equal(m, k) ==
    IF insn.op = "SCAS" THEN ReadAX(m) = Load(m.mem, IndexAt(m, m.di, k))
    ELSE Load(m.mem, IndexAt(m, m.si, k)) = Load(m.mem, IndexAt(m, m.di, k))

(* The iterations after which REPE or REPNE stops. *)
Stops(m) == {k \in 1 .. m.cx : Equal(m, k) <=> insn.prefix = "REPNE"}

(* How many iterations there are. *)
Iterations(m) ==
    IF m.pc = "next" THEN 0
    ELSE IF insn.prefix = "none" THEN 1
    ELSE IF insn.op \in Moving \/ Stops(m) = {} THEN m.cx
    ELSE CHOOSE k \in Stops(m) : \A j \in Stops(m) : k <= j

(* Memory after n iterations of MOVS: each one sees what the earlier wrote. *)
MovedMemory(m, n) ==
    LET after[k \in 0 .. n] ==
          IF k = 0 THEN m.mem
          ELSE Store(after[k - 1], IndexAt(m, m.di, k), Load(after[k - 1], IndexAt(m, m.si, k)))
    IN  after[n]

(* Memory after n iterations of STOS: each byte is from the last one that   *)
(* wrote it.                                                                *)
LastHit(m, n, b) ==
    CHOOSE k \in 1 .. n : /\ Hits(IndexAt(m, m.di, k), b)
                          /\ \A l \in (k + 1) .. n : ~Hits(IndexAt(m, m.di, l), b)
StoredMemory(m, n) ==
    [b \in Addr |-> IF \E k \in 1 .. n : Hits(IndexAt(m, m.di, k), b)
                    THEN ReadAX(m)[Offset(IndexAt(m, m.di, LastHit(m, n, b)), b)]
                    ELSE m.mem[b]]

Whole(m) ==
    LET n == Iterations(m)
    IN  [pc  |-> "next",
         cx  |-> IF insn.prefix = "none" THEN m.cx ELSE m.cx - n,
         si  |-> IF insn.op \in {"LODS", "MOVS", "CMPS"} THEN IndexAt(m, m.si, n + 1) ELSE m.si,
         di  |-> IF insn.op = "LODS" THEN m.di ELSE IndexAt(m, m.di, n + 1),
         ax  |-> IF insn.op = "LODS" /\ n > 0 THEN WriteAX(m, Load(m.mem, IndexAt(m, m.si, n)))
                                              ELSE m.ax,
         df  |-> m.df,
         zf  |-> IF insn.op \in Comparing /\ n > 0 THEN IF Equal(m, n) THEN 1 ELSE 0 ELSE m.zf,
         mem |-> CASE insn.op = "MOVS" -> MovedMemory(m, n)
                   [] insn.op = "STOS" -> StoredMemory(m, n)
                   [] OTHER -> m.mem]

(* The state between two iterations, and after a missing page, stands for   *)
(* the rest of the instruction: executing the whole of it from there gives  *)
(* what the processor makes of the state it started from. In particular the *)
(* retry after a page fault repeats nothing and skips nothing.              *)
Resumable == /\ s \in Machine
             /\ Whole(s) = Whole(first)

(* An iteration stores only into memory that was mapped, and into the one   *)
(* element at the destination.                                              *)
StoresElement ==
    [][\A a \in Addr : s'.mem[a] # s.mem[a] =>
         /\ Page(a) \in mapped
         /\ insn.op \in {"STOS", "MOVS"}
         /\ (a - s.di) % AddrMod < insn.size]_vars

(* Every string instruction comes to its end, however often it is           *)
(* interrupted by a missing page.                                           *)
Terminates == <>(s.pc = "next")
==============================================================================
