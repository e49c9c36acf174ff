-------------------------- MODULE PolicyMemoryProofs --------------------------
(***************************************************************************)
(* Theorems about PolicyMemory, for every layout of sections, every size   *)
(* of the address space, of a page, of the input space and of an operand.  *)
(*                                                                         *)
(* A load or a store is a loop over the accesses that it is split into.    *)
(* What the loop keeps true is stated of the first n bytes of the operand  *)
(* (LoadedTo, StoredTo, MarkedTo); one access carries it from n to         *)
(* n + size. The loops are followed by induction on the natural numbers,   *)
(* which is here the statement that a set of them has a least element.     *)
(*                                                                         *)
(* PolicyInv is the inductive invariant. Its parts say what each stage     *)
(* leaves to the next: loading leaves input spaces that are whole to the   *)
(* policy, the policy leaves a range that is all there to the pointers     *)
(* that it gives out, and read_memory a permitted operand to write_memory. *)
(***************************************************************************)
EXTENDS PolicyMemory, TLAPS, WellFoundedInduction, FiniteSetTheorems

(* A set of natural numbers has a least element. *)
LEMMA LeastNat ==
    ASSUME NEW T, T \subseteq Nat, T # {}
    PROVE  \E x \in T : \A y \in T : x <= y
<1> DEFINE R == OpToRel(<, Nat)
<1>1. IsWellFoundedOn(R, Nat)
  BY NatLessThanWellFounded
<1>2. R = {ss \in Nat \X Nat : ss[1] < ss[2]}
  BY DEF OpToRel
<1> HIDE DEF R
<1>3. PICK x \in T : \A y \in T : ~ (<<y, x>> \in R)
  BY <1>1, WFMin, Zenon
<1>4. \A y \in T : ~(y < x)
  BY <1>2, <1>3
<1> QED BY <1>4

(* Induction, for a set. *)
LEMMA SetInduction ==
    ASSUME NEW S, 0 \in S, \A n \in Nat : n \in S => n + 1 \in S
    PROVE  Nat \subseteq S
<1> SUFFICES ASSUME NEW j \in Nat, j \notin S PROVE FALSE
  OBVIOUS
<1> DEFINE T == Nat \ S
<1>1. PICK x \in T : \A y \in T : x <= y
  BY LeastNat
<1>2. x # 0 /\ x - 1 \in Nat
  OBVIOUS
<1>3. x - 1 \in S
  BY <1>1, <1>2
<1> QED BY <1>2, <1>3

(* A set of natural numbers with a bound has a greatest element, and Max    *)
(* chooses it.                                                              *)
LEMMA MaxOf ==
    ASSUME NEW n \in Nat, NEW S, S \subseteq 0 .. n, S # {}
    PROVE  Max(S) \in S /\ \A y \in S : Max(S) >= y
<1> DEFINE T == {n - y : y \in S}
<1>1. T \subseteq Nat /\ T # {}
  <2>1. \A y \in S : n - y \in Nat
    OBVIOUS
  <2>2. PICK y \in S : TRUE
    OBVIOUS
  <2>3. n - y \in T
    OBVIOUS
  <2> QED BY <2>1, <2>3
<1>2. PICK x \in T : \A y \in T : x <= y
  BY <1>1, LeastNat
<1>3. PICK z \in S : x = n - z
  BY <1>2
<1>4. \A y \in S : n - y \in T
  OBVIOUS
<1>5. \A y \in S : z >= y
  BY <1>2, <1>3, <1>4
<1> QED BY <1>5 DEF Max

(* The smaller and the greater of two numbers. *)
LEMMA MinMaxPair ==
    ASSUME NEW a \in Int, NEW b \in Int
    PROVE  /\ Min({a, b}) = IF a <= b THEN a ELSE b
           /\ Max({a, b}) = IF a >= b THEN a ELSE b
BY DEF Min, Max

------------------------------------------------------------------------------
(* Pages and addresses. *)

(* The sizes are positive. *)
LEMMA SizesPositive ==
    /\ PageSize \in Nat /\ PageSize > 0 /\ NumPages \in Nat /\ NumPages > 0
    /\ AddressSpace \in Nat /\ AddressSpace > 0
    /\ AddressBytes \in Nat /\ AddressBytes > 0 /\ ByteSize \in Nat /\ ByteSize > 0
    /\ PointerIncrement \in Nat /\ PointerIncrement > 0
    /\ InputSpaceSize \in Nat /\ InputSpaceSize > 0
<1>1. /\ PageSize \in Nat /\ PageSize > 0 /\ NumPages \in Nat /\ NumPages > 0
      /\ AddressBytes \in Nat /\ AddressBytes > 0 /\ ByteSize \in Nat /\ ByteSize > 0
      /\ PointerIncrement \in Nat /\ PointerIncrement > 0
      /\ InputSpaceSize \in Nat /\ InputSpaceSize > 0
  BY SizesAssumption, PolicyAssumption
<1>2. AddressSpace \in Nat /\ AddressSpace > 0
  BY <1>1 DEF AddressSpace
<1> QED BY <1>1, <1>2

(* The page of an address. *)
LEMMA PageOfAddress ==
    ASSUME NEW a \in Nat
    PROVE  /\ a \div PageSize \in Nat
           /\ (a \div PageSize) * PageSize <= a
           /\ a < (a \div PageSize) * PageSize + PageSize
BY SizesPositive

(* Products grow with their factor. *)
LEMMA PagesGrow ==
    ASSUME NEW p \in Int, NEW q \in Int, p <= q
    PROVE  p * PageSize <= q * PageSize /\ (p + 1) * PageSize = p * PageSize + PageSize
<1>1. PageSize \in Nat
  BY SizesPositive
<1>2. (q - p) * PageSize >= 0
  BY <1>1
<1>3. (q - p) * PageSize = q * PageSize - p * PageSize
  BY <1>1
<1> QED BY <1>1, <1>2, <1>3

(* An address is in one page. *)
LEMMA PageUnique ==
    ASSUME NEW p \in Nat, NEW q \in Nat, NEW a \in Nat,
           p * PageSize <= a, a < p * PageSize + PageSize,
           q * PageSize <= a, a < q * PageSize + PageSize
    PROVE  p = q
<1> DEFINE x == p * PageSize
           y == q * PageSize
<1>1. x \in Nat /\ y \in Nat /\ x <= a /\ a < x + PageSize /\ y <= a /\ a < y + PageSize
  BY SizesPositive
<1>2. p + 1 <= q => x + PageSize <= y
  BY PagesGrow
<1>3. q + 1 <= p => y + PageSize <= x
  BY PagesGrow
<1> HIDE DEF x, y
<1>4. ~(p + 1 <= q) /\ ~(q + 1 <= p)
  BY <1>1, <1>2, <1>3, SizesPositive
<1> QED BY <1>4

(* An address in the address space is its own remainder, and its page is a  *)
(* page.                                                                    *)
LEMMA AddressInPage ==
    ASSUME NEW a \in 0 .. AddressSpace - 1
    PROVE  a % AddressSpace = a /\ a \div PageSize \in Pages
<1>1. a \in Nat /\ a < AddressSpace
  BY SizesPositive
<1>2. a % AddressSpace = a
  BY <1>1, SizesPositive
<1>3. a \div PageSize <= NumPages - 1
  <2> SUFFICES ASSUME a \div PageSize >= NumPages PROVE FALSE
    BY <1>1, PageOfAddress, SizesPositive
  <2>1. NumPages * PageSize <= (a \div PageSize) * PageSize
    BY <1>1, PageOfAddress, PagesGrow, SizesPositive
  <2> QED BY <1>1, <2>1, PageOfAddress, SizesPositive DEF AddressSpace
<1> QED BY <1>1, <1>2, <1>3, PageOfAddress, SizesPositive DEF Pages

(* The first address of a page has that page. *)
LEMMA PageStarts ==
    ASSUME NEW p \in Pages
    PROVE  /\ p * PageSize \in 0 .. AddressSpace - 1
           /\ (p * PageSize) \div PageSize = p
           /\ (p + 1) * PageSize <= AddressSpace
<1>1. p \in Nat /\ p + 1 <= NumPages
  BY SizesPositive DEF Pages
<1>2. (p + 1) * PageSize <= NumPages * PageSize /\ (p + 1) * PageSize = p * PageSize + PageSize
  BY <1>1, PagesGrow, SizesPositive
<1>3. p * PageSize >= 0 /\ p * PageSize \in Int
  BY <1>1, SizesPositive
<1> QED BY <1>1, <1>2, <1>3, SizesPositive DEF AddressSpace

------------------------------------------------------------------------------
(* What a map holds. *)

(* A function on 1 .. n is a sequence. *)
LEMMA FunctionIsSeq ==
    ASSUME NEW S, NEW n \in Nat, NEW g \in [1 .. n -> S]
    PROVE  g \in Seq(S) /\ Len(g) = n
OBVIOUS

(* The elements of a subsequence, between two positions of the sequence. *)
LEMMA SubSeqIn ==
    ASSUME NEW S, NEW s \in Seq(S), NEW f \in 1 .. Len(s), NEW l \in 1 .. Len(s), f <= l
    PROVE  /\ SubSeq(s, f, l) \in Seq(S) /\ Len(SubSeq(s, f, l)) = l - f + 1
           /\ \A j \in 1 .. l - f + 1 : SubSeq(s, f, l)[j] = s[f + j - 1]
OBVIOUS

(* The elements of a concatenation. *)
LEMMA ConcatIn ==
    \A S : \A s, t \in Seq(S) :
       /\ s \o t \in Seq(S) /\ Len(s \o t) = Len(s) + Len(t)
       /\ \A j \in 1 .. Len(s) : (s \o t)[j] = s[j]
       /\ \A j \in 1 .. Len(t) : (s \o t)[Len(s) + j] = t[j]
OBVIOUS

(* A slice that lies within a map is as long as it was asked to be. *)
LEMMA SliceOf ==
    ASSUME NEW m, MapOK(m), NEW addr \in Nat, NEW size \in Nat, size > 0,
           Span(addr, size) \subseteq m.base .. m.limit - 1
    PROVE  /\ Slice(m, addr, size) \in Seq(Bytes) /\ Len(Slice(m, addr, size)) = size
           /\ \A j \in 1 .. size : Slice(m, addr, size)[j] = m.data[addr + j - m.base]
<1>1. /\ m.base \in Nat /\ m.limit \in Nat /\ m.data \in Seq(Bytes)
      /\ Len(m.data) = m.limit - m.base
  BY DEF MapOK, MemoryMap
<1>2. addr >= m.base /\ addr + size - 1 <= m.limit - 1
  <2>1. addr \in Span(addr, size) /\ addr + size - 1 \in Span(addr, size)
    BY DEF Span
  <2> QED BY <1>1, <2>1
<1>3. Min({addr - m.base + size, Len(m.data)}) = addr - m.base + size
  <2> DEFINE x == addr - m.base + size
             y == Len(m.data)
  <2>1. x \in Int /\ y \in Int /\ x <= y
    <3>1. \A b, e \in Nat : addr + size - 1 <= e - 1
             => addr - b + size \in Int /\ e - b \in Int /\ addr - b + size <= e - b
      OBVIOUS
    <3> QED BY <1>1, <1>2, <3>1
  <2> HIDE DEF x, y
  <2>2. Min({x, y}) = x
    BY <2>1, MinMaxPair
  <2> QED BY <2>2 DEF x, y
<1> DEFINE f == addr - m.base + 1
           l == addr - m.base + size
           d == m.data
<1>4. Slice(m, addr, size) = SubSeq(d, f, l)
  BY <1>3 DEF Slice
<1>5. /\ d \in Seq(Bytes) /\ f \in 1 .. Len(d) /\ l \in 1 .. Len(d) /\ l - f + 1 = size
      /\ \A j \in 1 .. size : f + j - 1 = addr + j - m.base /\ f + j - 1 \in 1 .. Len(d)
  <2> DEFINE b == m.base
             z == m.limit
             n == Len(d)
  <2>1. /\ b \in Nat /\ z \in Nat /\ n = z - b /\ addr >= b /\ addr + size - 1 <= z - 1
        /\ f = addr - b + 1 /\ l = addr - b + size /\ d \in Seq(Bytes)
    BY <1>1, <1>2
  <2> HIDE DEF b, z, n, d, f, l
  <2>2. /\ f \in 1 .. n /\ l \in 1 .. n /\ l - f + 1 = size
        /\ \A j \in 1 .. size : f + j - 1 = addr + j - b /\ f + j - 1 \in 1 .. n
    BY <2>1
  <2> QED BY <2>1, <2>2 DEF b, n
<1> HIDE DEF d, f, l
<1>6. /\ SubSeq(d, f, l) \in Seq(Bytes) /\ Len(SubSeq(d, f, l)) = l - f + 1
      /\ \A j \in 1 .. l - f + 1 : SubSeq(d, f, l)[j] = d[f + j - 1]
  <2>1. d \in Seq(Bytes) /\ f \in 1 .. Len(d) /\ l \in 1 .. Len(d) /\ f <= l
    BY <1>5
  <2> QED BY <2>1, SubSeqIn
<1> QED BY <1>4, <1>5, <1>6 DEF d

(* A map whose bytes are overwritten is a map of the same range, and its    *)
(* other bytes are the same.                                                *)
LEMMA OverwrittenIn ==
    ASSUME NEW m, MapOK(m), NEW addr \in Nat, NEW bytes \in Seq(Bytes)
    PROVE  LET o == Overwritten(m, addr, bytes)
           IN  /\ MapOK(o)
               /\ o.name = m.name /\ o.base = m.base /\ o.limit = m.limit /\ o.flags = m.flags
               /\ o.watched = m.watched /\ o.written = m.written
               /\ \A a \in m.base .. m.limit - 1 :
                     o.data[a - m.base + 1] =
                        IF a \in Span(addr, Len(bytes)) THEN bytes[a - addr + 1]
                        ELSE m.data[a - m.base + 1]
<1> DEFINE d == [k \in DOMAIN m.data |->
                   IF m.base + k - 1 \in Span(addr, Len(bytes)) THEN bytes[m.base + k - addr]
                   ELSE m.data[k]]
<1>1. /\ m \in MemoryMap /\ m.base \in Nat /\ m.limit \in Nat /\ m.data \in Seq(Bytes)
      /\ Len(m.data) = m.limit - m.base /\ m.limit - m.base \in Nat
      /\ DOMAIN m.data = 1 .. m.limit - m.base
  BY DEF MapOK, MemoryMap
<1>2. \A k \in DOMAIN m.data : d[k] \in Bytes
  <2> TAKE k \in DOMAIN m.data
  <2>1. d[k] = IF m.base + k - 1 \in Span(addr, Len(bytes)) THEN bytes[m.base + k - addr]
               ELSE m.data[k]
    OBVIOUS
  <2>2. m.data[k] \in Bytes
    BY <1>1
  <2>3. ASSUME m.base + k - 1 \in Span(addr, Len(bytes))
        PROVE  bytes[m.base + k - addr] \in Bytes
    <3> DEFINE b == m.base
               n == Len(bytes)
    <3>1. b \in Nat /\ k \in Nat /\ k >= 1 /\ n \in Nat
      BY <1>1
    <3>2. b + k - 1 \in addr .. addr + n - 1
      BY <2>3 DEF Span
    <3> HIDE DEF b, n
    <3>3. \A c, x, e, y \in Nat : c + x - 1 \in e .. e + y - 1 => c + x - e \in 1 .. y
      OBVIOUS
    <3>4. b + k - addr \in 1 .. n
      BY <3>1, <3>2, <3>3
    <3> QED BY <3>4 DEF b, n
  <2> HIDE DEF d
  <2> QED BY <2>1, <2>2, <2>3
<1>3. d \in Seq(Bytes) /\ Len(d) = m.limit - m.base
  <2> DEFINE n == m.limit - m.base
  <2>1. n \in Nat /\ d = [k \in 1 .. n |-> d[k]] /\ \A k \in 1 .. n : d[k] \in Bytes
    BY <1>1, <1>2
  <2> HIDE DEF d, n
  <2>2. d \in Seq(Bytes) /\ Len(d) = n
    <3>1. d \in [1 .. n -> Bytes]
      BY <2>1
    <3> QED BY <2>1, <3>1, FunctionIsSeq
  <2> QED BY <2>2 DEF n
<1>4. Overwritten(m, addr, bytes) = [m EXCEPT !.data = d]
  BY DEF Overwritten
<1>5. \A a \in m.base .. m.limit - 1 :
         d[a - m.base + 1] = IF a \in Span(addr, Len(bytes)) THEN bytes[a - addr + 1]
                             ELSE m.data[a - m.base + 1]
  <2> TAKE a \in m.base .. m.limit - 1
  <2> DEFINE b == m.base
             l == m.limit
  <2>3. b \in Nat /\ l \in Nat /\ a \in b .. l - 1
    BY <1>1
  <2> HIDE DEF b, l
  <2>4. a - b + 1 \in 1 .. l - b /\ b + (a - b + 1) - 1 = a
        /\ b + (a - b + 1) - addr = a - addr + 1
    BY <2>3
  <2>1. /\ a - m.base + 1 \in 1 .. m.limit - m.base /\ m.base + (a - m.base + 1) - 1 = a
        /\ m.base + (a - m.base + 1) - addr = a - addr + 1
    BY <2>4 DEF b, l
  <2>2. a - m.base + 1 \in DOMAIN m.data
    BY <1>1, <2>1
  <2> QED BY <2>1, <2>2
<1> HIDE DEF d
<1> QED BY <1>1, <1>3, <1>4, <1>5 DEF MapOK, MemoryMap

(* The bytes of a pointer are bytes. *)
LEMMA PointerBytes ==
    ASSUME NEW ptr \in Nat
    PROVE  pointer_to_bytes(ptr) \in Seq(Bytes) /\ Len(pointer_to_bytes(ptr)) = AddressBytes
<1> DEFINE RestTo(n, g) ==
             g = [k \in 0 .. n |-> IF k = 0 THEN ptr ELSE g[k - 1] \div ByteSize]
           T == {n \in Nat : \E g : RestTo(n, g) /\ \A k \in 0 .. n : g[k] \in Nat}
<1>1. 0 \in T
  <2>1. RestTo(0, [k \in 0 .. 0 |-> ptr])
    OBVIOUS
  <2> QED BY <2>1
<1>2. ASSUME NEW n \in Nat, n \in T PROVE n + 1 \in T
  <2>1. PICK g : RestTo(n, g) /\ \A k \in 0 .. n : g[k] \in Nat
    BY <1>2
  <2> DEFINE h == [k \in 0 .. n + 1 |-> IF k = n + 1 THEN g[n] \div ByteSize ELSE g[k]]
  <2>5. n \in 0 .. n /\ g[n] \in Nat /\ g[n] \div ByteSize \in Nat
    <3>1. n \in 0 .. n /\ g[n] \in Nat
      BY <2>1
    <3> QED BY <3>1, SizesPositive
  <2>2. \A k \in 0 .. n + 1 : h[k] \in Nat
    <3> TAKE k \in 0 .. n + 1
    <3>1. k = n + 1 \/ k \in 0 .. n
      OBVIOUS
    <3> QED BY <2>1, <2>5, <3>1
  <2>3. \A k \in 0 .. n + 1 : h[k] = IF k = 0 THEN ptr ELSE h[k - 1] \div ByteSize
    BY <2>1
  <2>4. RestTo(n + 1, h)
    <3>1. h = [k \in 0 .. n + 1 |-> h[k]]
      OBVIOUS
    <3> HIDE DEF h
    <3> QED BY <2>3, <3>1
  <2> HIDE DEF RestTo, h
  <2> QED BY <2>2, <2>4
<1>3. AddressBytes \in T
  <2>1. Nat \subseteq T
    <3> HIDE DEF T
    <3> QED BY <1>1, <1>2, SetInduction
  <2> QED BY <2>1, SizesPositive
<1>4. PICK g : RestTo(AddressBytes, g) /\ \A k \in 0 .. AddressBytes : g[k] \in Nat
  BY <1>3
<1> DEFINE f == CHOOSE g_ : RestTo(AddressBytes, g_)
<1>5. RestTo(AddressBytes, f)
  <2> HIDE DEF RestTo
  <2> QED BY <1>4
<1>6. ASSUME NEW k \in 0 .. AddressBytes PROVE f[k] \in Nat
  <2> DEFINE U == {n \in Nat : n \in 0 .. AddressBytes => f[n] \in Nat}
  <2>1. 0 \in U
    BY <1>5
  <2>2. ASSUME NEW n \in Nat, n \in U PROVE n + 1 \in U
    <3> SUFFICES ASSUME n + 1 \in 0 .. AddressBytes PROVE f[n + 1] \in Nat
      OBVIOUS
    <3> HIDE DEF f
    <3>1. f[n + 1] = f[n] \div ByteSize /\ f[n] \in Nat
      BY <1>5, <2>2, SizesPositive
    <3> QED BY <3>1, SizesPositive
  <2>3. Nat \subseteq U
    <3> HIDE DEF U
    <3> QED BY <2>1, <2>2, SetInduction
  <2>4. k \in Nat
    BY SizesPositive
  <2> HIDE DEF f
  <2> QED BY <2>3, <2>4
<1>7. pointer_to_bytes(ptr) = [k \in 1 .. AddressBytes |-> f[k - 1] % ByteSize]
  BY DEF pointer_to_bytes
<1> HIDE DEF f
<1>8. \A k \in 1 .. AddressBytes : f[k - 1] % ByteSize \in Bytes
  BY <1>6, SizesPositive DEF Bytes
<1> QED BY <1>7, <1>8, SizesPositive

------------------------------------------------------------------------------
(* The policy's account. *)

SameBounds(pol, old) ==
    /\ pol.start = old.start /\ pol.end = old.end
    /\ pol.pointers_start = old.pointers_start /\ pol.pointers_end = old.pointers_end

(* The pointers that have been given out are below the watermark, a whole   *)
(* one can be read from where each points to, and they are apart.           *)
Pointers(pol) ==
    \A a \in DOMAIN pol.pointer_map :
       /\ pol.pointer_map[a] \in pol.pointers_start .. pol.pointers_end - AddressBytes
       /\ pol.pointer_map[a] + PointerIncrement <= pol.pointer_watermark
       /\ \A b \in DOMAIN pol.pointer_map :
             a # b => pol.pointer_map[a] - pol.pointer_map[b]
                         \notin 1 - PointerIncrement .. PointerIncrement - 1

(* A dictionary with one more key. *)
LEMMA SetDict ==
    ASSUME NEW dict, Dicts(dict), NEW k \in Nat, NEW v \in Nat
    PROVE  /\ Dicts(Set(dict, k, v)) /\ DOMAIN Set(dict, k, v) = DOMAIN dict \cup {k}
           /\ \A a \in DOMAIN Set(dict, k, v) :
                 Set(dict, k, v)[a] = IF a = k THEN v ELSE dict[a]
BY DEF Dicts, Set

(* generate_pointer gives out a pointer above all the earlier ones. *)
LEMMA Generated ==
    ASSUME NEW pol, PolicyOK(pol), Pointers(pol), PointersLeft(pol), NEW addr \in Nat
    PROVE  /\ PolicyOK(GeneratedFor(pol, addr)) /\ Pointers(GeneratedFor(pol, addr))
           /\ SameBounds(GeneratedFor(pol, addr), pol)
<1> DEFINE new == GeneratedFor(pol, addr)
           mark == pol.pointer_watermark
           ptrs == pol.pointer_map
           ptrs2 == Set(ptrs, addr, mark)
           ins2 == Set(pol.known_inputs, addr, AddressBytes)
<1>1. /\ mark \in Nat /\ mark \in pol.pointers_start .. pol.pointers_end
      /\ pol.pointers_start \in Nat /\ pol.pointers_end \in Nat
      /\ pol.start \in Nat /\ pol.end \in Nat
      /\ Dicts(ptrs) /\ Dicts(pol.known_inputs) /\ Dicts(pol.known_outputs)
      /\ DOMAIN pol = {"start", "end", "pointers_start", "pointers_end", "pointer_watermark",
                       "pointer_map", "known_inputs", "known_outputs"}
  BY DEF PolicyOK
<1>2. /\ Dicts(ptrs2) /\ DOMAIN ptrs2 = DOMAIN ptrs \cup {addr}
      /\ \A a \in DOMAIN ptrs2 : ptrs2[a] = IF a = addr THEN mark ELSE ptrs[a]
  <2> HIDE DEF mark, ptrs
  <2>1. Dicts(ptrs2)
    BY <1>1, SetDict
  <2>2. DOMAIN ptrs2 = DOMAIN ptrs \cup {addr}
    BY <1>1, SetDict
  <2>3. ASSUME NEW a \in DOMAIN ptrs2 PROVE ptrs2[a] = IF a = addr THEN mark ELSE ptrs[a]
    BY <2>3 DEF Set
  <2> QED BY <2>1, <2>2, <2>3
<1>3. Dicts(ins2)
  BY <1>1, SetDict, SizesPositive
<1>4. mark + AddressBytes < pol.pointers_end /\ mark + PointerIncrement < pol.pointers_end
  BY DEF PointersLeft
<1>5. new = [pol EXCEPT !.pointer_watermark = mark + PointerIncrement,
                        !.pointer_map = ptrs2, !.known_inputs = ins2]
  BY DEF GeneratedFor
<1> HIDE DEF ptrs2, ins2, new
<1>6. /\ new.start = pol.start /\ new.end = pol.end
      /\ new.pointers_start = pol.pointers_start /\ new.pointers_end = pol.pointers_end
      /\ new.pointer_watermark = mark + PointerIncrement
      /\ new.pointer_map = ptrs2 /\ new.known_inputs = ins2
      /\ new.known_outputs = pol.known_outputs
      /\ new \in [start : Nat, end : Nat, pointers_start : Nat, pointers_end : Nat,
                  pointer_watermark : Nat, pointer_map : {ptrs2},
                  known_inputs : {ins2}, known_outputs : {pol.known_outputs}]
  <2> DEFINE next == mark + PointerIncrement
  <2>1. next \in Nat
    BY <1>1, SizesPositive
  <2> HIDE DEF next
  <2> QED BY <1>1, <1>5, <2>1 DEF PolicyOK, next
<1>7. PolicyOK(new)
  BY <1>1, <1>2, <1>3, <1>4, <1>6, SizesPositive DEF PolicyOK
<1>8. Pointers(new)
  <2> SUFFICES ASSUME NEW a \in DOMAIN ptrs2
               PROVE  /\ ptrs2[a] \in pol.pointers_start .. pol.pointers_end - AddressBytes
                      /\ ptrs2[a] + PointerIncrement <= mark + PointerIncrement
                      /\ \A b \in DOMAIN ptrs2 :
                            a # b => ptrs2[a] - ptrs2[b]
                                        \notin 1 - PointerIncrement .. PointerIncrement - 1
    BY <1>6 DEF Pointers
  <2>1. \A b \in DOMAIN ptrs : /\ ptrs[b] \in Nat /\ ptrs[b] + PointerIncrement <= mark
                               /\ ptrs[b] \in pol.pointers_start .. pol.pointers_end - AddressBytes
    BY <1>1 DEF Pointers, Dicts
  <2>2. \A b, c \in DOMAIN ptrs : b # c =>
           ptrs[b] - ptrs[c] \notin 1 - PointerIncrement .. PointerIncrement - 1
    BY DEF Pointers
  <2> HIDE DEF mark, ptrs
  <2>3. /\ ptrs2[a] \in pol.pointers_start .. pol.pointers_end - AddressBytes
        /\ ptrs2[a] + PointerIncrement <= mark + PointerIncrement
    BY <1>1, <1>2, <1>4, <2>1, SizesPositive
  <2>4. \A b \in DOMAIN ptrs2 :
           a # b => ptrs2[a] - ptrs2[b] \notin 1 - PointerIncrement .. PointerIncrement - 1
    <3> SUFFICES ASSUME NEW b \in DOMAIN ptrs2, a # b
                 PROVE  ptrs2[a] - ptrs2[b] \notin 1 - PointerIncrement .. PointerIncrement - 1
      OBVIOUS
    <3>1. CASE a = addr
      BY <1>1, <1>2, <2>1, <3>1, SizesPositive
    <3>2. CASE b = addr
      BY <1>1, <1>2, <2>1, <3>2, SizesPositive
    <3>3. CASE a # addr /\ b # addr
      BY <1>2, <2>2, <3>3
    <3> QED BY <3>1, <3>2, <3>3
  <2> QED BY <2>3, <2>4
<1> QED BY <1>6, <1>7, <1>8 DEF new, SameBounds

(* What is noted of an input or an output does not concern the pointers. *)
LEMMA Noted ==
    ASSUME NEW pol, PolicyOK(pol), Pointers(pol), NEW addr \in Nat, NEW size \in Nat
    PROVE  LET in  == [pol EXCEPT !.known_inputs = Set(@, addr, size)]
               out == [pol EXCEPT !.known_outputs = Set(@, addr, size)]
           IN  /\ PolicyOK(in) /\ Pointers(in) /\ SameBounds(in, pol)
               /\ PolicyOK(out) /\ Pointers(out) /\ SameBounds(out, pol)
               /\ in.pointer_map = pol.pointer_map /\ out.pointer_map = pol.pointer_map
<1> DEFINE ins2 == Set(pol.known_inputs, addr, size)
           outs2 == Set(pol.known_outputs, addr, size)
           in == [pol EXCEPT !.known_inputs = ins2]
           out == [pol EXCEPT !.known_outputs = outs2]
<1>1. Dicts(ins2) /\ Dicts(outs2)
  BY SetDict DEF PolicyOK
<1> HIDE DEF ins2, outs2
<1>2. /\ PolicyOK(in) /\ SameBounds(in, pol) /\ in.pointer_map = pol.pointer_map
      /\ in.pointer_watermark = pol.pointer_watermark
  BY <1>1 DEF PolicyOK, SameBounds
<1>3. /\ PolicyOK(out) /\ SameBounds(out, pol) /\ out.pointer_map = pol.pointer_map
      /\ out.pointer_watermark = pol.pointer_watermark
  BY <1>1 DEF PolicyOK, SameBounds
<1> HIDE DEF in, out
<1>4. Pointers(in) /\ Pointers(out)
  BY <1>2, <1>3 DEF Pointers, SameBounds
<1> QED BY <1>2, <1>3, <1>4 DEF in, out, ins2, outs2

------------------------------------------------------------------------------
(* The maps and what is at work on them. *)

(* The byte at a has a map, and is in its range. *)
HasByte(a) ==
    _find_map(a) # 0 /\ a \in maps[_find_map(a)].base .. maps[_find_map(a)].limit - 1

(* Loads and stores change nothing of a map but its bytes and its marks.    *)
SameShape(mms) ==
    /\ mms \in Seq(MemoryMap) /\ Len(mms) = Len(maps)
    /\ \A i \in DOMAIN maps :
          /\ MapOK(mms[i]) /\ mms[i].name = maps[i].name
          /\ mms[i].base = maps[i].base /\ mms[i].limit = maps[i].limit
          /\ mms[i].flags = maps[i].flags /\ mms[i].watched = maps[i].watched
          /\ maps[i].written \subseteq mms[i].written

(* They change the bytes of their operand, in the maps that have them.      *)
OnlyIn(mms, addr, n) ==
    \A i \in DOMAIN maps : \A a \in maps[i].base .. maps[i].limit - 1 :
       mms[i].data[a - maps[i].base + 1] # maps[i].data[a - maps[i].base + 1]
          => a \in Span(addr, n) /\ _find_map(a) = i

SameBytes(mms) ==
    \A i \in DOMAIN maps : \A a \in maps[i].base .. maps[i].limit - 1 :
       mms[i].data[a - maps[i].base + 1] = maps[i].data[a - maps[i].base + 1]

(* The map of an address is one that exists. *)
LEMMA FindMap ==
    ASSUME TypeOK, NEW a \in 0 .. AddressSpace - 1
    PROVE  /\ _find_map(a) = table[a \div PageSize] /\ _find_map(a) \in 0 .. Len(maps)
           /\ _find_map(a) # 0 => _find_map(a) \in DOMAIN maps
<1>1. table \in [Pages -> 0 .. Len(maps)] /\ maps \in Seq(MemoryMap)
  BY DEF TypeOK
<1>2. _find_map(a) = table[a \div PageSize] /\ a \div PageSize \in Pages
  BY AddressInPage DEF _find_map
<1> QED BY <1>1, <1>2

(* Another map m of the same range that an access to Span(p, size) can put  *)
(* in the place of mms[i].                                                  *)
Fits(mms, i, m, p, size) ==
    /\ MapOK(m) /\ m.name = maps[i].name /\ m.base = maps[i].base /\ m.limit = maps[i].limit
    /\ m.flags = maps[i].flags /\ m.watched = maps[i].watched
    /\ mms[i].written \subseteq m.written
    /\ \A a \in maps[i].base .. maps[i].limit - 1 :
          a \notin Span(p, size) =>
             m.data[a - maps[i].base + 1] = mms[i].data[a - maps[i].base + 1]

(* With m, the first n bytes of the operand are as they were, the next ones *)
(* are those of m, and the rest of the memory is the same.                  *)
Replaced(mms, new, i, m, addr, n, size) ==
    /\ SameShape(new) /\ OnlyIn(new, addr, n + size)
    /\ \A a \in Span(addr, n) :
          HasByte(a) /\ a \in 0 .. AddressSpace - 1 => Peek(new, a) = Peek(mms, a)
    /\ \A a \in Span(addr + n, size) : Peek(new, a) = m.data[a - maps[i].base + 1]

(* One access of a load or store replaces the map of its bytes by m. *)
LEMMA Replace ==
    ASSUME TypeOK, NEW mms, SameShape(mms), NEW addr \in Nat, NEW n \in Nat,
           OnlyIn(mms, addr, n), NEW size \in Nat,
           NEW i \in DOMAIN maps, NEW m, Fits(mms, i, m, addr + n, size),
           \A a \in Span(addr + n, size) : HasByte(a) /\ _find_map(a) = i
    PROVE  Replaced(mms, [mms EXCEPT ![i] = m], i, m, addr, n, size)
<1> DEFINE new == [mms EXCEPT ![i] = m]
<1>1. /\ mms \in Seq(MemoryMap) /\ Len(mms) = Len(maps) /\ m \in MemoryMap
      /\ maps \in Seq(MemoryMap) /\ DOMAIN maps = 1 .. Len(maps) /\ i \in 1 .. Len(mms)
  BY DEF SameShape, MapOK, TypeOK, Fits
<1>2. /\ new \in Seq(MemoryMap) /\ Len(new) = Len(maps) /\ new[i] = m
      /\ \A j \in DOMAIN maps \ {i} : new[j] = mms[j]
  BY <1>1
<1> HIDE DEF new
<1>3. maps[i].written \subseteq mms[i].written
  BY DEF SameShape
<1>4. SameShape(new)
  BY <1>2, <1>3 DEF SameShape, Fits
<1>5. \A a \in Span(addr, n) : a \in Span(addr, n + size) /\ a \notin Span(addr + n, size)
  BY DEF Span
<1>6. \A a \in Span(addr + n, size) : a \in Span(addr, n + size) /\ a \notin Span(addr, n)
  BY DEF Span
<1>7. OnlyIn(new, addr, n + size)
  <2> SUFFICES ASSUME NEW j \in DOMAIN maps, NEW a \in maps[j].base .. maps[j].limit - 1,
                      new[j].data[a - maps[j].base + 1] # maps[j].data[a - maps[j].base + 1]
               PROVE  a \in Span(addr, n + size) /\ _find_map(a) = j
    BY DEF OnlyIn
  <2>1. CASE j = i /\ a \in Span(addr + n, size)
    BY <1>6, <2>1
  <2>2. CASE j # i \/ a \notin Span(addr + n, size)
    <3>1. mms[j].data[a - maps[j].base + 1] # maps[j].data[a - maps[j].base + 1]
      BY <1>2, <2>2 DEF Fits
    <3>2. a \in Span(addr, n) /\ _find_map(a) = j
      BY <3>1 DEF OnlyIn
    <3> QED BY <1>5, <3>2
  <2> QED BY <2>1, <2>2
<1>8. ASSUME NEW a \in Span(addr, n), HasByte(a), a \in 0 .. AddressSpace - 1
      PROVE  Peek(new, a) = Peek(mms, a)
  <2> DEFINE j == _find_map(a)
  <2>1. j \in DOMAIN maps /\ a \in maps[j].base .. maps[j].limit - 1
    BY <1>8, FindMap DEF HasByte
  <2>2. CASE j # i
    BY <1>2, <2>1, <2>2 DEF Peek
  <2>3. CASE j = i
    <3>1. m.data[a - maps[i].base + 1] = mms[i].data[a - maps[i].base + 1]
      BY <1>5, <2>1, <2>3 DEF Fits
    <3>2. mms[i].base = maps[i].base /\ m.base = maps[i].base
      BY DEF SameShape, Fits
    <3> QED BY <1>2, <2>3, <3>1, <3>2 DEF Peek
  <2> QED BY <2>2, <2>3
<1>9. \A a \in Span(addr + n, size) : Peek(new, a) = m.data[a - maps[i].base + 1]
  BY <1>2 DEF Peek, Fits
<1> QED BY <1>4, <1>7, <1>8, <1>9 DEF Replaced, new

------------------------------------------------------------------------------
(* Loads. *)

Within(addr, size) == \A a \in Span(addr, size) : HasByte(a) /\ a \in 0 .. AddressSpace - 1

Fields(w) == w \in [maps : {w.maps}, policy : {w.policy}, bytes : {w.bytes}, ok : BOOLEAN]

Accounts(pol) == PolicyOK(pol) /\ Pointers(pol) /\ SameBounds(pol, policy)

(* Marks change neither the range nor the bytes of a map. *)
LEMMA Marked ==
    ASSUME NEW m, MapOK(m), NEW addrs, addrs \subseteq m.base .. m.limit - 1,
           NEW field \in {"read", "written"}
    PROVE  LET o == [m EXCEPT ![field] = @ \cup addrs]
           IN  /\ MapOK(o) /\ o.name = m.name /\ o.base = m.base /\ o.limit = m.limit
               /\ o.flags = m.flags /\ o.watched = m.watched /\ o.data = m.data
               /\ m.written \subseteq o.written
               /\ field = "written" => addrs \subseteq o.written
<1>1. addrs \subseteq Nat
  BY DEF MapOK, MemoryMap
<1>2. CASE field = "read"
  BY <1>1, <1>2 DEF MapOK, MemoryMap
<1>3. CASE field = "written"
  BY <1>1, <1>3 DEF MapOK, MemoryMap
<1> QED BY <1>2, <1>3

(* read_before_write puts bytes of its own where the operand is, or fails. *)
LEMMA ReadBeforeWrite ==
    ASSUME NEW w, Fields(w), SameShape(w.maps), Accounts(w.policy),
           NEW i \in DOMAIN maps, NEW p \in Nat, NEW size \in Nat, NEW v \in Bytes
    PROVE  LET r == read_before_write(w, i, p, size, v)
           IN  /\ Fields(r) /\ r.bytes = w.bytes
               /\ ~r.ok \/ /\ r.ok = w.ok /\ Accounts(r.policy)
                           /\ \E m : /\ r.maps = [w.maps EXCEPT ![i] = m]
                                     /\ Fits(w.maps, i, m, p, size)
<1> DEFINE r == read_before_write(w, i, p, size, v)
<1>1. MapOK(w.maps[i]) /\ Accounts(w.policy) /\ PolicyOK(w.policy) /\ Pointers(w.policy)
  BY DEF SameShape, Accounts
<1>2. ASSUME NEW bytes \in Seq(Bytes), Len(bytes) = size
      PROVE  Fits(w.maps, i, Overwritten(w.maps[i], p, bytes), p, size)
  <2> DEFINE m == w.maps[i]
             o == Overwritten(m, p, bytes)
  <2>1. /\ m.name = maps[i].name /\ m.base = maps[i].base /\ m.limit = maps[i].limit
        /\ m.flags = maps[i].flags /\ m.watched = maps[i].watched
    BY DEF SameShape
  <2> HIDE DEF m
  <2>2. /\ MapOK(o) /\ o.name = m.name /\ o.base = m.base /\ o.limit = m.limit
        /\ o.flags = m.flags /\ o.watched = m.watched /\ o.written = m.written
    BY <1>1, OverwrittenIn DEF m
  <2>3. \A a \in m.base .. m.limit - 1 : a \notin Span(p, size) =>
           o.data[a - m.base + 1] = m.data[a - m.base + 1]
    <3> TAKE a \in m.base .. m.limit - 1
    <3>1. MapOK(m)
      BY <1>1 DEF m
    <3>2. o.data[a - m.base + 1] = IF a \in Span(p, Len(bytes)) THEN bytes[a - p + 1]
                                   ELSE m.data[a - m.base + 1]
      BY <3>1, OverwrittenIn
    <3> HIDE DEF o
    <3> QED BY <1>2, <3>2
  <2> HIDE DEF o
  <2>4. Fits(w.maps, i, o, p, size)
    BY <2>1, <2>2, <2>3 DEF Fits, m
  <2> QED BY <2>4 DEF o, m
<1>3. CASE size = AddressBytes /\ PointersLeft(w.policy)
  <2> DEFINE bytes == pointer_to_bytes(w.policy.pointer_watermark)
             m == Overwritten(w.maps[i], p, bytes)
             pol == GeneratedFor(w.policy, p)
  <2>1. bytes \in Seq(Bytes) /\ Len(bytes) = size
    BY <1>1, <1>3, PointerBytes DEF PolicyOK
  <2>2. PolicyOK(pol) /\ Pointers(pol) /\ SameBounds(pol, w.policy)
    BY <1>1, <1>3, Generated
  <2>3. r = [w EXCEPT !.maps[i] = m, !.policy = pol]
    BY <1>3 DEF read_before_write
  <2>4. Fits(w.maps, i, m, p, size)
    BY <1>2, <2>1
  <2> HIDE DEF m, pol, r, bytes
  <2>5. /\ r.maps = [w.maps EXCEPT ![i] = m] /\ r.policy = pol /\ r.ok = w.ok /\ r.bytes = w.bytes
        /\ Fields(r)
    BY <2>3 DEF Fields
  <2>6. Accounts(r.policy)
    BY <1>1, <2>2, <2>5 DEF Accounts, SameBounds
  <2> QED BY <2>4, <2>5, <2>6 DEF r
<1>4. CASE size = AddressBytes /\ ~PointersLeft(w.policy)
  <2>1. r = [w EXCEPT !.ok = FALSE]
    BY <1>4 DEF read_before_write
  <2> HIDE DEF r
  <2>2. Fields(r) /\ r.bytes = w.bytes /\ ~r.ok
    BY <2>1 DEF Fields
  <2> QED BY <2>2 DEF r
<1>5. CASE size # AddressBytes
  <2> DEFINE bytes == [k \in 1 .. size |-> v]
             m == Overwritten(w.maps[i], p, bytes)
             pol == [w.policy EXCEPT !.known_inputs = Set(@, p, size)]
  <2>1. bytes \in Seq(Bytes) /\ Len(bytes) = size
    OBVIOUS
  <2>2. PolicyOK(pol) /\ Pointers(pol) /\ SameBounds(pol, w.policy)
    BY <1>1, Noted
  <2>3. r = [w EXCEPT !.maps[i] = m, !.policy = pol]
    BY <1>5 DEF read_before_write
  <2>4. Fits(w.maps, i, m, p, size)
    BY <1>2, <2>1
  <2> HIDE DEF m, pol, r, bytes
  <2>5. /\ r.maps = [w.maps EXCEPT ![i] = m] /\ r.policy = pol /\ r.ok = w.ok /\ r.bytes = w.bytes
        /\ Fields(r)
    BY <2>3 DEF Fields
  <2>6. Accounts(r.policy)
    BY <1>1, <2>2, <2>5 DEF Accounts, SameBounds
  <2> QED BY <2>4, <2>5, <2>6 DEF r
<1> QED BY <1>3, <1>4, <1>5

(* The policy has seen to the bytes of Span(p, size): it has changed one    *)
(* map, there, and none of the bytes that the program has written or that   *)
(* the policy leaves alone.                                                 *)
PolicyApplied(w, r, i, p, size) ==
    /\ Fields(r) /\ r.bytes = w.bytes
    /\ ~r.ok \/ /\ r.ok = w.ok /\ Accounts(r.policy)
                /\ \E m : /\ r.maps = [w.maps EXCEPT ![i] = m]
                          /\ Fits(w.maps, i, m, p, size)
                          /\ \/ ~maps[i].watched \/ ~handle(p)
                             \/ Span(p, size) \subseteq maps[i].written
                             => m.data = w.maps[i].data

(* _load_policy does that. *)
LEMMA LoadPolicy ==
    ASSUME NEW w, Fields(w), SameShape(w.maps), Accounts(w.policy),
           NEW i \in DOMAIN maps, NEW p \in Nat, NEW size \in Nat, NEW v \in Bytes,
           Span(p, size) \subseteq maps[i].base .. maps[i].limit - 1
    PROVE  PolicyApplied(w, _load_policy(w, i, p, size, v), i, p, size)
<1> DEFINE r == _load_policy(w, i, p, size, v)
           addrs == Span(p, size)
<1>1. /\ MapOK(w.maps[i]) /\ w.maps[i].watched = maps[i].watched
      /\ maps[i].written \subseteq w.maps[i].written
      /\ w.maps \in Seq(MemoryMap) /\ DOMAIN w.maps = DOMAIN maps
  BY DEF SameShape
<1>2. Fits(w.maps, i, w.maps[i], p, size)
  BY <1>1 DEF Fits, SameShape
<1>3. CASE ~maps[i].watched \/ ~handle(p)
  <2>1. r = w
    BY <1>1, <1>3 DEF _load_policy
  <2>2. w.maps = [w.maps EXCEPT ![i] = w.maps[i]]
    BY <1>1
  <2>3. r.ok = w.ok /\ Fields(r) /\ r.bytes = w.bytes /\ Accounts(r.policy) /\ r.maps = w.maps
    BY <2>1
  <2> HIDE DEF r
  <2> QED BY <1>2, <2>2, <2>3 DEF PolicyApplied, r
<1>4. ASSUME NEW u, Fields(u), u.bytes = w.bytes,
             NEW m, u.maps = [w.maps EXCEPT ![i] = m], Fits(w.maps, i, m, p, size)
      PROVE  LET k == Mark(u, i, "read", addrs)
             IN  /\ Fields(k) /\ k.bytes = w.bytes /\ k.ok = u.ok /\ k.policy = u.policy
                 /\ k.maps = [w.maps EXCEPT ![i] = [m EXCEPT !["read"] = @ \cup addrs]]
                 /\ Fits(w.maps, i, [m EXCEPT !["read"] = @ \cup addrs], p, size)
                 /\ [m EXCEPT !["read"] = @ \cup addrs].data = m.data
  <2> DEFINE k == Mark(u, i, "read", addrs)
             o == [m EXCEPT !["read"] = @ \cup addrs]
  <2>1. u.maps[i] = m /\ u.maps \in [DOMAIN maps -> {u.maps[j] : j \in DOMAIN maps}]
    BY <1>1, <1>4
  <2>2. k = [u EXCEPT !.maps = [u.maps EXCEPT ![i] = o]]
    BY <2>1 DEF Mark
  <2>3. MapOK(m) /\ addrs \subseteq m.base .. m.limit - 1
    BY <1>4 DEF Fits
  <2>4. /\ MapOK(o) /\ o.name = m.name /\ o.base = m.base /\ o.limit = m.limit
        /\ o.flags = m.flags /\ o.watched = m.watched /\ o.data = m.data
        /\ m.written \subseteq o.written
    BY <2>3, Marked
  <2> HIDE DEF k, o, addrs
  <2>5. Fits(w.maps, i, o, p, size)
    BY <1>4, <2>4 DEF Fits
  <2>6. /\ Fields(k) /\ k.bytes = w.bytes /\ k.ok = u.ok /\ k.policy = u.policy
        /\ k.maps = [u.maps EXCEPT ![i] = o]
    BY <1>4, <2>2 DEF Fields
  <2>7. [u.maps EXCEPT ![i] = o] = [w.maps EXCEPT ![i] = o]
    BY <1>1, <1>4
  <2> QED BY <2>4, <2>5, <2>6, <2>7 DEF k, o
<1>5. CASE maps[i].watched /\ handle(p) /\ addrs \subseteq w.maps[i].written
  <2>1. r = Mark(w, i, "read", addrs)
    BY <1>1, <1>5 DEF _load_policy
  <2>2. w.maps = [w.maps EXCEPT ![i] = w.maps[i]]
    BY <1>1
  <2> DEFINE o == [w.maps[i] EXCEPT !["read"] = @ \cup addrs]
  <2> HIDE DEF r, addrs
  <2>3. /\ Fields(r) /\ r.bytes = w.bytes /\ r.ok = w.ok /\ r.policy = w.policy
        /\ r.maps = [w.maps EXCEPT ![i] = o] /\ Fits(w.maps, i, o, p, size)
        /\ o.data = w.maps[i].data
    BY <1>2, <1>4, <2>1, <2>2
  <2> HIDE DEF o
  <2> QED BY <2>3 DEF PolicyApplied, r
<1>6. CASE maps[i].watched /\ handle(p) /\ ~(addrs \subseteq w.maps[i].written)
  <2> DEFINE u == read_before_write(w, i, p, size, v)
  <2>1. r = Mark(u, i, "read", addrs)
    BY <1>1, <1>6 DEF _load_policy
  <2>2. ~(addrs \subseteq maps[i].written)
    BY <1>1, <1>6
  <2>3. /\ Fields(u) /\ u.bytes = w.bytes
        /\ ~u.ok \/ /\ u.ok = w.ok /\ Accounts(u.policy)
                    /\ \E m : /\ u.maps = [w.maps EXCEPT ![i] = m]
                              /\ Fits(w.maps, i, m, p, size)
    BY ReadBeforeWrite
  <2> HIDE DEF r, u, addrs
  <2>4. Fields(r) /\ r.bytes = w.bytes /\ r.ok = u.ok
    BY <2>1, <2>3 DEF Mark, Fields
  <2>5. CASE u.ok
    <3>1. PICK m : u.maps = [w.maps EXCEPT ![i] = m] /\ Fits(w.maps, i, m, p, size)
      BY <2>3, <2>5
    <3>2. /\ r.policy = u.policy
          /\ r.maps = [w.maps EXCEPT ![i] = [m EXCEPT !["read"] = @ \cup addrs]]
          /\ Fits(w.maps, i, [m EXCEPT !["read"] = @ \cup addrs], p, size)
      BY <1>4, <2>1, <2>3, <3>1
    <3> QED BY <1>6, <2>2, <2>3, <2>4, <2>5, <3>2 DEF PolicyApplied, r, addrs
  <2>6. CASE ~u.ok
    BY <2>4, <2>6 DEF PolicyApplied, r
  <2> QED BY <2>5, <2>6
<1> QED BY <1>1, <1>3, <1>5, <1>6

(* What the first n bytes of a load have come to. *)
LoadedTo(w, addr, n) ==
    /\ SameShape(w.maps) /\ OnlyIn(w.maps, addr, n) /\ Accounts(w.policy)
    /\ w.bytes \in Seq(Bytes) /\ Len(w.bytes) = n
    /\ \A j \in 1 .. n : w.bytes[j] = Peek(w.maps, addr + j - 1)

(* One access of a load reads size bytes more: the ones that are in the map *)
(* when the policy has seen to them.                                        *)
LEMMA OneLoad ==
    ASSUME TypeOK, NEW addr \in Nat, NEW n \in Nat, NEW size \in Nat, size > 0, NEW v \in Bytes,
           NEW w, Fields(w), w.ok, LoadedTo(w, addr, n), Within(addr, n + size),
           \A a \in Span(addr + n, size) : _find_map(a) = _find_map(addr + n)
    PROVE  LET r == LoadUnit(w, [addr |-> addr + n, size |-> size], v)
               i == _find_map(addr + n)
           IN  /\ Fields(r)
               /\ r.ok => LoadedTo(r, addr, n + size)
               /\ r.ok /\ SameBytes(w.maps)
                       /\ (\/ ~maps[i].watched \/ ~handle(addr + n)
                           \/ Span(addr + n, size) \subseteq maps[i].written)
                  => SameBytes(r.maps)
<1> DEFINE p == addr + n
           i == _find_map(p)
           a == [addr |-> p, size |-> size]
           l == _load_policy(w, i, p, size, v)
           r == LoadUnit(w, a, v)
<1>1. p \in Nat /\ a.addr = p /\ a.size = size
  OBVIOUS
<1>2. \A x \in Span(p, size) : HasByte(x) /\ x \in 0 .. AddressSpace - 1 /\ _find_map(x) = i
  <2>1. \A x \in Span(p, size) : x \in Span(addr, n + size)
    BY DEF Span
  <2> QED BY <2>1 DEF Within
<1>3. p \in Span(p, size) /\ Span(p, size) \subseteq maps[i].base .. maps[i].limit - 1
  <2>1. p \in Span(p, size)
    BY DEF Span
  <2> QED BY <1>2, <2>1 DEF HasByte
<1>4. i \in DOMAIN maps /\ i # 0
  BY <1>2, <1>3, FindMap DEF HasByte
<1>5. SameShape(w.maps) /\ OnlyIn(w.maps, addr, n) /\ Accounts(w.policy)
  BY DEF LoadedTo
<1>13. PolicyApplied(w, l, i, p, size)
  <2> HIDE DEF i, p
  <2> QED BY <1>1, <1>3, <1>4, <1>5, LoadPolicy
<1>6. /\ Fields(l) /\ l.bytes = w.bytes
      /\ ~l.ok \/ /\ l.ok = w.ok /\ Accounts(l.policy)
                  /\ \E m : /\ l.maps = [w.maps EXCEPT ![i] = m]
                            /\ Fits(w.maps, i, m, p, size)
                            /\ \/ ~maps[i].watched \/ ~handle(p)
                               \/ Span(p, size) \subseteq maps[i].written
                               => m.data = w.maps[i].data
  <2> HIDE DEF l
  <2> QED BY <1>13 DEF PolicyApplied
<1>7. r = [l EXCEPT !.bytes = l.bytes \o Slice(l.maps[i], p, size)]
  BY <1>1, <1>4 DEF LoadUnit
<1> HIDE DEF l, r, a, i, p
<1>8. /\ Fields(r) /\ r.ok = l.ok /\ r.maps = l.maps /\ r.policy = l.policy
      /\ r.bytes = w.bytes \o Slice(l.maps[i], p, size)
  BY <1>6, <1>7 DEF Fields
<1>9. ASSUME l.ok
      PROVE  /\ LoadedTo(r, addr, n + size)
             /\ SameBytes(w.maps) /\ (\/ ~maps[i].watched \/ ~handle(p)
                                      \/ Span(p, size) \subseteq maps[i].written)
                => SameBytes(r.maps)
  <2>1. PICK m : /\ l.maps = [w.maps EXCEPT ![i] = m] /\ Fits(w.maps, i, m, p, size)
                 /\ \/ ~maps[i].watched \/ ~handle(p) \/ Span(p, size) \subseteq maps[i].written
                    => m.data = w.maps[i].data
    BY <1>6, <1>9
  <2>2. /\ SameShape(l.maps) /\ OnlyIn(l.maps, addr, n + size)
        /\ \A x \in Span(addr, n) :
              HasByte(x) /\ x \in 0 .. AddressSpace - 1 => Peek(l.maps, x) = Peek(w.maps, x)
        /\ \A x \in Span(p, size) : Peek(l.maps, x) = m.data[x - maps[i].base + 1]
    <3>1. Fits(w.maps, i, m, addr + n, size)
      BY <2>1 DEF p
    <3>2. \A x \in Span(addr + n, size) : HasByte(x) /\ _find_map(x) = i
      BY <1>2 DEF p
    <3>3. Replaced(w.maps, [w.maps EXCEPT ![i] = m], i, m, addr, n, size)
      BY <1>4, <1>5, <3>1, <3>2, Replace
    <3> QED BY <2>1, <3>3 DEF Replaced, p
  <2>3. l.maps[i] = m /\ MapOK(m) /\ m.base = maps[i].base /\ m.limit = maps[i].limit
    BY <1>4, <1>5, <2>1 DEF Fits, SameShape
  <2>4. /\ Slice(m, p, size) \in Seq(Bytes) /\ Len(Slice(m, p, size)) = size
        /\ \A j \in 1 .. size : Slice(m, p, size)[j] = m.data[p + j - m.base]
    BY <1>1, <1>3, <2>3, SliceOf
  <2> DEFINE s == Slice(m, p, size)
  <2>5. s \in Seq(Bytes) /\ Len(s) = size /\ w.bytes \in Seq(Bytes) /\ Len(w.bytes) = n
    BY <2>4 DEF LoadedTo
  <2>6. \A j \in 1 .. size : s[j] = Peek(l.maps, p + j - 1)
    <3> TAKE j \in 1 .. size
    <3>1. p + j - 1 \in Span(p, size)
      BY <1>1 DEF Span
    <3>2. maps[i].base \in Int
      BY <1>4 DEF TypeOK, MapOK, MemoryMap
    <3>3. (p + j - 1) - maps[i].base + 1 = p + j - m.base
      BY <1>1, <2>3, <3>2
    <3> QED BY <2>2, <2>4, <3>1, <3>3
  <2> HIDE DEF s
  <2>7. /\ w.bytes \o s \in Seq(Bytes) /\ Len(w.bytes \o s) = n + size
        /\ \A j \in 1 .. n : (w.bytes \o s)[j] = w.bytes[j]
        /\ \A j \in 1 .. size : (w.bytes \o s)[n + j] = s[j]
    <3> DEFINE b == w.bytes
    <3>1. b \in Seq(Bytes) /\ Len(b) = n
      BY <2>5
    <3> HIDE DEF b
    <3>2. /\ b \o s \in Seq(Bytes) /\ Len(b \o s) = Len(b) + Len(s)
          /\ \A j \in 1 .. Len(b) : (b \o s)[j] = b[j]
          /\ \A j \in 1 .. Len(s) : (b \o s)[Len(b) + j] = s[j]
      <4>1. s \in Seq(Bytes) /\ b \in Seq(Bytes)
        BY <2>5, <3>1
      <4>2. \A t, u \in Seq(Bytes) :
               /\ t \o u \in Seq(Bytes) /\ Len(t \o u) = Len(t) + Len(u)
               /\ \A j \in 1 .. Len(t) : (t \o u)[j] = t[j]
               /\ \A j \in 1 .. Len(u) : (t \o u)[Len(t) + j] = u[j]
        BY ConcatIn, Zenon
      <4> QED BY <4>1, <4>2, Zenon
    <3> QED BY <2>5, <3>1, <3>2 DEF b
  <2>8. \A j \in 1 .. n + size : (w.bytes \o s)[j] = Peek(l.maps, addr + j - 1)
    <3> TAKE j \in 1 .. n + size
    <3>1. CASE j \in 1 .. n
      <4>1. addr + j - 1 \in Span(addr, n) /\ addr + j - 1 \in Span(addr, n + size)
        BY <3>1 DEF Span
      <4>2. Peek(l.maps, addr + j - 1) = Peek(w.maps, addr + j - 1)
        BY <2>2, <4>1 DEF Within
      <4> QED BY <2>7, <3>1, <4>2 DEF LoadedTo
    <3>2. CASE j \notin 1 .. n
      <4>1. j - n \in 1 .. size /\ n + (j - n) = j /\ p + (j - n) - 1 = addr + j - 1
        BY <3>2 DEF p
      <4>2. (w.bytes \o s)[n + (j - n)] = s[j - n] /\ s[j - n] = Peek(l.maps, p + (j - n) - 1)
        BY <2>6, <2>7, <4>1
      <4> QED BY <4>1, <4>2
    <3> QED BY <3>1, <3>2
  <2>9. LoadedTo(r, addr, n + size)
    <3>1. r.bytes = w.bytes \o s
      BY <1>8, <2>3 DEF s
    <3> QED BY <1>6, <1>8, <1>9, <2>2, <2>7, <2>8, <3>1 DEF LoadedTo
  <2>10. ASSUME SameBytes(w.maps),
                \/ ~maps[i].watched \/ ~handle(p) \/ Span(p, size) \subseteq maps[i].written
         PROVE  SameBytes(r.maps)
    <3>1. m.data = w.maps[i].data
      BY <2>1, <2>10
    <3>2. \A j \in DOMAIN maps : l.maps[j].data = w.maps[j].data
      BY <1>5, <2>1, <3>1 DEF SameShape
    <3> QED BY <1>8, <2>10, <3>2 DEF SameBytes
  <2> QED BY <2>9, <2>10
<1> QED BY <1>8, <1>9 DEF r, a, i, p

(* The loop of a load. *)
LEMMA LoadLoop ==
    ASSUME NEW addr, NEW size, NEW v, Len(Accesses(addr, size)) \in Nat
    PROVE  \E f : /\ f[0] = Work
                  /\ \A k \in 1 .. Len(Accesses(addr, size)) :
                        f[k] = LoadUnit(f[k - 1], Accesses(addr, size)[k], v)
                  /\ load(addr, size, v) = f[Len(Accesses(addr, size))]
<1> DEFINE as == Accesses(addr, size)
           LoopTo(n, g) ==
             g = [k \in 0 .. n |-> IF k = 0 THEN Work ELSE LoadUnit(g[k - 1], as[k], v)]
           T == {n \in Nat : \E g : LoopTo(n, g)}
<1> HIDE DEF as
<1>1. 0 \in T
  <2>1. LoopTo(0, [k \in 0 .. 0 |-> Work])
    OBVIOUS
  <2> QED BY <2>1
<1>2. ASSUME NEW n \in Nat, n \in T PROVE n + 1 \in T
  <2>1. PICK g : LoopTo(n, g)
    BY <1>2
  <2> DEFINE h == [k \in 0 .. n + 1 |-> IF k = n + 1 THEN LoadUnit(g[n], as[n + 1], v) ELSE g[k]]
  <2>2. \A k \in 0 .. n : h[k] = g[k]
    <3> TAKE k \in 0 .. n
    <3>1. k \in 0 .. n + 1 /\ k # n + 1
      OBVIOUS
    <3> QED BY <3>1
  <2>3. h[n + 1] = LoadUnit(h[n], as[n + 1], v)
    BY <2>2
  <2>4. \A k \in 0 .. n : h[k] = IF k = 0 THEN Work ELSE LoadUnit(h[k - 1], as[k], v)
    <3> TAKE k \in 0 .. n
    <3>1. g[k] = IF k = 0 THEN Work ELSE LoadUnit(g[k - 1], as[k], v)
      BY <2>1
    <3>2. k # 0 => k - 1 \in 0 .. n
      OBVIOUS
    <3> HIDE DEF h
    <3> QED BY <2>2, <3>1, <3>2
  <2>5. h = [k \in 0 .. n + 1 |-> h[k]]
    OBVIOUS
  <2> HIDE DEF h
  <2>6. \A k \in 0 .. n + 1 : h[k] = IF k = 0 THEN Work ELSE LoadUnit(h[k - 1], as[k], v)
    <3> TAKE k \in 0 .. n + 1
    <3>1. k \in 0 .. n \/ (k = n + 1 /\ k # 0 /\ k - 1 = n)
      OBVIOUS
    <3> QED BY <2>3, <2>4, <3>1
  <2>7. LoopTo(n + 1, h)
    BY <2>5, <2>6
  <2> HIDE DEF LoopTo
  <2> QED BY <2>7
<1>3. Len(as) \in T
  <2>1. Nat \subseteq T
    <3> HIDE DEF T
    <3> QED BY <1>1, <1>2, SetInduction
  <2> QED BY <2>1 DEF as
<1> DEFINE f == CHOOSE g : LoopTo(Len(as), g)
<1>4. LoopTo(Len(as), f)
  <2> HIDE DEF LoopTo
  <2> QED BY <1>3
<1>5. load(addr, size, v) = f[Len(as)]
  BY DEF load, as
<1> HIDE DEF f
<1>6. Len(as) \in Nat
  BY DEF as
<1>7. f[0] = Work /\ \A k \in 1 .. Len(as) : f[k] = LoadUnit(f[k - 1], as[k], v)
  <2>1. \A k \in 0 .. Len(as) : f[k] = IF k = 0 THEN Work ELSE LoadUnit(f[k - 1], as[k], v)
    BY <1>4
  <2>2. ASSUME NEW n \in Nat PROVE 0 \in 0 .. n /\ \A k \in 1 .. n : k \in 0 .. n /\ k # 0
    OBVIOUS
  <2> HIDE DEF LoopTo
  <2> QED BY <1>6, <2>1, <2>2
<1> QED BY <1>5, <1>7 DEF as

(* Each byte of the operand has been written by the program, or the policy  *)
(* leaves it alone.                                                         *)
Unpoliced(addr, size) ==
    /\ handle(addr) => \A a \in Span(addr, size) : handle(a)
    /\ \A a \in Span(addr, size) : \/ ~maps[_find_map(a)].watched \/ ~handle(a)
                                   \/ a \in maps[_find_map(a)].written

(* What a load starts with. *)
LEMMA WorkStarts ==
    ASSUME TypeOK, Pointers(policy), NEW addr \in Nat
    PROVE  Fields(Work) /\ Work.ok /\ LoadedTo(Work, addr, 0) /\ SameBytes(Work.maps)
<1>1. SameShape(maps) /\ OnlyIn(maps, addr, 0) /\ SameBytes(maps) /\ Accounts(policy)
  BY DEF SameShape, OnlyIn, SameBytes, Accounts, SameBounds, TypeOK
<1>2. Fields(Work) /\ Work.maps = maps /\ Work.policy = policy /\ Work.ok /\ Work.bytes = <<>>
  BY DEF Work, Fields
<1> QED BY <1>1, <1>2 DEF LoadedTo

(* A load of an operand whose bytes are all there reads as many bytes as it  *)
(* was asked for, the ones that are in the maps when it is over. What the    *)
(* program has written and what the policy leaves alone stays as it was.     *)
LEMMA Loads ==
    ASSUME TypeOK, Pointers(policy), NEW addr \in Nat, NEW size \in Nat, size > 0,
           NEW v \in Bytes, Within(addr, size), load(addr, size, v).ok
    PROVE  /\ LoadedTo(load(addr, size, v), addr, size)
           /\ Unpoliced(addr, size) => SameBytes(load(addr, size, v).maps)
<1> DEFINE as == Accesses(addr, size)
           single == size \in {1, 2, 4, 8} /\ ~_crosses_pages(addr, size)
<1>1. Fields(Work) /\ Work.ok /\ LoadedTo(Work, addr, 0) /\ SameBytes(Work.maps)
  BY WorkStarts
<1>2. addr \in Span(addr, size)
  BY DEF Span
<1>3. CASE single
  <2>1. as = <<[addr |-> addr, size |-> size]>>
    BY <1>3 DEF Accesses
  <2>2. Len(as) = 1 /\ as[1] = [addr |-> addr, size |-> size]
    BY <2>1
  <2>3. load(addr, size, v) = LoadUnit(Work, [addr |-> addr, size |-> size], v)
    <3> HIDE DEF as
    <3>1. Len(Accesses(addr, size)) \in Nat
      BY <2>2 DEF as
    <3>2. PICK f : /\ f[0] = Work
                   /\ \A k \in 1 .. Len(as) : f[k] = LoadUnit(f[k - 1], as[k], v)
                   /\ load(addr, size, v) = f[Len(as)]
      BY <3>1, LoadLoop DEF as
    <3>3. f[1] = LoadUnit(f[0], as[1], v)
      <4>1. 1 \in 1 .. Len(as) /\ 1 - 1 = 0
        BY <2>2
      <4> QED BY <3>2, <4>1
    <3> QED BY <2>2, <3>2, <3>3
  <2>4. \A a \in Span(addr, size) : _find_map(a) = _find_map(addr)
    <3> TAKE a \in Span(addr, size)
    <3>1. a = addr \/ (a - addr \in 1 .. size - 1 /\ addr + (a - addr) = a)
      BY DEF Span
    <3> QED BY <1>3, <3>1 DEF _crosses_pages
  <2>5. Unpoliced(addr, size) =>
           \/ ~maps[_find_map(addr)].watched \/ ~handle(addr)
           \/ Span(addr, size) \subseteq maps[_find_map(addr)].written
    BY <1>2, <2>4 DEF Unpoliced
  <2>6. addr + 0 = addr /\ 0 + size = size
    OBVIOUS
  <2> QED BY <1>1, <2>3, <2>4, <2>5, <2>6, OneLoad
<1>4. CASE ~single
  <2>1. as = [k \in 1 .. size |-> [addr |-> addr + k - 1, size |-> 1]]
    BY <1>4 DEF Accesses
  <2>2. Len(as) = size /\ \A k \in 1 .. size : as[k] = [addr |-> addr + k - 1, size |-> 1]
    BY <2>1
  <2>3. PICK f : /\ f[0] = Work
                 /\ \A k \in 1 .. size :
                       f[k] = LoadUnit(f[k - 1], [addr |-> addr + k - 1, size |-> 1], v)
                 /\ load(addr, size, v) = f[size]
    <3>1. PICK f : /\ f[0] = Work
                   /\ \A k \in 1 .. Len(as) : f[k] = LoadUnit(f[k - 1], as[k], v)
                   /\ load(addr, size, v) = f[Len(as)]
      BY <2>2, LoadLoop
    <3>2. \A k \in 1 .. size :
             f[k] = LoadUnit(f[k - 1], [addr |-> addr + k - 1, size |-> 1], v)
      BY <2>2, <3>1
    <3> HIDE DEF as
    <3> QED BY <2>2, <3>1, <3>2
  <2> HIDE DEF as, single
  <2> DEFINE Good(n) ==
               /\ Fields(f[n])
               /\ f[n].ok => LoadedTo(f[n], addr, n)
               /\ f[n].ok /\ Unpoliced(addr, size) => SameBytes(f[n].maps)
             T == {n \in Nat : n <= size => Good(n)}
  <2>4. 0 \in T
    BY <1>1, <2>3
  <2>5. ASSUME NEW n \in Nat, n \in T PROVE n + 1 \in T
    <3> SUFFICES ASSUME n + 1 <= size PROVE Good(n + 1)
      OBVIOUS
    <3>1. Good(n) /\ f[n + 1] = LoadUnit(f[n], [addr |-> addr + n, size |-> 1], v)
      <4>1. n + 1 \in 1 .. size /\ (n + 1) - 1 = n /\ addr + (n + 1) - 1 = addr + n
        OBVIOUS
      <4> QED BY <2>3, <2>5, <4>1
    <3>2. CASE ~f[n].ok
      <4>1. f[n + 1] = [f[n] EXCEPT !.ok = FALSE]
        BY <3>1, <3>2 DEF LoadUnit
      <4>2. Fields(f[n + 1]) /\ ~f[n + 1].ok
        BY <3>1, <4>1 DEF Fields
      <4> QED BY <4>2
    <3>3. CASE f[n].ok
      <4>1. Within(addr, n + 1)
        <5>1. \A a \in Span(addr, n + 1) : a \in Span(addr, size)
          BY DEF Span
        <5> QED BY <5>1 DEF Within
      <4>2. \A a \in Span(addr + n, 1) : a = addr + n
        BY DEF Span
      <4>3. addr + n \in Span(addr, size)
        BY DEF Span
      <4>4. Unpoliced(addr, size) =>
               \/ ~maps[_find_map(addr + n)].watched \/ ~handle(addr + n)
               \/ Span(addr + n, 1) \subseteq maps[_find_map(addr + n)].written
        BY <4>2, <4>3 DEF Unpoliced
      <4>5. /\ Fields(f[n + 1])
            /\ f[n + 1].ok => LoadedTo(f[n + 1], addr, n + 1)
            /\ f[n + 1].ok /\ SameBytes(f[n].maps)
                 /\ (\/ ~maps[_find_map(addr + n)].watched \/ ~handle(addr + n)
                     \/ Span(addr + n, 1) \subseteq maps[_find_map(addr + n)].written)
               => SameBytes(f[n + 1].maps)
        BY <3>1, <3>3, <4>1, <4>2, OneLoad
      <4> QED BY <3>1, <3>3, <4>4, <4>5
    <3> QED BY <3>2, <3>3
  <2>6. size \in T
    <3>1. Nat \subseteq T
      <4> HIDE DEF T
      <4> QED BY <2>4, <2>5, SetInduction
    <3> HIDE DEF T
    <3> QED BY <3>1
  <2> QED BY <2>3, <2>6
<1> QED BY <1>3, <1>4

------------------------------------------------------------------------------
(* Stores. *)

(* What the first n bytes of a store have come to. *)
StoredTo(w, addr, n, v) ==
    /\ Fields(w) /\ w.ok
    /\ SameShape(w.maps) /\ OnlyIn(w.maps, addr, n) /\ Accounts(w.policy)
    /\ \A a \in Span(addr, n) : Peek(w.maps, a) = v

(* The policy has taken notice of them. *)
MarkedTo(w, addr, n) ==
    \A a \in Span(addr, n) :
       maps[_find_map(a)].watched /\ handle(a) => a \in w.maps[_find_map(a)].written

(* _store_policy marks the bytes that it is to look after. *)
LEMMA StorePolicy ==
    ASSUME NEW w, Fields(w), w.ok, SameShape(w.maps), Accounts(w.policy),
           NEW i \in DOMAIN maps, NEW p \in Nat, NEW size \in Nat,
           Span(p, size) \subseteq maps[i].base .. maps[i].limit - 1
    PROVE  LET r == _store_policy(w, i, p, size)
           IN  /\ Fields(r) /\ r.ok /\ Accounts(r.policy)
               /\ \E m : /\ r.maps = [w.maps EXCEPT ![i] = m]
                         /\ Fits(w.maps, i, m, p, size)
                         /\ maps[i].watched /\ handle(p) => Span(p, size) \subseteq m.written
<1> DEFINE r == _store_policy(w, i, p, size)
           addrs == Span(p, size)
<1>1. /\ MapOK(w.maps[i]) /\ w.maps[i].watched = maps[i].watched
      /\ w.maps[i].base = maps[i].base /\ w.maps[i].limit = maps[i].limit
      /\ w.maps \in Seq(MemoryMap) /\ DOMAIN w.maps = DOMAIN maps
  BY DEF SameShape
<1>2. Fits(w.maps, i, w.maps[i], p, size)
  BY <1>1 DEF Fits, SameShape
<1>3. CASE ~maps[i].watched \/ ~handle(p)
  <2>1. r = w
    BY <1>1, <1>3 DEF _store_policy
  <2>2. w.maps = [w.maps EXCEPT ![i] = w.maps[i]]
    BY <1>1
  <2>3. Fields(r) /\ r.ok /\ Accounts(r.policy) /\ r.maps = w.maps
    BY <2>1
  <2> HIDE DEF r
  <2> QED BY <1>2, <1>3, <2>2, <2>3 DEF r
<1>4. CASE maps[i].watched /\ handle(p)
  <2> DEFINE pol == [w.policy EXCEPT !.known_outputs = Set(@, p, size)]
             o == [w.maps[i] EXCEPT !["written"] = @ \cup addrs]
  <2>1. PolicyOK(pol) /\ Pointers(pol) /\ SameBounds(pol, w.policy)
    BY Noted DEF Accounts
  <2>2. Accounts(pol)
    BY <2>1 DEF Accounts, SameBounds
  <2>3. r = [w EXCEPT !.policy = pol, !.maps = [w.maps EXCEPT ![i] = o]]
    BY <1>1, <1>4 DEF _store_policy, Mark, Fields
  <2>4. addrs \subseteq w.maps[i].base .. w.maps[i].limit - 1
    BY <1>1
  <2>5. /\ MapOK(o) /\ o.name = w.maps[i].name /\ o.base = w.maps[i].base
        /\ o.limit = w.maps[i].limit /\ o.flags = w.maps[i].flags
        /\ o.watched = w.maps[i].watched /\ o.data = w.maps[i].data
        /\ w.maps[i].written \subseteq o.written /\ addrs \subseteq o.written
    <3> DEFINE m == w.maps[i]
    <3>1. MapOK(m) /\ addrs \subseteq m.base .. m.limit - 1 /\ "written" \in {"read", "written"}
      BY <1>1, <2>4
    <3> HIDE DEF m, r, pol, addrs
    <3>2. /\ MapOK([m EXCEPT !["written"] = @ \cup addrs])
          /\ [m EXCEPT !["written"] = @ \cup addrs].name = m.name
          /\ [m EXCEPT !["written"] = @ \cup addrs].base = m.base
          /\ [m EXCEPT !["written"] = @ \cup addrs].limit = m.limit
          /\ [m EXCEPT !["written"] = @ \cup addrs].flags = m.flags
          /\ [m EXCEPT !["written"] = @ \cup addrs].watched = m.watched
          /\ [m EXCEPT !["written"] = @ \cup addrs].data = m.data
          /\ m.written \subseteq [m EXCEPT !["written"] = @ \cup addrs].written
          /\ addrs \subseteq [m EXCEPT !["written"] = @ \cup addrs].written
      BY <3>1, Marked
    <3> QED BY <3>2 DEF m
  <2> HIDE DEF r, pol, o, addrs
  <2>6. Fits(w.maps, i, o, p, size)
    BY <1>2, <2>5 DEF Fits
  <2>7. Fields(r) /\ r.ok /\ r.policy = pol /\ r.maps = [w.maps EXCEPT ![i] = o]
    BY <2>3 DEF Fields
  <2> QED BY <2>2, <2>5, <2>6, <2>7 DEF r, addrs
<1> QED BY <1>3, <1>4

(* One access of a store writes size bytes more. *)
LEMMA OneStore ==
    ASSUME TypeOK, NEW addr \in Nat, NEW n \in Nat, NEW size \in Nat, size > 0, NEW v \in Bytes,
           NEW w, StoredTo(w, addr, n, v), Within(addr, n + size),
           \A a \in Span(addr + n, size) : _find_map(a) = _find_map(addr + n)
    PROVE  LET r == StoreUnit(w, [addr |-> addr + n, size |-> size], v)
           IN  /\ StoredTo(r, addr, n + size, v)
               /\ MarkedTo(w, addr, n)
                    /\ (\A a \in Span(addr + n, size) : handle(a) => handle(addr + n))
                  => MarkedTo(r, addr, n + size)
<1> DEFINE p == addr + n
           i == _find_map(p)
           a == [addr |-> p, size |-> size]
           q == _store_policy(w, i, p, size)
           r == StoreUnit(w, a, v)
           bytes == [k \in 1 .. size |-> v]
<1>1. p \in Nat /\ a.addr = p /\ a.size = size /\ bytes \in Seq(Bytes) /\ Len(bytes) = size
  OBVIOUS
<1>2. \A x \in Span(p, size) : HasByte(x) /\ x \in 0 .. AddressSpace - 1 /\ _find_map(x) = i
  <2>1. \A x \in Span(p, size) : x \in Span(addr, n + size)
    BY DEF Span
  <2> QED BY <2>1 DEF Within
<1>3. p \in Span(p, size) /\ Span(p, size) \subseteq maps[i].base .. maps[i].limit - 1
  <2>1. p \in Span(p, size)
    BY DEF Span
  <2> QED BY <1>2, <2>1 DEF HasByte
<1>4. i \in DOMAIN maps /\ i # 0
  BY <1>2, <1>3, FindMap DEF HasByte
<1>5. SameShape(w.maps) /\ OnlyIn(w.maps, addr, n) /\ Accounts(w.policy) /\ Fields(w) /\ w.ok
  BY DEF StoredTo
<1>6. /\ Fields(q) /\ q.ok /\ Accounts(q.policy)
      /\ \E m : /\ q.maps = [w.maps EXCEPT ![i] = m]
                /\ Fits(w.maps, i, m, p, size)
                /\ maps[i].watched /\ handle(p) => Span(p, size) \subseteq m.written
  <2> HIDE DEF i, p
  <2> QED BY <1>1, <1>3, <1>4, <1>5, StorePolicy
<1>7. r = [q EXCEPT !.maps = [q.maps EXCEPT ![i] = Overwritten(q.maps[i], p, bytes)]]
  BY <1>1, <1>4 DEF StoreUnit
<1> HIDE DEF q, r, a, i, p, bytes
<1>8. PICK m : /\ q.maps = [w.maps EXCEPT ![i] = m]
               /\ Fits(w.maps, i, m, p, size)
               /\ maps[i].watched /\ handle(p) => Span(p, size) \subseteq m.written
  BY <1>6
<1> DEFINE o == Overwritten(m, p, bytes)
<1>9. q.maps[i] = m /\ MapOK(m) /\ w.maps \in Seq(MemoryMap) /\ DOMAIN w.maps = DOMAIN maps
  BY <1>4, <1>5, <1>8 DEF SameShape, Fits
<1>10. /\ MapOK(o) /\ o.name = m.name /\ o.base = m.base /\ o.limit = m.limit
       /\ o.flags = m.flags /\ o.watched = m.watched /\ o.written = m.written
       /\ \A x \in m.base .. m.limit - 1 :
             o.data[x - m.base + 1] = IF x \in Span(p, size) THEN bytes[x - p + 1]
                                      ELSE m.data[x - m.base + 1]
  <2>3. p \in Nat /\ bytes \in Seq(Bytes) /\ MapOK(m)
    BY <1>1, <1>9
  <2>1. /\ MapOK(o) /\ o.name = m.name /\ o.base = m.base /\ o.limit = m.limit
        /\ o.flags = m.flags /\ o.watched = m.watched /\ o.written = m.written
    BY <2>3, OverwrittenIn
  <2>2. \A x \in m.base .. m.limit - 1 :
             o.data[x - m.base + 1] = IF x \in Span(p, size) THEN bytes[x - p + 1]
                                      ELSE m.data[x - m.base + 1]
    <3> TAKE x \in m.base .. m.limit - 1
    <3>1. o.data[x - m.base + 1] = IF x \in Span(p, Len(bytes)) THEN bytes[x - p + 1]
                                   ELSE m.data[x - m.base + 1]
      BY <2>3, OverwrittenIn
    <3> QED BY <1>1, <3>1
  <2> QED BY <2>1, <2>2
<1> HIDE DEF o
<1>11. Fields(r) /\ r.ok /\ r.policy = q.policy /\ r.maps = [w.maps EXCEPT ![i] = o]
  <2>1. [q.maps EXCEPT ![i] = o] = [w.maps EXCEPT ![i] = o]
    BY <1>4, <1>8, <1>9
  <2>2. r = [q EXCEPT !.maps = [w.maps EXCEPT ![i] = o]]
    BY <1>7, <1>9, <2>1 DEF o
  <2> QED BY <1>6, <2>2 DEF Fields
<1>12. Fits(w.maps, i, o, p, size)
  BY <1>8, <1>10 DEF Fits
<1>13. Replaced(w.maps, r.maps, i, o, addr, n, size)
  <2>1. Fits(w.maps, i, o, addr + n, size)
    BY <1>12 DEF p
  <2>2. \A x \in Span(addr + n, size) : HasByte(x) /\ _find_map(x) = i
    BY <1>2 DEF p
  <2>3. Replaced(w.maps, [w.maps EXCEPT ![i] = o], i, o, addr, n, size)
    BY <1>4, <1>5, <2>1, <2>2, Replace
  <2> QED BY <1>11, <2>3
<1>14. ASSUME NEW x \in Span(addr, n + size)
       PROVE  \/ x \in Span(addr, n) /\ HasByte(x) /\ x \in 0 .. AddressSpace - 1
              \/ x \in Span(p, size) /\ x - p + 1 \in 1 .. size
  BY <1>14 DEF Span, Within, p
<1>15. \A x \in Span(addr, n + size) : Peek(r.maps, x) = v
  <2> TAKE x \in Span(addr, n + size)
  <2>1. CASE x \in Span(addr, n) /\ HasByte(x) /\ x \in 0 .. AddressSpace - 1
    BY <1>13, <2>1 DEF Replaced, StoredTo
  <2>2. CASE x \in Span(p, size) /\ x - p + 1 \in 1 .. size
    <3>1. Peek(r.maps, x) = o.data[x - maps[i].base + 1]
      BY <1>13, <2>2 DEF Replaced, p
    <3>2. maps[i].base = m.base /\ x \in m.base .. m.limit - 1
      BY <1>3, <1>8, <2>2 DEF Fits
    <3>3. o.data[x - m.base + 1] = bytes[x - p + 1]
      BY <1>10, <2>2, <3>2
    <3> QED BY <2>2, <3>1, <3>2, <3>3 DEF bytes
  <2> QED BY <1>14, <2>1, <2>2
<1>16. StoredTo(r, addr, n + size, v)
  BY <1>6, <1>11, <1>13, <1>15 DEF StoredTo, Replaced
<1>17. ASSUME MarkedTo(w, addr, n), \A x \in Span(p, size) : handle(x) => handle(p)
       PROVE  MarkedTo(r, addr, n + size)
  <2> SUFFICES ASSUME NEW x \in Span(addr, n + size), maps[_find_map(x)].watched, handle(x)
               PROVE  x \in r.maps[_find_map(x)].written
    BY DEF MarkedTo
  <2>1. CASE x \in Span(addr, n) /\ HasByte(x) /\ x \in 0 .. AddressSpace - 1
    <3>1. x \in w.maps[_find_map(x)].written /\ _find_map(x) \in DOMAIN maps
      BY <1>17, <2>1, FindMap DEF MarkedTo, HasByte
    <3>2. w.maps[_find_map(x)].written \subseteq r.maps[_find_map(x)].written
      BY <1>9, <1>11, <1>12, <3>1 DEF Fits
    <3> QED BY <3>1, <3>2
  <2>2. CASE x \in Span(p, size)
    <3>1. _find_map(x) = i /\ handle(p) /\ maps[i].watched
      BY <1>2, <1>17, <2>2
    <3>2. x \in m.written
      BY <1>8, <2>2, <3>1
    <3> QED BY <1>4, <1>9, <1>10, <1>11, <3>1, <3>2
  <2> QED BY <1>14, <2>1, <2>2
<1> QED BY <1>16, <1>17 DEF r, a, i, p

(* The loop of a store. *)
LEMMA StoreLoop ==
    ASSUME NEW addr, NEW size, NEW v, Len(Accesses(addr, size)) \in Nat
    PROVE  \E f : /\ f[0] = Work
                  /\ \A k \in 1 .. Len(Accesses(addr, size)) :
                        f[k] = StoreUnit(f[k - 1], Accesses(addr, size)[k], v)
                  /\ store(addr, size, v) = f[Len(Accesses(addr, size))]
<1> DEFINE as == Accesses(addr, size)
           LoopTo(n, g) ==
             g = [k \in 0 .. n |-> IF k = 0 THEN Work ELSE StoreUnit(g[k - 1], as[k], v)]
           T == {n \in Nat : \E g : LoopTo(n, g)}
<1> HIDE DEF as
<1>1. 0 \in T
  <2>1. LoopTo(0, [k \in 0 .. 0 |-> Work])
    OBVIOUS
  <2> QED BY <2>1
<1>2. ASSUME NEW n \in Nat, n \in T PROVE n + 1 \in T
  <2>1. PICK g : LoopTo(n, g)
    BY <1>2
  <2> DEFINE h == [k \in 0 .. n + 1 |-> IF k = n + 1 THEN StoreUnit(g[n], as[n + 1], v) ELSE g[k]]
  <2>2. \A k \in 0 .. n : h[k] = g[k]
    <3> TAKE k \in 0 .. n
    <3>1. k \in 0 .. n + 1 /\ k # n + 1
      OBVIOUS
    <3> QED BY <3>1
  <2>3. h[n + 1] = StoreUnit(h[n], as[n + 1], v)
    BY <2>2
  <2>4. \A k \in 0 .. n : h[k] = IF k = 0 THEN Work ELSE StoreUnit(h[k - 1], as[k], v)
    <3> TAKE k \in 0 .. n
    <3>1. g[k] = IF k = 0 THEN Work ELSE StoreUnit(g[k - 1], as[k], v)
      BY <2>1
    <3>2. k # 0 => k - 1 \in 0 .. n
      OBVIOUS
    <3> HIDE DEF h
    <3> QED BY <2>2, <3>1, <3>2
  <2>5. h = [k \in 0 .. n + 1 |-> h[k]]
    OBVIOUS
  <2> HIDE DEF h
  <2>6. \A k \in 0 .. n + 1 : h[k] = IF k = 0 THEN Work ELSE StoreUnit(h[k - 1], as[k], v)
    <3> TAKE k \in 0 .. n + 1
    <3>1. k \in 0 .. n \/ (k = n + 1 /\ k # 0 /\ k - 1 = n)
      OBVIOUS
    <3> QED BY <2>3, <2>4, <3>1
  <2>7. LoopTo(n + 1, h)
    BY <2>5, <2>6
  <2> HIDE DEF LoopTo
  <2> QED BY <2>7
<1>3. Len(as) \in T
  <2>1. Nat \subseteq T
    <3> HIDE DEF T
    <3> QED BY <1>1, <1>2, SetInduction
  <2> QED BY <2>1 DEF as
<1> DEFINE f == CHOOSE g : LoopTo(Len(as), g)
<1>4. LoopTo(Len(as), f)
  <2> HIDE DEF LoopTo
  <2> QED BY <1>3
<1>5. store(addr, size, v) = f[Len(as)]
  BY DEF store, as
<1> HIDE DEF f
<1>6. Len(as) \in Nat
  BY DEF as
<1>7. f[0] = Work /\ \A k \in 1 .. Len(as) : f[k] = StoreUnit(f[k - 1], as[k], v)
  <2>1. \A k \in 0 .. Len(as) : f[k] = IF k = 0 THEN Work ELSE StoreUnit(f[k - 1], as[k], v)
    BY <1>4
  <2>2. ASSUME NEW n \in Nat PROVE 0 \in 0 .. n /\ \A k \in 1 .. n : k \in 0 .. n /\ k # 0
    OBVIOUS
  <2> HIDE DEF LoopTo
  <2> QED BY <1>6, <2>1, <2>2
<1> QED BY <1>5, <1>7 DEF as


(* A store to an operand whose bytes are all there succeeds and writes them. *)
(* Unless it is on both sides of the policy's range, the policy takes notice *)
(* of every byte in the range.                                               *)
LEMMA Stores ==
    ASSUME TypeOK, Pointers(policy), NEW addr \in Nat, NEW size \in Nat, size > 0,
           NEW v \in Bytes, Within(addr, size)
    PROVE  /\ StoredTo(store(addr, size, v), addr, size, v)
           /\ OneSided(addr, size) => MarkedTo(store(addr, size, v), addr, size)
<1> DEFINE as == Accesses(addr, size)
           single == size \in {1, 2, 4, 8} /\ ~_crosses_pages(addr, size)
<1>1. StoredTo(Work, addr, 0, v) /\ MarkedTo(Work, addr, 0)
  <2>1. \A a \in Span(addr, 0) : FALSE
    BY DEF Span
  <2> QED BY <2>1, WorkStarts DEF StoredTo, MarkedTo, LoadedTo
<1>2. addr \in Span(addr, size)
  BY DEF Span
<1>3. CASE single
  <2>1. as = <<[addr |-> addr, size |-> size]>>
    BY <1>3 DEF Accesses
  <2>2. Len(as) = 1 /\ as[1] = [addr |-> addr, size |-> size]
    BY <2>1
  <2>3. store(addr, size, v) = StoreUnit(Work, [addr |-> addr, size |-> size], v)
    <3> HIDE DEF as
    <3>1. Len(Accesses(addr, size)) \in Nat
      BY <2>2 DEF as
    <3>2. PICK f : /\ f[0] = Work
                   /\ \A k \in 1 .. Len(as) : f[k] = StoreUnit(f[k - 1], as[k], v)
                   /\ store(addr, size, v) = f[Len(as)]
      BY <3>1, StoreLoop DEF as
    <3>3. f[1] = StoreUnit(f[0], as[1], v)
      <4>1. 1 \in 1 .. Len(as) /\ 1 - 1 = 0
        BY <2>2
      <4> QED BY <3>2, <4>1
    <3> QED BY <2>2, <3>2, <3>3
  <2>4. \A a \in Span(addr, size) : _find_map(a) = _find_map(addr)
    <3> TAKE a \in Span(addr, size)
    <3>1. a = addr \/ (a - addr \in 1 .. size - 1 /\ addr + (a - addr) = a)
      BY DEF Span
    <3> QED BY <1>3, <3>1 DEF _crosses_pages
  <2>5. OneSided(addr, size) => \A a \in Span(addr, size) : handle(a) => handle(addr)
    BY <1>2 DEF OneSided
  <2>6. addr + 0 = addr /\ 0 + size = size
    OBVIOUS
  <2> QED BY <1>1, <2>3, <2>4, <2>5, <2>6, OneStore
<1>4. CASE ~single
  <2>1. as = [k \in 1 .. size |-> [addr |-> addr + k - 1, size |-> 1]]
    BY <1>4 DEF Accesses
  <2>2. Len(as) = size /\ \A k \in 1 .. size : as[k] = [addr |-> addr + k - 1, size |-> 1]
    BY <2>1
  <2>3. PICK f : /\ f[0] = Work
                 /\ \A k \in 1 .. size :
                       f[k] = StoreUnit(f[k - 1], [addr |-> addr + k - 1, size |-> 1], v)
                 /\ store(addr, size, v) = f[size]
    <3>3. Len(Accesses(addr, size)) \in Nat
      BY <2>2
    <3>1. PICK f : /\ f[0] = Work
                   /\ \A k \in 1 .. Len(as) : f[k] = StoreUnit(f[k - 1], as[k], v)
                   /\ store(addr, size, v) = f[Len(as)]
      BY <3>3, StoreLoop
    <3>2. \A k \in 1 .. size :
             f[k] = StoreUnit(f[k - 1], [addr |-> addr + k - 1, size |-> 1], v)
      BY <2>2, <3>1
    <3> HIDE DEF as
    <3> QED BY <2>2, <3>1, <3>2
  <2> HIDE DEF as, single
  <2> DEFINE Good(n) == StoredTo(f[n], addr, n, v) /\ MarkedTo(f[n], addr, n)
             T == {n \in Nat : n <= size => Good(n)}
  <2>4. 0 \in T
    BY <1>1, <2>3
  <2>5. ASSUME NEW n \in Nat, n \in T PROVE n + 1 \in T
    <3> SUFFICES ASSUME n + 1 <= size PROVE Good(n + 1)
      OBVIOUS
    <3>1. Good(n) /\ f[n + 1] = StoreUnit(f[n], [addr |-> addr + n, size |-> 1], v)
      <4>1. n + 1 \in 1 .. size /\ (n + 1) - 1 = n /\ addr + (n + 1) - 1 = addr + n
        OBVIOUS
      <4> QED BY <2>3, <2>5, <4>1
    <3>2. Within(addr, n + 1)
      <4>1. \A a \in Span(addr, n + 1) : a \in Span(addr, size)
        BY DEF Span
      <4> QED BY <4>1 DEF Within
    <3>3. \A a \in Span(addr + n, 1) : a = addr + n
      BY DEF Span
    <3> QED BY <3>1, <3>2, <3>3, OneStore
  <2>6. size \in T
    <3>1. Nat \subseteq T
      <4> HIDE DEF T
      <4> QED BY <2>4, <2>5, SetInduction
    <3> HIDE DEF T
    <3> QED BY <3>1
  <2> QED BY <2>3, <2>6
<1> QED BY <1>3, <1>4

------------------------------------------------------------------------------
(* The inductive invariant. *)

(* What LayoutAssumption says of a section. *)
GoodSections ==
    {s \in Sections : /\ s.start + s.size <= AddressSpace
                      /\ s.name = "[stack]" => s.size > 0
                      /\ s.name = "[input_space]" => {"R", "W"} \subseteq s.flags}

(* The policy of GodefroidProcess is not there before its input space is. *)
LoadingInv ==
    /\ todo \in Seq(GoodSections)
    /\ stage \in {"loading", "attaching"} =>
          policy = NewPolicy(0, 0, 0, 0) /\ seen = EmptyDict /\ stored = {} /\ kept = {}

(* A page belongs to a map that begins before its end. *)
TableInv ==
    \A p \in Pages : table[p] # 0 =>
       p * PageSize \in maps[table[p]].base .. maps[table[p]].limit - 1

(* The input spaces that sections make are single pages. *)
InputPages ==
    \A i \in DOMAIN maps : maps[i].name = "[input_space]" =>
       \E q \in Pages : maps[i].base = q * PageSize /\ maps[i].limit = (q + 1) * PageSize

(* An input space that has kept one of its pages has kept them all. *)
InputWhole ==
    \A i \in DOMAIN maps, p \in Pages : maps[i].name = "[input_space]" /\ table[p] = i =>
       \A a \in maps[i].base .. maps[i].limit - 1 : _find_map(a) = i

(* An input space can be read and written; until the policy is attached,    *)
(* none is in part another map's.                                           *)
InputInv ==
    /\ \A i \in DOMAIN maps : maps[i].name = "[input_space]" => {"R", "W"} \subseteq maps[i].flags
    /\ stage = "loading" => InputPages
    /\ stage = "attaching" => InputWhole

(* The pointers are given out of one map, all of which is there. *)
PointersInv ==
    /\ Pointers(policy)
    /\ \A a \in policy.pointers_start .. policy.pointers_end - 1 :
          /\ HasByte(a) /\ a \in 0 .. AddressSpace - 1
          /\ {"R", "W"} \subseteq maps[_find_map(a)].flags
          /\ _find_map(a) = _find_map(policy.pointers_start)

(* An operand that has been read may be read, or read and written. *)
OperandInv ==
    /\ stage \in {"read", "loaded"} => op.hint # "agen" /\ op.size > 0
    /\ stage = "loaded" => Permitted(op.addr, op.size, op.hint) /\ Len(op.result) = op.size

(* What the program has last stored or been shown is what is in memory. *)
SeenInv ==
    stage \in {"idle", "read", "loaded"} =>
       /\ DOMAIN seen = Mapped
       /\ \A a \in Mapped : HasByte(a) => seen[a] = Peek(maps, a)

(* The policy has taken notice of the stores that lie in its range. *)
KeptInv ==
    stage \in {"idle", "read", "loaded"} =>
       \A a \in kept : maps[_find_map(a)].watched /\ handle(a) => a \in maps[_find_map(a)].written

PolicyInv ==
    /\ TypeOK /\ LoadingInv /\ TableInv /\ InputInv /\ PointersInv
    /\ OperandInv /\ SeenInv /\ KeptInv

(* The bytes of an operand that is permitted are all there: can_do looks at *)
(* the range of a map, and a map ends where the address space does, while   *)
(* the page number alone wraps around.                                      *)
LEMMA PermittedWithin ==
    ASSUME TypeOK, NEW addr \in Nat, NEW size \in Nat,
           NEW hint \in {"read", "write", "rw"}, Permitted(addr, size, hint)
    PROVE  Within(addr, size)
<1> SUFFICES ASSUME NEW a \in Span(addr, size)
             PROVE  HasByte(a) /\ a \in 0 .. AddressSpace - 1
  BY DEF Within
<1>1. a \in Nat
  BY DEF Span
<1>2. PICK o \in Checks[hint] : can_do(o, a)
  BY DEF Permitted, Checks
<1>3. HasByte(a)
  BY <1>2 DEF can_do, _can_do_op, HasByte
<1>4. table \in [Pages -> 0 .. Len(maps)] /\ maps \in Seq(MemoryMap)
  BY DEF TypeOK
<1>5. a % AddressSpace \in 0 .. AddressSpace - 1
  BY <1>1, SizesPositive
<1>6. (a % AddressSpace) \div PageSize \in Pages
  BY <1>5, AddressInPage
<1>7. _find_map(a) \in DOMAIN maps
  BY <1>3, <1>4, <1>6 DEF _find_map, HasByte
<1>8. MapOK(maps[_find_map(a)])
  BY <1>7 DEF TypeOK
<1>9. a < AddressSpace
  <2> DEFINE m == maps[_find_map(a)]
  <2>1. m.limit \in Nat /\ m.limit <= AddressSpace /\ m.base \in Nat
    BY <1>8 DEF MapOK, MemoryMap
  <2>2. a \in m.base .. m.limit - 1
    BY <1>3 DEF HasByte
  <2> HIDE DEF m
  <2> QED BY <1>1, <2>1, <2>2, SizesPositive
<1> QED BY <1>1, <1>3, <1>9, SizesPositive

(* A load, a store or a new operand changes no range, no permission and no  *)
(* page, and nothing of the policy's range.                                 *)
LEMMA ShapeKept ==
    ASSUME TypeOK, SameShape(maps'), SameBounds(policy', policy), table' = table
    PROVE  /\ \A a : _find_map(a)' = _find_map(a)
           /\ \A a \in 0 .. AddressSpace - 1 : HasByte(a)' <=> HasByte(a)
           /\ \A a : handle(a)' <=> handle(a)
           /\ Mapped' = Mapped
           /\ \A i \in DOMAIN maps :
                 /\ maps'[i].name = maps[i].name /\ maps'[i].flags = maps[i].flags
                 /\ maps'[i].base = maps[i].base /\ maps'[i].limit = maps[i].limit
                 /\ maps'[i].watched = maps[i].watched
                 /\ maps[i].written \subseteq maps'[i].written
           /\ DOMAIN maps' = DOMAIN maps /\ Len(maps') = Len(maps)
<1>1. \A a : _find_map(a)' = _find_map(a)
  BY DEF _find_map
<1>2. /\ \A i \in DOMAIN maps :
            /\ maps'[i].name = maps[i].name /\ maps'[i].flags = maps[i].flags
            /\ maps'[i].base = maps[i].base /\ maps'[i].limit = maps[i].limit
            /\ maps'[i].watched = maps[i].watched
            /\ maps[i].written \subseteq maps'[i].written
      /\ DOMAIN maps' = DOMAIN maps /\ Len(maps') = Len(maps)
  <2>1. maps' \in Seq(MemoryMap) /\ maps \in Seq(MemoryMap) /\ Len(maps') = Len(maps)
    BY DEF SameShape, TypeOK
  <2> QED BY <2>1 DEF SameShape
<1>3. ASSUME NEW a \in 0 .. AddressSpace - 1 PROVE HasByte(a)' <=> HasByte(a)
  <2> DEFINE i == _find_map(a)
  <2>1. _find_map(a)' = i /\ (i # 0 => i \in DOMAIN maps)
    BY <1>1, FindMap
  <2>2. HasByte(a)' <=> i # 0 /\ a \in maps'[i].base .. maps'[i].limit - 1
    BY <2>1 DEF HasByte
  <2>3. HasByte(a) <=> i # 0 /\ a \in maps[i].base .. maps[i].limit - 1
    BY DEF HasByte
  <2> HIDE DEF i
  <2> QED BY <1>2, <2>1, <2>2, <2>3
<1>4. \A a : handle(a)' <=> handle(a)
  BY DEF handle, SameBounds
<1>5. Mapped' = Mapped
  BY <1>1 DEF Mapped
<1> QED BY <1>1, <1>2, <1>3, <1>4, <1>5

(* So most of the invariant goes on to hold. *)
LEMMA RunningInv ==
    ASSUME PolicyInv, SameShape(maps'), Accounts(policy'),
           stage \in {"idle", "read", "loaded"}, stage' \in {"idle", "read", "loaded"},
           UNCHANGED <<table, layout, todo, mem_map>>
    PROVE  /\ LoadingInv' /\ TableInv' /\ InputInv' /\ PointersInv'
           /\ layout' \in Layouts /\ mem_map' \in 0 .. Len(maps')
           /\ table' \in [Pages -> 0 .. Len(maps')]
           /\ maps' \in Seq(MemoryMap) /\ \A i \in DOMAIN maps' : MapOK(maps'[i])
           /\ PolicyOK(policy')
<1>1. TypeOK /\ SameBounds(policy', policy) /\ PolicyOK(policy') /\ Pointers(policy')
  BY DEF PolicyInv, Accounts
<1>2. /\ \A i \in DOMAIN maps :
            /\ maps'[i].name = maps[i].name /\ maps'[i].flags = maps[i].flags
            /\ maps'[i].base = maps[i].base /\ maps'[i].limit = maps[i].limit
      /\ DOMAIN maps' = DOMAIN maps /\ Len(maps') = Len(maps)
  BY <1>1, ShapeKept
<1>3. LoadingInv'
  BY DEF PolicyInv, LoadingInv
<1>4. TableInv'
  <2>1. ASSUME NEW p \in Pages, table[p] # 0 PROVE table[p] \in DOMAIN maps
    BY <1>1, <2>1 DEF TypeOK
  <2> QED BY <1>2, <2>1 DEF PolicyInv, TableInv
<1>5. InputInv'
  BY <1>2 DEF PolicyInv, InputInv
<1>6. PointersInv'
  <2> SUFFICES ASSUME NEW a \in policy.pointers_start .. policy.pointers_end - 1
               PROVE  /\ HasByte(a)' /\ a \in 0 .. AddressSpace - 1
                      /\ {"R", "W"} \subseteq maps'[_find_map(a)'].flags
                      /\ _find_map(a)' = _find_map(policy.pointers_start)'
    BY <1>1 DEF PointersInv, SameBounds
  <2>1. /\ HasByte(a) /\ a \in 0 .. AddressSpace - 1
        /\ {"R", "W"} \subseteq maps[_find_map(a)].flags
        /\ _find_map(a) = _find_map(policy.pointers_start)
    BY DEF PolicyInv, PointersInv
  <2>2. /\ _find_map(a)' = _find_map(a)
        /\ _find_map(policy.pointers_start)' = _find_map(policy.pointers_start)
    BY <1>1 DEF SameBounds, _find_map
  <2>3. HasByte(a)'
    BY <1>1, <2>1, ShapeKept
  <2>4. _find_map(a) \in DOMAIN maps
    BY <1>1, <2>1, FindMap DEF HasByte
  <2> QED BY <1>2, <2>1, <2>2, <2>3, <2>4
<1>7. /\ layout' \in Layouts /\ mem_map' \in 0 .. Len(maps')
      /\ table' \in [Pages -> 0 .. Len(maps')]
      /\ maps' \in Seq(MemoryMap) /\ \A i \in DOMAIN maps' : MapOK(maps'[i])
  BY <1>1, <1>2 DEF TypeOK, SameShape
<1> QED BY <1>1, <1>3, <1>4, <1>5, <1>6, <1>7

(* What an operand may do does not change, either. *)
LEMMA PermittedKept ==
    ASSUME TypeOK, SameShape(maps'), SameBounds(policy', policy), table' = table,
           NEW addr \in Nat, NEW size \in Nat, NEW hint \in {"read", "write", "rw"},
           Permitted(addr, size, hint)
    PROVE  Permitted(addr, size, hint)'
<1>1. Within(addr, size)
  BY PermittedWithin
<1> SUFFICES ASSUME NEW a \in Span(addr, size), NEW o \in Checks[hint]
             PROVE  can_do(o, a)'
  BY DEF Permitted
<1>2. can_do(o, a) /\ HasByte(a) /\ a \in 0 .. AddressSpace - 1
  BY <1>1 DEF Permitted, Within
<1>3. _find_map(a) \in DOMAIN maps
  BY <1>2, FindMap DEF HasByte
<1>4. _find_map(a)' = _find_map(a)
  BY DEF _find_map
<1>5. /\ maps'[_find_map(a)].flags = maps[_find_map(a)].flags
      /\ maps'[_find_map(a)].base = maps[_find_map(a)].base
      /\ maps'[_find_map(a)].limit = maps[_find_map(a)].limit
  BY <1>3, ShapeKept
<1> QED BY <1>2, <1>4, <1>5 DEF can_do, _can_do_op

------------------------------------------------------------------------------
(* The operands. *)

(* A computed address moves the watermark up or leaves it.                  *)
LEMMA ComputeInv ==
    ASSUME PolicyInv, NEW result \in Addresses, NEW size \in Sizes,
           NEW hint \in {"read", "write", "rw", "agen"}, NEW derived \in BOOLEAN,
           compute_address(result, size, hint, derived)
    PROVE  PolicyInv'
<1>1. /\ TypeOK /\ LoadingInv /\ TableInv /\ InputInv /\ PointersInv
      /\ OperandInv /\ SeenInv /\ KeptInv
  BY DEF PolicyInv
<1>2. /\ accesses' \in 0 .. MaxAccesses /\ stage \in {"idle", "read", "loaded"}
      /\ UNCHANGED <<table, layout, todo, mem_map>> /\ result \in Nat /\ size \in Nat /\ size > 0
  BY <1>1, PolicyAssumption DEF compute_address, TypeOK
<1>3. CASE Refuse
  <2>1. stage' = "stopped" /\ UNCHANGED <<maps, policy, op, seen, stored, kept>>
    BY <1>3 DEF Refuse, ghosts
  <2>2. TypeOK'
    BY <1>1, <1>2, <2>1 DEF TypeOK
  <2>3. LoadingInv' /\ TableInv' /\ InputInv' /\ PointersInv' /\ OperandInv' /\ SeenInv' /\ KeptInv'
    BY <1>1, <1>2, <2>1 DEF LoadingInv, TableInv, InputInv, PointersInv, OperandInv, SeenInv,
                            KeptInv, HasByte, _find_map
  <2> QED BY <2>2, <2>3 DEF PolicyInv
<1>4. CASE ~Refuse
  <2> DEFINE mark == IF Bumped(result) THEN policy.pointer_watermark + PointerIncrement
                     ELSE policy.pointer_watermark
             ins2 == IF in_input_range(result) \/ derived
                     THEN Set(policy.known_inputs, result, op.size) ELSE policy.known_inputs
  <2>1. /\ policy' = [policy EXCEPT !.pointer_watermark = mark, !.known_inputs = ins2]
        /\ op' = [addr |-> result % AddressSpace, size |-> size, hint |-> hint, result |-> <<>>]
        /\ stage' = (IF hint = "agen" THEN "idle" ELSE "read")
        /\ UNCHANGED <<maps, seen, stored, kept>>
        /\ Bumped(result) => policy.pointer_watermark + PointerIncrement < policy.pointers_end
    <3>1. policy.pointer_watermark \in Nat /\ policy.pointers_end \in Nat
      BY <1>1 DEF TypeOK, PolicyOK
    <3>2. /\ policy' = [policy EXCEPT !.pointer_watermark = mark, !.known_inputs = ins2]
          /\ op' = [addr |-> result % AddressSpace, size |-> size, hint |-> hint, result |-> <<>>]
          /\ stage' = (IF hint = "agen" THEN "idle" ELSE "read")
          /\ UNCHANGED <<maps, seen, stored, kept>>
      BY <1>4 DEF compute_address, ghosts
    <3>3. ~(Bumped(result) /\ policy.pointer_watermark + PointerIncrement >= policy.pointers_end)
      BY <1>4 DEF compute_address
    <3> QED BY <3>1, <3>2, <3>3, SizesPositive
  <2>2. PolicyOK(policy) /\ Pointers(policy) /\ Dicts(ins2)
    <3>1. PolicyOK(policy) /\ Pointers(policy) /\ op.size \in Nat
      BY <1>1 DEF TypeOK, PointersInv, Operand
    <3>2. Dicts(policy.known_inputs)
      BY <3>1 DEF PolicyOK
    <3>3. Dicts(Set(policy.known_inputs, result, op.size))
      BY <1>2, <3>1, <3>2, SetDict
    <3> QED BY <3>1, <3>2, <3>3
  <2>3. /\ mark \in policy.pointers_start .. policy.pointers_end /\ mark \in Nat
        /\ mark >= policy.pointer_watermark /\ policy.pointer_watermark \in Nat
    BY <2>1, <2>2, SizesPositive DEF PolicyOK
  <2> HIDE DEF mark, ins2
  <2>4. /\ SameBounds(policy', policy) /\ policy'.pointer_watermark = mark
        /\ policy'.pointer_map = policy.pointer_map /\ PolicyOK(policy')
    BY <2>1, <2>2, <2>3 DEF PolicyOK, SameBounds
  <2>5. Pointers(policy')
    <3> SUFFICES ASSUME NEW a \in DOMAIN policy.pointer_map
                 PROVE  policy.pointer_map[a] + PointerIncrement <= mark
      BY <2>2, <2>4 DEF Pointers, SameBounds
    <3>1. /\ policy.pointer_map[a] \in Nat
          /\ policy.pointer_map[a] + PointerIncrement <= policy.pointer_watermark
      BY <2>2 DEF Pointers, PolicyOK, Dicts
    <3> QED BY <2>3, <3>1, SizesPositive
  <2>6. Accounts(policy') /\ SameShape(maps') /\ stage' \in {"idle", "read"}
    BY <1>1, <2>1, <2>4, <2>5 DEF Accounts, SameShape, TypeOK
  <2>7. /\ LoadingInv' /\ TableInv' /\ InputInv' /\ PointersInv'
        /\ layout' \in Layouts /\ mem_map' \in 0 .. Len(maps')
        /\ table' \in [Pages -> 0 .. Len(maps')]
        /\ maps' \in Seq(MemoryMap) /\ \A i \in DOMAIN maps' : MapOK(maps'[i])
        /\ PolicyOK(policy')
    BY <1>2, <2>6, RunningInv
  <2>8. op' \in Operand
    <3>1. result % AddressSpace \in 0 .. AddressSpace - 1 /\ <<>> \in Seq(Bytes)
      BY <1>2, SizesPositive
    <3> QED BY <1>2, <2>1, <3>1 DEF Operand
  <2>9. TypeOK'
    BY <1>1, <1>2, <2>1, <2>6, <2>7, <2>8 DEF TypeOK
  <2>10. OperandInv'
    BY <1>2, <2>1 DEF OperandInv
  <2>11. /\ \A a : _find_map(a)' = _find_map(a)
         /\ \A a : handle(a)' <=> handle(a)
         /\ Mapped' = Mapped
    BY <1>1, <1>2, <2>4, <2>6, ShapeKept
  <2>12. SeenInv'
    <3>1. \A a : HasByte(a)' <=> HasByte(a)
      BY <2>1, <2>11 DEF HasByte
    <3>2. \A a : Peek(maps, a)' = Peek(maps, a)
      BY <2>1, <2>11 DEF Peek
    <3> QED BY <1>1, <1>2, <2>1, <2>11, <3>1, <3>2 DEF SeenInv
  <2>13. KeptInv'
    BY <1>1, <1>2, <2>1, <2>11 DEF KeptInv
  <2> QED BY <2>7, <2>9, <2>10, <2>12, <2>13 DEF PolicyInv
<1> QED BY <1>3, <1>4

(* Memory changes in the bytes of the operand only, and these have been     *)
(* shown to the program or stored by it.                                    *)
LEMMA SeenKept ==
    ASSUME PolicyInv, stage \in {"idle", "read", "loaded"},
           SameShape(maps'), SameBounds(policy', policy), table' = table,
           NEW addr \in Nat, NEW n \in Nat, OnlyIn(maps', addr, n),
           DOMAIN seen' = DOMAIN seen,
           \A a \in DOMAIN seen : seen'[a] = IF a \in Span(addr, n) THEN Peek(maps', a) ELSE seen[a]
    PROVE  SeenInv'
<1> SUFFICES ASSUME NEW a \in Mapped, HasByte(a)' PROVE seen'[a] = Peek(maps, a)'
  <2>1. DOMAIN seen' = Mapped /\ Mapped' = Mapped
    BY ShapeKept DEF PolicyInv, SeenInv
  <2> QED BY <2>1 DEF SeenInv
<1>1. a \in 0 .. AddressSpace - 1 /\ a \in DOMAIN seen /\ TypeOK
  BY DEF PolicyInv, SeenInv, Mapped
<1>2. HasByte(a) /\ _find_map(a)' = _find_map(a) /\ seen[a] = Peek(maps, a)
  BY <1>1, ShapeKept DEF PolicyInv, SeenInv
<1>3. Peek(maps, a)' = Peek(maps', a)
  BY <1>2 DEF Peek
<1>4. CASE a \in Span(addr, n)
  BY <1>1, <1>3, <1>4
<1>5. CASE a \notin Span(addr, n)
  <2> DEFINE i == _find_map(a)
  <2>1. i \in DOMAIN maps /\ a \in maps[i].base .. maps[i].limit - 1 /\ maps'[i].base = maps[i].base
    BY <1>1, <1>2, FindMap, ShapeKept DEF HasByte
  <2>2. maps'[i].data[a - maps[i].base + 1] = maps[i].data[a - maps[i].base + 1]
    BY <1>5, <2>1 DEF OnlyIn
  <2>3. Peek(maps', a) = Peek(maps, a)
    BY <2>1, <2>2 DEF Peek
  <2> QED BY <1>1, <1>2, <1>3, <1>5, <2>3
<1> QED BY <1>4, <1>5

(* A load that succeeds, of an operand that is permitted. *)
LEMMA ReadStep ==
    ASSUME PolicyInv, NEW v \in RandomBytes, read_memory(v), stage' = "loaded"
    PROVE  LET w == load(op.addr, op.size, v)
           IN  /\ LoadedTo(w, op.addr, op.size)
               /\ Unpoliced(op.addr, op.size) => SameBytes(w.maps)
               /\ Within(op.addr, op.size) /\ op.hint \in {"read", "write", "rw"}
               /\ op.addr \in Nat /\ op.size \in Nat /\ op.size > 0
               /\ Permitted(op.addr, op.size, op.hint)
               /\ maps' = w.maps /\ policy' = w.policy /\ op' = [op EXCEPT !.result = w.bytes]
               /\ seen' = [a \in DOMAIN seen |->
                             IF a \in Span(op.addr, Len(w.bytes)) THEN w.bytes[a - op.addr + 1]
                             ELSE seen[a]]
               /\ UNCHANGED <<table, layout, todo, mem_map, accesses, stored, kept>>
<1> DEFINE w == load(op.addr, op.size, v)
<1>1. TypeOK /\ OperandInv /\ Pointers(policy) /\ stage = "read" /\ v \in Bytes
  BY PolicyAssumption DEF PolicyInv, PointersInv, read_memory
<1>2. /\ Permitted(op.addr, op.size, op.hint) /\ w.ok
      /\ maps' = w.maps /\ policy' = w.policy /\ op' = [op EXCEPT !.result = w.bytes]
      /\ seen' = [a \in DOMAIN seen |->
                    IF a \in Span(op.addr, Len(w.bytes)) THEN w.bytes[a - op.addr + 1]
                    ELSE seen[a]]
      /\ UNCHANGED <<table, layout, todo, mem_map, accesses, stored, kept>>
  <2> HIDE DEF w
  <2>1. ~Refuse
    BY DEF Refuse
  <2> QED BY <2>1 DEF read_memory, w
<1> HIDE DEF w
<1>3. /\ op.addr \in Nat /\ op.size \in Nat /\ op.size > 0
      /\ op.hint \in {"read", "write", "rw"}
  BY <1>1, SizesPositive DEF TypeOK, Operand, OperandInv
<1>4. Within(op.addr, op.size)
  BY <1>1, <1>2, <1>3, PermittedWithin
<1>5. LoadedTo(w, op.addr, op.size) /\ (Unpoliced(op.addr, op.size) => SameBytes(w.maps))
  BY <1>1, <1>2, <1>3, <1>4, Loads DEF w
<1> QED BY <1>2, <1>3, <1>4, <1>5 DEF w

(* It preserves the invariant, and so does one that fails. *)
LEMMA ReadInv ==
    ASSUME PolicyInv, NEW v \in RandomBytes, read_memory(v)
    PROVE  PolicyInv'
<1>1. /\ TypeOK /\ LoadingInv /\ TableInv /\ InputInv /\ PointersInv
      /\ OperandInv /\ SeenInv /\ KeptInv
  BY DEF PolicyInv
<1>2. stage = "read" /\ UNCHANGED <<table, layout, todo, mem_map, accesses>>
  BY DEF read_memory
<1>3. CASE Refuse
  <2>1. stage' = "stopped" /\ UNCHANGED <<maps, policy, op, seen, stored, kept>>
    BY <1>3 DEF Refuse, ghosts
  <2>2. TypeOK'
    BY <1>1, <1>2, <2>1 DEF TypeOK
  <2>3. LoadingInv' /\ TableInv' /\ InputInv' /\ PointersInv' /\ OperandInv' /\ SeenInv' /\ KeptInv'
    BY <1>1, <1>2, <2>1 DEF LoadingInv, TableInv, InputInv, PointersInv, OperandInv, SeenInv,
                            KeptInv, HasByte, _find_map
  <2> QED BY <2>2, <2>3 DEF PolicyInv
<1>4. CASE ~Refuse
  <2>1. stage' = "loaded"
    BY <1>4 DEF read_memory
  <2> DEFINE w == load(op.addr, op.size, v)
  <2>2. /\ LoadedTo(w, op.addr, op.size)
        /\ Within(op.addr, op.size) /\ op.hint \in {"read", "write", "rw"}
        /\ op.addr \in Nat /\ op.size \in Nat /\ op.size > 0
        /\ Permitted(op.addr, op.size, op.hint)
        /\ maps' = w.maps /\ policy' = w.policy /\ op' = [op EXCEPT !.result = w.bytes]
        /\ seen' = [a \in DOMAIN seen |->
                      IF a \in Span(op.addr, Len(w.bytes)) THEN w.bytes[a - op.addr + 1]
                      ELSE seen[a]]
        /\ UNCHANGED <<stored, kept>>
    BY <2>1, ReadStep
  <2> HIDE DEF w
  <2>3. /\ SameShape(maps') /\ OnlyIn(maps', op.addr, op.size) /\ Accounts(policy')
        /\ SameBounds(policy', policy)
        /\ w.bytes \in Seq(Bytes) /\ Len(w.bytes) = op.size
        /\ \A j \in 1 .. op.size : w.bytes[j] = Peek(maps', op.addr + j - 1)
    BY <2>2 DEF LoadedTo, Accounts
  <2>4. /\ LoadingInv' /\ TableInv' /\ InputInv' /\ PointersInv'
        /\ layout' \in Layouts /\ mem_map' \in 0 .. Len(maps')
        /\ table' \in [Pages -> 0 .. Len(maps')]
        /\ maps' \in Seq(MemoryMap) /\ \A i \in DOMAIN maps' : MapOK(maps'[i])
        /\ PolicyOK(policy')
    BY <1>2, <2>1, <2>3, RunningInv
  <2>5. /\ op' \in Operand /\ op'.result = w.bytes /\ op'.addr = op.addr
        /\ op'.size = op.size /\ op'.hint = op.hint
    BY <1>1, <2>2, <2>3 DEF TypeOK, Operand
  <2>6. DOMAIN seen' = DOMAIN seen
    BY <2>2
  <2>7. TypeOK'
    BY <1>1, <1>2, <2>1, <2>2, <2>4, <2>5, <2>6 DEF TypeOK
  <2>8. OperandInv'
    <3>1. Permitted(op.addr, op.size, op.hint)'
      <4>1. \A addr \in Nat, size \in Nat, hint \in {"read", "write", "rw"} :
               Permitted(addr, size, hint) => Permitted(addr, size, hint)'
        BY <1>1, <1>2, <2>3, PermittedKept
      <4> QED BY <2>2, <2>5, <4>1 DEF Permitted
    <3> QED BY <2>1, <2>2, <2>3, <2>5, <3>1 DEF OperandInv
  <2>9. SeenInv'
    <3>1. \A a \in DOMAIN seen :
             seen'[a] = IF a \in Span(op.addr, op.size) THEN Peek(maps', a) ELSE seen[a]
      <4> TAKE a \in DOMAIN seen
      <4>1. CASE a \in Span(op.addr, op.size)
        <5>1. a - op.addr + 1 \in 1 .. op.size /\ op.addr + (a - op.addr + 1) - 1 = a
          BY <2>2, <4>1 DEF Span
        <5> QED BY <2>2, <2>3, <4>1, <5>1
      <4>2. CASE a \notin Span(op.addr, op.size)
        BY <2>2, <2>3, <4>2
      <4> QED BY <4>1, <4>2
    <3> QED BY <1>2, <2>2, <2>3, <2>6, <3>1, SeenKept
  <2>10. KeptInv'
    <3> SUFFICES ASSUME NEW a \in kept, maps'[_find_map(a)'].watched, handle(a)'
                 PROVE  a \in maps'[_find_map(a)'].written
      BY <2>2 DEF KeptInv
    <3>1. a \in DOMAIN seen /\ a \in 0 .. AddressSpace - 1 /\ _find_map(a) # 0
      BY <1>1, <1>2 DEF TypeOK, SeenInv, Mapped
    <3>2. _find_map(a) \in DOMAIN maps /\ _find_map(a)' = _find_map(a) /\ handle(a)
      BY <1>1, <1>2, <2>3, <3>1, FindMap, ShapeKept
    <3>3. /\ maps'[_find_map(a)].watched = maps[_find_map(a)].watched
          /\ maps[_find_map(a)].written \subseteq maps'[_find_map(a)].written
      BY <1>1, <1>2, <2>3, <3>2, ShapeKept
    <3> QED BY <1>1, <1>2, <3>2, <3>3 DEF KeptInv
  <2> QED BY <2>4, <2>7, <2>8, <2>9, <2>10 DEF PolicyInv
<1> QED BY <1>3, <1>4

(* A store goes where its read_memory was permitted. *)
LEMMA WriteStep ==
    ASSUME PolicyInv, NEW v \in StoredBytes, write_memory(v)
    PROVE  LET w == store(op.addr, op.size, v)
           IN  /\ StoredTo(w, op.addr, op.size, v)
               /\ OneSided(op.addr, op.size) => MarkedTo(w, op.addr, op.size)
               /\ Within(op.addr, op.size) /\ op.hint \in {"write", "rw"}
               /\ op.addr \in Nat /\ op.size \in Nat /\ op.size > 0
               /\ Permitted(op.addr, op.size, op.hint)
               /\ maps' = w.maps /\ policy' = w.policy /\ stage' = "idle"
               /\ seen' = [a \in DOMAIN seen |->
                             IF a \in Span(op.addr, op.size) THEN v ELSE seen[a]]
               /\ stored' = stored \cup Span(op.addr, op.size)
               /\ kept' = IF OneSided(op.addr, op.size)
                          THEN kept \cup Span(op.addr, op.size) ELSE kept
               /\ UNCHANGED <<table, layout, todo, mem_map, accesses, op>>
<1> DEFINE w == store(op.addr, op.size, v)
<1>1. TypeOK /\ OperandInv /\ Pointers(policy) /\ stage = "loaded" /\ v \in Bytes
  BY PolicyAssumption DEF PolicyInv, PointersInv, write_memory
<1>2. /\ op.addr \in Nat /\ op.size \in Nat /\ op.size > 0
      /\ op.hint \in {"write", "rw"} /\ Permitted(op.addr, op.size, op.hint)
  BY <1>1, SizesPositive DEF TypeOK, Operand, OperandInv, write_memory
<1>3. Within(op.addr, op.size)
  BY <1>1, <1>2, PermittedWithin
<1>4. /\ StoredTo(w, op.addr, op.size, v)
      /\ OneSided(op.addr, op.size) => MarkedTo(w, op.addr, op.size)
  BY <1>1, <1>2, <1>3, Stores
<1>5. w.ok
  BY <1>4 DEF StoredTo
<1> HIDE DEF w
<1>6. /\ maps' = w.maps /\ policy' = w.policy /\ stage' = "idle"
      /\ seen' = [a \in DOMAIN seen |-> IF a \in Span(op.addr, op.size) THEN v ELSE seen[a]]
      /\ stored' = stored \cup Span(op.addr, op.size)
      /\ kept' = IF OneSided(op.addr, op.size)
                 THEN kept \cup Span(op.addr, op.size) ELSE kept
      /\ UNCHANGED <<table, layout, todo, mem_map, accesses, op>>
  BY <1>5 DEF write_memory, w
<1> QED BY <1>2, <1>3, <1>4, <1>6 DEF w

(* It preserves the invariant. *)
LEMMA WriteInv ==
    ASSUME PolicyInv, NEW v \in StoredBytes, write_memory(v)
    PROVE  PolicyInv'
<1>1. /\ TypeOK /\ LoadingInv /\ TableInv /\ InputInv /\ PointersInv
      /\ OperandInv /\ SeenInv /\ KeptInv
  BY DEF PolicyInv
<1> DEFINE w == store(op.addr, op.size, v)
<1>2. /\ StoredTo(w, op.addr, op.size, v)
      /\ OneSided(op.addr, op.size) => MarkedTo(w, op.addr, op.size)
      /\ Within(op.addr, op.size)
      /\ op.addr \in Nat /\ op.size \in Nat
      /\ maps' = w.maps /\ policy' = w.policy /\ stage' = "idle"
      /\ seen' = [a \in DOMAIN seen |-> IF a \in Span(op.addr, op.size) THEN v ELSE seen[a]]
      /\ stored' = stored \cup Span(op.addr, op.size)
      /\ kept' = IF OneSided(op.addr, op.size)
                 THEN kept \cup Span(op.addr, op.size) ELSE kept
      /\ UNCHANGED <<table, layout, todo, mem_map, accesses, op>>
  BY WriteStep
<1> HIDE DEF w
<1>3. /\ SameShape(maps') /\ OnlyIn(maps', op.addr, op.size) /\ Accounts(policy')
      /\ SameBounds(policy', policy) /\ stage = "loaded"
      /\ \A a \in Span(op.addr, op.size) : Peek(maps', a) = v
  BY <1>2 DEF StoredTo, Accounts, write_memory
<1>4. /\ LoadingInv' /\ TableInv' /\ InputInv' /\ PointersInv'
      /\ layout' \in Layouts /\ mem_map' \in 0 .. Len(maps')
      /\ table' \in [Pages -> 0 .. Len(maps')]
      /\ maps' \in Seq(MemoryMap) /\ \A i \in DOMAIN maps' : MapOK(maps'[i])
      /\ PolicyOK(policy')
  BY <1>2, <1>3, RunningInv
<1>5. DOMAIN seen' = DOMAIN seen
  BY <1>2
<1>6. Span(op.addr, op.size) \subseteq DOMAIN seen
  BY <1>1, <1>2, <1>3 DEF Within, HasByte, SeenInv, Mapped
<1>7. TypeOK'
  <2>1. kept' \subseteq stored' /\ stored' \subseteq DOMAIN seen'
    BY <1>1, <1>2, <1>5, <1>6 DEF TypeOK
  <2> QED BY <1>1, <1>2, <1>4, <2>1 DEF TypeOK
<1>8. OperandInv'
  BY <1>2 DEF OperandInv
<1>9. SeenInv'
  <2>1. \A a \in DOMAIN seen :
           seen'[a] = IF a \in Span(op.addr, op.size) THEN Peek(maps', a) ELSE seen[a]
    BY <1>2, <1>3
  <2> QED BY <1>2, <1>3, <1>5, <2>1, SeenKept
<1>10. KeptInv'
  <2> SUFFICES ASSUME NEW a \in kept', maps'[_find_map(a)'].watched, handle(a)'
               PROVE  a \in maps'[_find_map(a)'].written
    BY DEF KeptInv
  <2>1. a \in DOMAIN seen /\ a \in 0 .. AddressSpace - 1 /\ _find_map(a) # 0
    BY <1>1, <1>2, <1>3, <1>6 DEF TypeOK, SeenInv, Mapped
  <2>2. _find_map(a) \in DOMAIN maps /\ _find_map(a)' = _find_map(a) /\ handle(a)
    BY <1>1, <1>2, <1>3, <2>1, FindMap, ShapeKept
  <2>3. /\ maps'[_find_map(a)].watched = maps[_find_map(a)].watched
        /\ maps[_find_map(a)].written \subseteq maps'[_find_map(a)].written
    BY <1>1, <1>2, <1>3, <2>2, ShapeKept
  <2>4. CASE a \in kept
    BY <1>1, <1>3, <2>2, <2>3, <2>4 DEF KeptInv
  <2>5. CASE a \notin kept
    <3>1. MarkedTo(w, op.addr, op.size) /\ a \in Span(op.addr, op.size)
      BY <1>2, <2>5
    <3> QED BY <1>2, <2>2, <2>3, <3>1 DEF MarkedTo
  <2> QED BY <2>4, <2>5
<1> QED BY <1>4, <1>7, <1>8, <1>9, <1>10 DEF PolicyInv

------------------------------------------------------------------------------
(* Loading. *)

(* Storing a section's content changes the bytes of a map only. *)
LEMMA StoredRawIn ==
    ASSUME NEW m, MapOK(m), NEW start \in Nat, NEW bytes \in Seq(Bytes)
    PROVE  LET o == StoredRaw(m, start, bytes)
           IN  /\ MapOK(o) /\ o.name = m.name /\ o.base = m.base /\ o.limit = m.limit
               /\ o.flags = m.flags
<1> DEFINE Here(j) == {k \in DOMAIN bytes : Index(m, start, k) % Len(m.data) = j - 1}
           d == [j \in DOMAIN m.data |->
                   IF Here(j) = {} THEN m.data[j] ELSE bytes[Max(Here(j))]]
<1>1. /\ m \in MemoryMap /\ m.data \in Seq(Bytes) /\ m.limit - m.base \in Nat
      /\ Len(m.data) = m.limit - m.base /\ DOMAIN m.data = 1 .. m.limit - m.base
  BY DEF MapOK, MemoryMap
<1>2. \A j \in DOMAIN m.data : d[j] \in Bytes
  <2> TAKE j \in DOMAIN m.data
  <2>1. CASE Here(j) = {}
    BY <1>1, <2>1
  <2>2. CASE Here(j) # {}
    <3>1. Here(j) \subseteq 0 .. Len(bytes) /\ Len(bytes) \in Nat /\ Here(j) \subseteq DOMAIN bytes
      OBVIOUS
    <3>2. d[j] = bytes[Max(Here(j))]
      BY <2>2
    <3> HIDE DEF Here
    <3>3. Max(Here(j)) \in Here(j)
      BY <2>2, <3>1, MaxOf
    <3> HIDE DEF d
    <3> QED BY <3>1, <3>2, <3>3
  <2> QED BY <2>1, <2>2
<1>3. d \in Seq(Bytes) /\ Len(d) = m.limit - m.base
  <2>1. d = [j \in 1 .. m.limit - m.base |-> d[j]]
    BY <1>1
  <2> HIDE DEF d
  <2> QED BY <1>1, <1>2, <2>1
<1>4. StoredRaw(m, start, bytes) = [m EXCEPT !.data = d]
  BY DEF StoredRaw
<1> HIDE DEF d
<1> QED BY <1>1, <1>3, <1>4 DEF MapOK, MemoryMap

(* The pages of a section are within the address space. *)
LEMMA SectionPages ==
    ASSUME NEW s \in GoodSections
    PROVE  /\ PageStart(s) \in Nat /\ PageEnd(s) \in Nat /\ PageEnd(s) <= AddressSpace
           /\ s.size > 0 => PageStart(s) < PageEnd(s)
<1>1. s.start \in Nat /\ s.size \in Nat /\ s.start + s.size <= AddressSpace
  BY DEF GoodSections, Sections
<1> DEFINE e == s.start + s.size + PageSize - 1
           p == s.start \div PageSize
           q == e \div PageSize
<1>2. p \in Nat /\ p * PageSize \in Nat /\ p * PageSize <= s.start
  BY <1>1, PageOfAddress, SizesPositive
<1>3. e \in Nat /\ q \in Nat /\ q * PageSize \in Nat /\ q * PageSize <= e /\ e < q * PageSize + PageSize
  BY <1>1, PageOfAddress, SizesPositive
<1>4. q <= NumPages
  <2> SUFFICES ASSUME q >= NumPages + 1 PROVE FALSE
    BY <1>3, SizesPositive
  <2>1. (NumPages + 1) * PageSize <= q * PageSize
        /\ (NumPages + 1) * PageSize = NumPages * PageSize + PageSize
    <3> HIDE DEF q
    <3> QED BY <1>3, PagesGrow, SizesPositive
  <2>2. e <= AddressSpace + PageSize - 1
    BY <1>1, SizesPositive
  <2>3. AddressSpace = NumPages * PageSize /\ NumPages * PageSize \in Nat
    BY SizesPositive DEF AddressSpace
  <2> HIDE DEF e, q
  <2> QED BY <1>3, <2>1, <2>2, <2>3, SizesPositive
<1>5. q * PageSize <= AddressSpace
  <2>1. q * PageSize <= NumPages * PageSize
    <3> HIDE DEF q
    <3> QED BY <1>3, <1>4, PagesGrow, SizesPositive
  <2>2. AddressSpace = NumPages * PageSize
    BY SizesPositive DEF AddressSpace
  <2> QED BY <2>1, <2>2
<1>6. s.size > 0 => p * PageSize < q * PageSize
  <2> SUFFICES ASSUME s.size > 0 PROVE p * PageSize < q * PageSize
    OBVIOUS
  <2>1. e >= s.start + PageSize
    BY <1>1, SizesPositive
  <2> HIDE DEF e, p, q
  <2> QED BY <1>1, <1>2, <1>3, <2>1, SizesPositive
<1> QED BY <1>2, <1>3, <1>5, <1>6 DEF PageStart, PageEnd

(* The maps that a section makes. *)
MadeFor(s, g) ==
    /\ g \in Seq(MemoryMap)
    /\ \A k \in DOMAIN g :
          /\ MapOK(g[k]) /\ g[k].name = s.name /\ g[k].flags = s.flags
          /\ s.name # "[stack]" =>
                \E q \in Pages : g[k].base = q * PageSize /\ g[k].limit = (q + 1) * PageSize

(* A new map. *)
LEMMA NewMapOK ==
    ASSUME NEW name \in Names, NEW flags \in SUBSET Flags, NEW base \in Nat, NEW limit \in Nat,
           base < limit, limit <= AddressSpace
    PROVE  /\ MapOK(NewMap(name, base, limit, flags))
           /\ NewMap(name, base, limit, flags).name = name
           /\ NewMap(name, base, limit, flags).flags = flags
           /\ NewMap(name, base, limit, flags).base = base
           /\ NewMap(name, base, limit, flags).limit = limit
<1> DEFINE d == [k \in 1 .. limit - base |-> 0]
<1>2. limit - base \in Nat /\ 0 \in Bytes
  BY SizesPositive DEF Bytes
<1>3. d \in Seq(Bytes) /\ Len(d) = limit - base
  BY <1>2
<1>4. NewMap(name, base, limit, flags) =
         [name |-> name, base |-> base, limit |-> limit, flags |-> flags, data |-> d,
          watched |-> FALSE, read |-> {}, written |-> {}]
  BY DEF NewMap
<1> HIDE DEF d
<1> QED BY <1>3, <1>4 DEF MapOK, MemoryMap

(* A new map of a section. *)
LEMMA SectionMap ==
    ASSUME NEW s \in GoodSections, NEW base \in Nat, NEW limit \in Nat,
           base < limit, limit <= AddressSpace
    PROVE  /\ MapOK(NewMap(s.name, base, limit, s.flags))
           /\ NewMap(s.name, base, limit, s.flags).name = s.name
           /\ NewMap(s.name, base, limit, s.flags).flags = s.flags
           /\ NewMap(s.name, base, limit, s.flags).base = base
           /\ NewMap(s.name, base, limit, s.flags).limit = limit
<1> DEFINE n == s.name
           f == s.flags
<1>1. n \in Names /\ f \in SUBSET Flags
  BY DEF GoodSections, Sections
<1> HIDE DEF n, f
<1>2. /\ MapOK(NewMap(n, base, limit, f)) /\ NewMap(n, base, limit, f).name = n
      /\ NewMap(n, base, limit, f).flags = f /\ NewMap(n, base, limit, f).base = base
      /\ NewMap(n, base, limit, f).limit = limit
  BY <1>1, NewMapOK
<1> QED BY <1>2 DEF n, f

(* The maps of the pages below n, given those of the pages below n - 1. *)
MadeStep(s, g, n) ==
    IF n - 1 \in PagesToMap(s)
    THEN Append(g[n - 1], NewMap(s.name, (n - 1) * PageSize, n * PageSize, s.flags))
    ELSE g[n - 1]

(* MapsMade goes from page to page, unless the section is a stack. *)
LEMMA MadeSteps ==
    ASSUME NEW s, s.name # "[stack]"
    PROVE  \E f : /\ f[0] = <<>> /\ MapsMade(s) = f[NumPages]
                  /\ \A n \in Nat : n + 1 \in 0 .. NumPages => f[n + 1] = MadeStep(s, f, n + 1)
<1> DEFINE Step(g, n) == MadeStep(s, g, n)
           MadeTo(n, g) == g = [k \in 0 .. n |-> IF k = 0 THEN <<>> ELSE Step(g, k)]
           T == {n \in Nat : \E g : MadeTo(n, g)}
<1>1. 0 \in T
  <2>1. MadeTo(0, [k \in 0 .. 0 |-> <<>>])
    OBVIOUS
  <2> QED BY <2>1
<1>2. ASSUME NEW n \in Nat, n \in T PROVE n + 1 \in T
  <2>1. PICK g : MadeTo(n, g)
    BY <1>2
  <2> DEFINE h == [k \in 0 .. n + 1 |-> IF k = n + 1 THEN Step(g, n + 1) ELSE g[k]]
  <2>2. \A k \in 0 .. n : h[k] = g[k]
    OBVIOUS
  <2>3. h[n + 1] = Step(g, n + 1)
    OBVIOUS
  <2>4. h = [k \in 0 .. n + 1 |-> h[k]]
    OBVIOUS
  <2> HIDE DEF h
  <2>5. \A k \in 1 .. n + 1 : Step(h, k) = Step(g, k)
    <3> TAKE k \in 1 .. n + 1
    <3>1. k - 1 \in 0 .. n
      OBVIOUS
    <3> QED BY <2>2, <3>1 DEF MadeStep
  <2>6. \A k \in 0 .. n : g[k] = IF k = 0 THEN <<>> ELSE Step(g, k)
    BY <2>1
  <2> HIDE DEF Step
  <2>7. \A k \in 0 .. n + 1 : h[k] = IF k = 0 THEN <<>> ELSE Step(h, k)
    <3> TAKE k \in 0 .. n + 1
    <3>1. CASE k = n + 1
      BY <2>3, <2>5, <3>1
    <3>2. CASE k # n + 1
      <4>1. k \in 0 .. n /\ (k # 0 => k \in 1 .. n + 1)
        BY <3>2
      <4> QED BY <2>2, <2>5, <2>6, <4>1
    <3> QED BY <3>1, <3>2
  <2>8. MadeTo(n + 1, h)
    BY <2>4, <2>7
  <2> HIDE DEF MadeTo
  <2> QED BY <2>8
<1>3. NumPages \in T
  <2>1. Nat \subseteq T
    <3> HIDE DEF T
    <3> QED BY <1>1, <1>2, SetInduction
  <2> HIDE DEF T
  <2> QED BY <2>1, SizesPositive
<1> DEFINE f == CHOOSE g : MadeTo(NumPages, g)
<1>4. MadeTo(NumPages, f)
  <2> HIDE DEF MadeTo
  <2> QED BY <1>3
<1>5. MapsMade(s) = f[NumPages]
  BY DEF MapsMade, MadeStep
<1> HIDE DEF f
<1>6. f[0] = <<>> /\ \A n \in Nat : n + 1 \in 0 .. NumPages => f[n + 1] = Step(f, n + 1)
  <2>1. \A k \in 0 .. NumPages : f[k] = IF k = 0 THEN <<>> ELSE Step(f, k)
    BY <1>4
  <2> HIDE DEF Step, MadeTo
  <2>2. ASSUME NEW n \in Nat, n + 1 \in 0 .. NumPages PROVE n + 1 # 0
    OBVIOUS
  <2> QED BY <2>1, <2>2, SizesPositive
<1> HIDE DEF MadeTo, Step
<1> QED BY <1>5, <1>6 DEF Step

(* MapsMade makes such maps. *)
LEMMA Made ==
    ASSUME NEW s \in GoodSections
    PROVE  MadeFor(s, MapsMade(s))
<1>1. CASE s.name = "[stack]"
  <2> DEFINE m == NewMap(s.name, PageStart(s), PageEnd(s), s.flags)
  <2>1. s.size > 0
    BY <1>1 DEF GoodSections
  <2>2. MapOK(m) /\ m.name = s.name /\ m.flags = s.flags
    BY <2>1, SectionPages, SectionMap
  <2>3. MapsMade(s) = <<m>>
    BY <1>1 DEF MapsMade
  <2> HIDE DEF m
  <2>4. m \in MemoryMap
    BY <2>2 DEF MapOK
  <2>5. <<m>> \in Seq(MemoryMap) /\ DOMAIN <<m>> = {1} /\ <<m>>[1] = m
    BY <2>4
  <2> QED BY <1>1, <2>2, <2>3, <2>5 DEF MadeFor
<1>2. CASE s.name # "[stack]"
  <2> DEFINE Step(g, n) == MadeStep(s, g, n)
  <2>6. PICK f : /\ f[0] = <<>> /\ MapsMade(s) = f[NumPages]
                 /\ \A n \in Nat : n + 1 \in 0 .. NumPages => f[n + 1] = Step(f, n + 1)
    BY <1>2, MadeSteps
  <2> DEFINE U == {n \in Nat : n \in 0 .. NumPages => MadeFor(s, f[n])}
  <2>7. 0 \in U
    <3>1. MadeFor(s, <<>>)
      BY DEF MadeFor
    <3> HIDE DEF Step
    <3> QED BY <2>6, <3>1
  <2>8. ASSUME NEW n \in Nat, n \in U PROVE n + 1 \in U
    <3> SUFFICES ASSUME n + 1 \in 0 .. NumPages PROVE MadeFor(s, f[n + 1])
      OBVIOUS
    <3>1. MadeFor(s, f[n]) /\ f[n + 1] = Step(f, n + 1) /\ (n + 1) - 1 = n
      BY <2>6, <2>8, SizesPositive
    <3>2. CASE n \in PagesToMap(s)
      <4> DEFINE m == NewMap(s.name, n * PageSize, (n + 1) * PageSize, s.flags)
      <4>1. n \in Pages
        BY <3>2 DEF PagesToMap, PagesOf
      <4>2. /\ n * PageSize \in Nat /\ (n + 1) * PageSize \in Nat
            /\ n * PageSize < (n + 1) * PageSize /\ (n + 1) * PageSize <= AddressSpace
        <5>1. (n + 1) * PageSize = n * PageSize + PageSize /\ n * PageSize \in Nat
          BY PagesGrow, SizesPositive
        <5> QED BY <4>1, <5>1, PageStarts, SizesPositive
      <4>3. /\ MapOK(m) /\ m.name = s.name /\ m.flags = s.flags
            /\ m.base = n * PageSize /\ m.limit = (n + 1) * PageSize
        BY <4>2, SectionMap
      <4>4. f[n + 1] = Append(f[n], m)
        BY <3>1, <3>2 DEF MadeStep
      <4> HIDE DEF m
      <4>5. m \in MemoryMap /\ f[n] \in Seq(MemoryMap)
        BY <3>1, <4>3 DEF MapOK, MadeFor
      <4>6. /\ f[n + 1] \in Seq(MemoryMap)
            /\ \A k \in DOMAIN f[n + 1] : f[n + 1][k] = m \/ (k \in DOMAIN f[n] /\ f[n + 1][k] = f[n][k])
        BY <4>4, <4>5
      <4>7. ASSUME NEW k \in DOMAIN f[n + 1]
            PROVE  /\ MapOK(f[n + 1][k]) /\ f[n + 1][k].name = s.name
                   /\ f[n + 1][k].flags = s.flags
                   /\ s.name # "[stack]" =>
                         \E q \in Pages : /\ f[n + 1][k].base = q * PageSize
                                          /\ f[n + 1][k].limit = (q + 1) * PageSize
        <5>1. CASE f[n + 1][k] = m
          BY <4>1, <4>3, <5>1
        <5>2. CASE k \in DOMAIN f[n] /\ f[n + 1][k] = f[n][k]
          BY <3>1, <5>2 DEF MadeFor
        <5> QED BY <4>6, <5>1, <5>2
      <4> QED BY <4>6, <4>7 DEF MadeFor
    <3>3. CASE n \notin PagesToMap(s)
      BY <3>1, <3>3 DEF MadeStep
    <3> QED BY <3>2, <3>3
  <2>9. Nat \subseteq U
    <3> HIDE DEF U
    <3> QED BY <2>7, <2>8, SetInduction
  <2>10. NumPages \in U
    <3> HIDE DEF U
    <3> QED BY <2>9, SizesPositive
  <2> HIDE DEF Step
  <2> QED BY <2>6, <2>10, SizesPositive
<1> QED BY <1>1, <1>2

(* The program does not run while its memory is loaded, and not after that   *)
(* has failed.                                                               *)
LEMMA NotRunning ==
    ASSUME stage' \in {"loading", "attaching", "stopped"}
    PROVE  OperandInv' /\ SeenInv' /\ KeptInv'
BY DEF OperandInv, SeenInv, KeptInv

(* A section appends maps to the ones there are, and writes to one of them.  *)
LEMMA LoadInv ==
    ASSUME PolicyInv, LoadSection
    PROVE  PolicyInv'
<1> DEFINE s == Head(todo)
           made == MapsMade(s)
           mms == maps \o made
           i == MapOfContent(mms)
           Holds(k, p) == p * PageSize \in made[k].base .. made[k].limit - 1
<1>1. /\ TypeOK /\ LoadingInv /\ TableInv /\ InputInv /\ PointersInv /\ stage = "loading"
      /\ todo # <<>> /\ todo' = Tail(todo) /\ todo \in Seq(GoodSections)
      /\ UNCHANGED <<layout, policy, op, seen, stored, kept, accesses>>
  BY DEF PolicyInv, LoadingInv, LoadSection, ghosts
<1>2. /\ table' = [p \in Pages |-> IF \E k \in DOMAIN made : Holds(k, p)
                                   THEN Len(maps) + CHOOSE k \in DOMAIN made : Holds(k, p)
                                   ELSE table[p]]
      /\ mem_map' = i
      /\ \/ maps' = mms /\ stage' \in {"loading", "stopped"}
         \/ i # 0 /\ maps' = [mms EXCEPT ![i] = StoredRaw(mms[i], s.start, s.content)]
                  /\ stage' = "loading"
  BY <1>1 DEF LoadSection, WithContent
<1>3. s \in GoodSections /\ todo' \in Seq(GoodSections)
  BY <1>1
<1>4. MadeFor(s, made)
  BY <1>3, Made
<1> HIDE DEF s, made
<1>5. /\ maps \in Seq(MemoryMap) /\ made \in Seq(MemoryMap)
      /\ \A k \in DOMAIN maps : MapOK(maps[k])
  BY <1>1, <1>4 DEF TypeOK, MadeFor
<1>6. /\ mms \in Seq(MemoryMap) /\ Len(mms) = Len(maps) + Len(made)
      /\ \A k \in DOMAIN maps : k \in DOMAIN mms /\ mms[k] = maps[k]
      /\ \A k \in DOMAIN made : Len(maps) + k \in DOMAIN mms /\ mms[Len(maps) + k] = made[k]
      /\ \A k \in DOMAIN mms : \/ k \in DOMAIN maps
                               \/ k - Len(maps) \in DOMAIN made /\ mms[k] = made[k - Len(maps)]
  BY <1>5
<1> HIDE DEF mms
<1>7. i \in 0 .. Len(mms)
  BY <1>1, <1>5, <1>6 DEF MapOfContent, TypeOK
<1>8. \A k \in DOMAIN mms : MapOK(mms[k])
  BY <1>4, <1>5, <1>6 DEF MadeFor
<1> HIDE DEF i
(* The new maps have the ranges, the names and the flags of mms. *)
<1>9. /\ maps' \in Seq(MemoryMap) /\ Len(maps') = Len(mms) /\ DOMAIN maps' = DOMAIN mms
      /\ \A k \in DOMAIN mms :
            /\ MapOK(maps'[k]) /\ maps'[k].name = mms[k].name /\ maps'[k].flags = mms[k].flags
            /\ maps'[k].base = mms[k].base /\ maps'[k].limit = mms[k].limit
  <2>1. CASE maps' = mms
    BY <1>6, <1>8, <2>1
  <2>2. CASE i # 0 /\ maps' = [mms EXCEPT ![i] = StoredRaw(mms[i], s.start, s.content)]
    <3> DEFINE o == StoredRaw(mms[i], s.start, s.content)
    <3>1. i \in DOMAIN mms
      BY <1>6, <1>7, <2>2
    <3>2. MapOK(mms[i]) /\ s.start \in Nat /\ s.content \in Seq(Bytes)
      BY <1>3, <1>8, <3>1 DEF GoodSections, Sections
    <3>3. /\ MapOK(o) /\ o.name = mms[i].name /\ o.base = mms[i].base
          /\ o.limit = mms[i].limit /\ o.flags = mms[i].flags
      BY <3>2, StoredRawIn
    <3> HIDE DEF o
    <3>4. maps' = [mms EXCEPT ![i] = o]
      BY <2>2 DEF o
    <3>5. o \in MemoryMap
      BY <3>3 DEF MapOK
    <3>6. /\ maps' \in Seq(MemoryMap) /\ Len(maps') = Len(mms) /\ DOMAIN maps' = DOMAIN mms
          /\ \A k \in DOMAIN mms : maps'[k] = IF k = i THEN o ELSE mms[k]
      BY <1>6, <3>1, <3>4, <3>5
    <3> QED BY <1>8, <3>3, <3>6
  <2> QED BY <1>2, <2>1, <2>2
<1>10. ASSUME NEW p \in Pages
       PROVE  /\ table'[p] \in 0 .. Len(maps')
              /\ table'[p] # 0 => p * PageSize \in maps'[table'[p]].base .. maps'[table'[p]].limit - 1
  <2>1. CASE \E k \in DOMAIN made : Holds(k, p)
    <3> DEFINE c == CHOOSE k \in DOMAIN made : Holds(k, p)
    <3>1. c \in DOMAIN made /\ Holds(c, p)
      <4> HIDE DEF Holds
      <4> QED BY <2>1
    <3>2. table'[p] = Len(maps) + c
      BY <1>2, <2>1
    <3> HIDE DEF c
    <3>3. Len(maps) + c \in DOMAIN mms /\ mms[Len(maps) + c] = made[c]
      BY <1>6, <3>1
    <3> QED BY <1>6, <1>9, <3>1, <3>2, <3>3
  <2>2. CASE ~\E k \in DOMAIN made : Holds(k, p)
    <3>1. table'[p] = table[p] /\ table[p] \in 0 .. Len(maps)
      BY <1>1, <1>2, <2>2 DEF TypeOK
    <3>2. table[p] # 0 => table[p] \in DOMAIN maps
      BY <1>5, <3>1
    <3>3. table[p] # 0 => p * PageSize \in maps[table[p]].base .. maps[table[p]].limit - 1
      BY <1>1 DEF TableInv
    <3> QED BY <1>5, <1>6, <1>9, <3>1, <3>2, <3>3
  <2> QED BY <2>1, <2>2
<1>11. TypeOK'
  <2>1. table' \in [Pages -> 0 .. Len(maps')]
    BY <1>2, <1>10
  <2>2. mem_map' \in 0 .. Len(maps')
    BY <1>2, <1>7, <1>9
  <2> QED BY <1>1, <1>2, <1>9, <2>1, <2>2 DEF TypeOK
<1>12. TableInv'
  BY <1>10 DEF TableInv
<1>13. policy = NewPolicy(0, 0, 0, 0) /\ seen = EmptyDict /\ stored = {} /\ kept = {}
  BY <1>1 DEF LoadingInv
<1>14. LoadingInv'
  BY <1>1, <1>3, <1>13 DEF LoadingInv
<1>15. PointersInv'
  <2>1. Pointers(policy') /\ policy'.pointers_start = 0 /\ policy'.pointers_end = 0
    BY <1>1, <1>13 DEF PointersInv, NewPolicy
  <2> QED BY <2>1 DEF PointersInv
<1>16. InputInv'
  <2> SUFFICES ASSUME NEW k \in DOMAIN maps', maps'[k].name = "[input_space]"
               PROVE  /\ {"R", "W"} \subseteq maps'[k].flags
                      /\ \E q \in Pages : /\ maps'[k].base = q * PageSize
                                          /\ maps'[k].limit = (q + 1) * PageSize
    <3>1. stage' # "attaching"
      BY <1>2
    <3> QED BY <3>1 DEF InputInv, InputPages
  <2>1. /\ k \in DOMAIN mms /\ mms[k].name = "[input_space]" /\ maps'[k].flags = mms[k].flags
        /\ maps'[k].base = mms[k].base /\ maps'[k].limit = mms[k].limit
    BY <1>9
  <2>2. CASE k \in DOMAIN maps
    BY <1>1, <1>6, <2>1, <2>2 DEF InputInv, InputPages
  <2>3. CASE k - Len(maps) \in DOMAIN made /\ mms[k] = made[k - Len(maps)]
    <3>1. s.name = "[input_space]" /\ mms[k].flags = s.flags
      BY <1>4, <2>1, <2>3 DEF MadeFor
    <3>2. {"R", "W"} \subseteq s.flags
      BY <1>3, <3>1 DEF GoodSections
    <3> QED BY <1>4, <2>1, <2>3, <3>1, <3>2 DEF MadeFor
  <2> QED BY <1>6, <2>1, <2>2, <2>3
<1>17. OperandInv' /\ SeenInv' /\ KeptInv'
  BY <1>2, NotRunning
<1> QED BY <1>11, <1>12, <1>14, <1>15, <1>16, <1>17 DEF PolicyInv

(* find_hole never finds one between two maps: lowest - addr is negative.    *)
(* The hole that it does find is above the last page that has a map (the     *)
(* name of that page, which has one), and the input space ends before the    *)
(* highest address.                                                          *)
LEMMA HoleAtTheEnd ==
    ASSUME TypeOK, NEW p \in find_hole(InputSpaceSize)
    PROVE  p \in Pages /\ p * PageSize + InputSpaceSize <= AddressSpace
<1> DEFINE n == InputSpaceSize \div PageSize
           hole == Max({n, 1})
           mm == {q \in Pages : table[q] # 0}
           Lowest(q) == IF \E x \in mm : x < q THEN Max({x \in mm : x < q}) ELSE MinPage
           holes == {q \in mm : q > Lowest(q) /\ Lowest(q) - q > hole}
           last == Max(mm)
<1>1. /\ n \in Nat /\ n * PageSize + PageSize > InputSpaceSize /\ mm \subseteq 0 .. NumPages
      /\ n * PageSize \in Int
  BY PageOfAddress, SizesPositive DEF Pages
<1>2. hole \in Nat /\ hole >= n
  <2> HIDE DEF n
  <2>1. n \in Int /\ 1 \in Int
    BY <1>1
  <2>2. hole = IF n >= 1 THEN n ELSE 1
    BY <2>1, MinMaxPair
  <2> HIDE DEF hole
  <2> QED BY <1>1, <2>2
<1>3. p \in IF holes # {} THEN {Lowest(Min(holes))}
           ELSE IF mm # {} /\ last < MaxPage /\ MaxPage - last > hole THEN {last} ELSE {}
  BY DEF find_hole
<1> HIDE DEF n, hole, mm
<1>4. holes = {}
  <2> SUFFICES ASSUME NEW q \in mm, q > Lowest(q), Lowest(q) - q > hole PROVE FALSE
    OBVIOUS
  <2> DEFINE below == {x \in mm : x < q}
  <2>1. q \in Int
    BY <1>1
  <2>2. Lowest(q) \in Int
    <3>1. CASE below # {}
      <4>1. below \subseteq 0 .. NumPages
        BY <1>1
      <4>3. Lowest(q) = Max(below)
        BY <3>1
      <4> HIDE DEF below, Lowest
      <4>2. Max(below) \in below
        BY <3>1, <4>1, MaxOf, SizesPositive
      <4>4. Max(below) \in Int
        <5>1. \A x \in below : x \in Int
          BY <4>1, SizesPositive
        <5> QED BY <4>2, <5>1, Zenon
      <4> QED BY <4>3, <4>4, Zenon
    <3>2. CASE below = {}
      <4>1. Lowest(q) = MinPage
        BY <3>2
      <4> HIDE DEF Lowest
      <4> QED BY <4>1, PagesAssumption
    <3> QED BY <3>1, <3>2
  <2> HIDE DEF Lowest
  <2> QED BY <1>2, <2>1, <2>2
<1> HIDE DEF holes
<1>5. mm # {} /\ p = last /\ last < MaxPage /\ MaxPage - last > hole
  BY <1>3, <1>4
<1>6. last \in mm
  BY <1>1, <1>5, MaxOf, SizesPositive
<1>7. p \in Pages /\ p \in Nat /\ MaxPage \in Nat /\ MaxPage + 1 <= NumPages
  BY <1>5, <1>6, PagesAssumption, SizesPositive DEF mm, Pages
<1> HIDE DEF last
<1>8. p + n + 1 <= NumPages
  BY <1>1, <1>2, <1>5, <1>7, SizesPositive
<1>9. (p + n + 1) * PageSize <= NumPages * PageSize
  BY <1>1, <1>7, <1>8, PagesGrow, SizesPositive
<1>10. (p + n + 1) * PageSize = p * PageSize + n * PageSize + PageSize
  BY <1>1, <1>7, SizesPositive
<1>11. p * PageSize \in Nat /\ AddressSpace = NumPages * PageSize
  BY <1>7, SizesPositive DEF AddressSpace
<1> QED BY <1>1, <1>7, <1>9, <1>10, <1>11, SizesPositive

(* An input space of one page keeps it or loses it. *)
LEMMA PagesWhole ==
    ASSUME TypeOK, TableInv, InputPages
    PROVE  InputWhole
<1> SUFFICES ASSUME NEW i \in DOMAIN maps, NEW p \in Pages,
                    maps[i].name = "[input_space]", table[p] = i,
                    NEW a \in maps[i].base .. maps[i].limit - 1
             PROVE  _find_map(a) = i
  BY DEF InputWhole
<1>1. PICK q \in Pages : maps[i].base = q * PageSize /\ maps[i].limit = (q + 1) * PageSize
  BY DEF InputPages
<1>2. q \in Nat /\ p \in Nat
  BY SizesPositive DEF Pages
<1>3. q * PageSize \in Nat /\ p * PageSize \in Nat /\ (q + 1) * PageSize = q * PageSize + PageSize
  BY <1>2, PagesGrow, SizesPositive
<1>4. i # 0
  BY DEF TypeOK
<1>5. p * PageSize >= q * PageSize /\ p * PageSize < q * PageSize + PageSize
  BY <1>1, <1>3, <1>4, SizesPositive DEF TableInv
<1>6. p = q
  <2> DEFINE x == p * PageSize
             y == q * PageSize
  <2>1. x \in Nat /\ y \in Nat /\ y <= x /\ x < y + PageSize /\ x < x + PageSize /\ x <= x
    <3>1. x \in Nat /\ y \in Nat /\ y <= x /\ x < y + PageSize
      BY <1>3, <1>5
    <3> HIDE DEF x, y
    <3> QED BY <3>1, SizesPositive
  <2> QED BY <1>2, <2>1, PageUnique
<1>7. a \in Nat /\ a >= q * PageSize /\ a < q * PageSize + PageSize /\ a <= AddressSpace - 1
  <2> DEFINE y == q * PageSize
  <2>1. y + PageSize <= AddressSpace /\ y \in Nat /\ a \in y .. y + PageSize - 1
    <3>1. (q + 1) * PageSize <= AddressSpace
      BY PageStarts
    <3>2. maps[i].base = y /\ maps[i].limit = y + PageSize /\ y \in Nat
      BY <1>1, <1>3
    <3>3. y + PageSize <= AddressSpace
      BY <1>3, <3>1
    <3> HIDE DEF y
    <3>4. a \in maps[i].base .. maps[i].limit - 1
      OBVIOUS
    <3> QED BY <3>2, <3>3, <3>4, SizesPositive
  <2> HIDE DEF y
  <2>2. a \in Nat /\ a >= y /\ a < y + PageSize /\ a <= AddressSpace - 1
    BY <2>1, SizesPositive
  <2> QED BY <2>2 DEF y
<1>8. a \div PageSize = q
  BY <1>2, <1>7, PageOfAddress, PageUnique
<1>9. a % AddressSpace = a
  BY <1>7, AddressInPage, SizesPositive
<1> QED BY <1>6, <1>8, <1>9 DEF _find_map

(* The input space is mapped, or there is one already. *)
LEMMA MapInputInv ==
    ASSUME PolicyInv, MapInputSpace
    PROVE  PolicyInv'
<1>1. /\ TypeOK /\ LoadingInv /\ TableInv /\ InputInv /\ PointersInv /\ InputPages
      /\ stage = "loading" /\ stage' \in {"attaching", "stopped"}
      /\ UNCHANGED <<layout, todo, mem_map, policy, op, seen, stored, kept, accesses>>
  BY DEF PolicyInv, InputInv, MapInputSpace, ghosts
<1>2. OperandInv' /\ SeenInv' /\ KeptInv'
  BY <1>1, NotRunning
<1>3. LoadingInv'
  BY <1>1 DEF LoadingInv
<1>4. PointersInv'
  <2>1. policy = NewPolicy(0, 0, 0, 0)
    BY <1>1 DEF LoadingInv
  <2>2. Pointers(policy') /\ policy'.pointers_start = 0 /\ policy'.pointers_end = 0
    BY <1>1, <2>1 DEF PointersInv, NewPolicy
  <2> QED BY <2>2 DEF PointersInv
<1>5. CASE UNCHANGED <<maps, table>>
  <2>1. TypeOK'
    BY <1>1, <1>5 DEF TypeOK
  <2>2. TableInv'
    BY <1>1, <1>5 DEF TableInv
  <2>3. InputInv'
    <3>1. InputWhole
      BY <1>1, PagesWhole
    <3>2. InputWhole'
      BY <1>5, <3>1 DEF InputWhole, _find_map
    <3> QED BY <1>1, <1>5, <3>2 DEF InputInv
  <2> QED BY <1>2, <1>3, <1>4, <2>1, <2>2, <2>3 DEF PolicyInv
<1>6. ASSUME NEW p \in find_hole(InputSpaceSize),
             find_maps_by_name("[input_space]") = {}, stage' = "attaching",
             add_map(NewMap("[input_space]", p * PageSize, p * PageSize + InputSpaceSize, {"R", "W"}))
      PROVE  PolicyInv'
  <2> DEFINE b == p * PageSize
             l == p * PageSize + InputSpaceSize
             m == NewMap("[input_space]", b, l, {"R", "W"})
             n == Len(maps) + 1
  <2>1. b \in Nat /\ l \in Nat /\ b < l /\ l <= AddressSpace
    <3>1. p \in Pages /\ p * PageSize + InputSpaceSize <= AddressSpace
      BY <1>1, <1>6, HoleAtTheEnd
    <3>2. b \in Nat
      BY <3>1, SizesPositive DEF Pages
    <3> HIDE DEF b
    <3>3. b + InputSpaceSize <= AddressSpace
      BY <3>1 DEF b
    <3>4. b + InputSpaceSize \in Nat /\ b < b + InputSpaceSize
      BY <3>2, SizesPositive
    <3> QED BY <3>2, <3>3, <3>4 DEF b
  <2>2. maps' = Append(maps, m) /\ table' = [q \in Pages |->
                   IF q * PageSize \in m.base .. m.limit - 1 THEN n ELSE table[q]]
    BY <1>6 DEF add_map
  <2> HIDE DEF b, l
  <2>3. /\ MapOK(m) /\ m.name = "[input_space]" /\ m.flags = {"R", "W"}
        /\ m.base = b /\ m.limit = l
    <3>1. "[input_space]" \in Names
      BY DEF Names
    <3>2. {"R", "W"} \in SUBSET Flags
      BY DEF Flags
    <3> DEFINE name == "[input_space]"
               flags == {"R", "W"}
    <3>3. name \in Names /\ flags \in SUBSET Flags
      BY <3>1, <3>2
    <3> HIDE DEF name, flags
    <3>4. /\ MapOK(NewMap(name, b, l, flags)) /\ NewMap(name, b, l, flags).name = name
          /\ NewMap(name, b, l, flags).flags = flags /\ NewMap(name, b, l, flags).base = b
          /\ NewMap(name, b, l, flags).limit = l
      BY <2>1, <3>3, NewMapOK
    <3> QED BY <3>4 DEF name, flags
  <2> HIDE DEF m
  <2>4. /\ maps \in Seq(MemoryMap) /\ m \in MemoryMap /\ table \in [Pages -> 0 .. Len(maps)]
        /\ \A k \in DOMAIN maps : MapOK(maps[k])
    BY <1>1, <2>3 DEF TypeOK, MapOK
  <2>5. /\ maps' \in Seq(MemoryMap) /\ Len(maps') = n /\ n \in Nat /\ n \in DOMAIN maps'
        /\ maps'[n] = m /\ \A k \in DOMAIN maps : k # n /\ k \in DOMAIN maps' /\ maps'[k] = maps[k]
        /\ \A k \in DOMAIN maps' : k = n \/ k \in DOMAIN maps
        /\ n # 0 /\ \A k \in 0 .. Len(maps) : k \in 0 .. n /\ (k # 0 => k \in DOMAIN maps)
    BY <2>2, <2>4
  <2> HIDE DEF n
  <2>6. ASSUME NEW q \in Pages
        PROVE  /\ table'[q] \in 0 .. n
               /\ table'[q] # 0 => q * PageSize \in maps'[table'[q]].base .. maps'[table'[q]].limit - 1
    <3>1. CASE q * PageSize \in m.base .. m.limit - 1
      <4>1. table'[q] = n
        BY <2>2, <3>1
      <4> QED BY <2>5, <3>1, <4>1
    <3>2. CASE ~(q * PageSize \in m.base .. m.limit - 1)
      <4>1. table'[q] = table[q] /\ table[q] \in 0 .. Len(maps)
        BY <2>2, <2>4, <3>2
      <4>2. table[q] # 0 => q * PageSize \in maps[table[q]].base .. maps[table[q]].limit - 1
        BY <1>1 DEF TableInv
      <4> QED BY <2>5, <4>1, <4>2
    <3> QED BY <3>1, <3>2
  <2>7. TypeOK'
    <3>1. table' \in [Pages -> 0 .. Len(maps')]
      BY <2>2, <2>5, <2>6
    <3>2. mem_map' \in 0 .. Len(maps')
      BY <1>1, <2>5 DEF TypeOK
    <3>3. \A k \in DOMAIN maps' : MapOK(maps'[k])
      BY <2>3, <2>4, <2>5
    <3> QED BY <1>1, <2>5, <3>1, <3>2, <3>3 DEF TypeOK
  <2>8. TableInv'
    BY <2>6 DEF TableInv
  <2>9. InputWhole'
    <3> SUFFICES ASSUME NEW i \in DOMAIN maps', NEW q \in Pages,
                        maps'[i].name = "[input_space]", table'[q] = i,
                        NEW a \in maps'[i].base .. maps'[i].limit - 1
                 PROVE  _find_map(a)' = i
      BY DEF InputWhole
    <3>1. i = n
      <4> SUFFICES ASSUME i \in DOMAIN maps, i # n PROVE FALSE
        BY <2>5
      <4>1. maps[i].name = "[input_space]"
        BY <2>5
      <4>2. table[q] = i
        BY <2>2
      <4> QED BY <1>6, <4>1, <4>2 DEF find_maps_by_name
    <3>2. a \in b .. l - 1
      BY <2>3, <2>5, <3>1
    <3>3. a \in 0 .. AddressSpace - 1
      BY <2>1, <3>2, SizesPositive
    <3> DEFINE r == a \div PageSize
    <3>4. /\ a % AddressSpace = a /\ r \in Pages /\ r \in Nat /\ r * PageSize <= a
          /\ a < r * PageSize + PageSize /\ a \in Nat
      BY <3>3, AddressInPage, PageOfAddress, SizesPositive
    <3>5. r * PageSize \in b .. l - 1
      <4>1. p \in Nat /\ b = p * PageSize
        BY <1>1, <1>6, HoleAtTheEnd, SizesPositive DEF Pages, b
      <4> HIDE DEF r
      <4>2. r + 1 <= p => /\ (r + 1) * PageSize <= p * PageSize
                          /\ (r + 1) * PageSize = r * PageSize + PageSize
        BY <3>4, <4>1, PagesGrow
      <4>3. p <= r => p * PageSize <= r * PageSize
        BY <3>4, <4>1, PagesGrow
      <4> DEFINE x == r * PageSize
                 y == (r + 1) * PageSize
                 z == p * PageSize
      <4>4. x \in Nat /\ y \in Nat /\ z \in Nat
        BY <3>4, <4>1, SizesPositive
      <4>5. /\ b = z /\ (r + 1 <= p => y <= z /\ y = x + PageSize) /\ (p <= r => z <= x)
            /\ x <= a /\ a < x + PageSize
        BY <3>4, <4>1, <4>2, <4>3
      <4> HIDE DEF x, y, z
      <4>6. p <= r
        BY <2>1, <3>2, <3>4, <4>1, <4>4, <4>5, SizesPositive
      <4>7. x \in b .. l - 1
        BY <2>1, <3>2, <3>4, <4>4, <4>5, <4>6
      <4> QED BY <4>7 DEF x
    <3>6. table'[r] = n
      <4> HIDE DEF r
      <4> QED BY <2>2, <2>3, <3>4, <3>5
    <3> QED BY <3>1, <3>4, <3>6 DEF _find_map
  <2>10. InputInv'
    <3>1. \A k \in DOMAIN maps' : maps'[k].name = "[input_space]" => {"R", "W"} \subseteq maps'[k].flags
      BY <1>1, <2>3, <2>5 DEF InputInv
    <3> QED BY <1>6, <2>9, <3>1 DEF InputInv
  <2> QED BY <1>2, <1>3, <1>4, <2>7, <2>8, <2>10 DEF PolicyInv
<1>7. CASE find_maps_by_name("[input_space]") # {}
  BY <1>5, <1>7 DEF MapInputSpace
<1> QED BY <1>5, <1>6, <1>7 DEF MapInputSpace

(* The policy gives out pointers into the input space, all of which is      *)
(* there, and takes the memory as it is.                                    *)
LEMMA AttachInv ==
    ASSUME PolicyInv, AttachPolicy
    PROVE  PolicyInv'
<1>1. /\ TypeOK /\ LoadingInv /\ TableInv /\ InputInv /\ PointersInv /\ InputWhole
      /\ stage = "attaching" /\ UNCHANGED <<table, layout, todo, mem_map, op, stored, kept, accesses>>
      /\ seen = EmptyDict /\ stored = {} /\ kept = {}
  BY DEF PolicyInv, InputInv, LoadingInv, AttachPolicy
<1>2. CASE stage' = "stopped" /\ UNCHANGED <<maps, policy, seen>>
  <2>1. OperandInv' /\ SeenInv' /\ KeptInv'
    BY <1>2, NotRunning
  <2>2. TypeOK' /\ LoadingInv' /\ TableInv' /\ InputInv' /\ PointersInv'
    BY <1>1, <1>2 DEF TypeOK, LoadingInv, TableInv, InputInv, PointersInv, HasByte, _find_map
  <2> QED BY <2>1, <2>2 DEF PolicyInv
<1>3. CASE ~(stage' = "stopped" /\ UNCHANGED <<maps, policy, seen>>)
  <2> DEFINE stacks == find_maps_by_name("[stack]")
             inputs == find_maps_by_name("[input_space]")
             s == CHOOSE i \in stacks : TRUE
             n == CHOOSE i \in inputs : TRUE
             start == layout.sp + AddressBytes
             Watched(i) == [maps[i] EXCEPT !.watched = i \in stacks \cup inputs]
             New(i) == IF i \in stacks THEN StoredRaw(Watched(i), layout.sp, MagicReturn)
                       ELSE Watched(i)
  <2>1. /\ Cardinality(stacks) = 1 /\ Cardinality(inputs) = 1
        /\ policy' = NewPolicy(start, maps[s].limit, maps[n].base, maps[n].limit)
        /\ maps' = [i \in DOMAIN maps |-> New(i)]
        /\ seen' = [a \in Mapped |-> Peek(maps', a)]
        /\ stage' = "idle"
    BY <1>3 DEF AttachPolicy
  <2>2. stacks # {} /\ inputs # {}
    <3>1. Cardinality({}) = 0
      BY FS_EmptySet
    <3> HIDE DEF stacks, inputs
    <3> QED BY <2>1, <3>1
  <2>3. /\ s \in DOMAIN maps /\ n \in DOMAIN maps
        /\ maps[n].name = "[input_space]" /\ \E p \in Pages : table[p] = n
    <3>1. s \in stacks /\ n \in inputs
      <4> HIDE DEF stacks, inputs
      <4> QED BY <2>2
    <3> HIDE DEF s, n
    <3> QED BY <3>1 DEF find_maps_by_name
  <2>4. /\ layout.sp \in Nat /\ start \in Nat
    <3>1. layout \in Layouts
      BY <1>1 DEF TypeOK
    <3>2. layout.sp \in Nat
      BY <3>1, LayoutAssumption
    <3> QED BY <3>2, SizesPositive
  <2>5. /\ maps \in Seq(MemoryMap) /\ MapOK(maps[s]) /\ MapOK(maps[n])
        /\ \A i \in DOMAIN maps : MapOK(maps[i])
    BY <1>1, <2>3 DEF TypeOK
  <2>6. MagicReturn \in Seq(Bytes)
    BY SizesPositive DEF MagicReturn, Bytes
  <2> HIDE DEF s, n, start
  <2>7. ASSUME NEW i \in DOMAIN maps
        PROVE  /\ MapOK(New(i)) /\ New(i).name = maps[i].name /\ New(i).flags = maps[i].flags
               /\ New(i).base = maps[i].base /\ New(i).limit = maps[i].limit
    <3> DEFINE m == maps[i]
               b == i \in stacks \cup inputs
               w == [m EXCEPT !.watched = b]
    <3>1. MapOK(m) /\ b \in BOOLEAN
      BY <2>5
    <3> HIDE DEF m, b
    <3>2. /\ MapOK(w) /\ w.name = m.name /\ w.flags = m.flags /\ w.base = m.base
          /\ w.limit = m.limit
      BY <3>1 DEF MapOK, MemoryMap
    <3> HIDE DEF w
    <3>3. LET o == StoredRaw(w, layout.sp, MagicReturn)
          IN  /\ MapOK(o) /\ o.name = w.name /\ o.base = w.base /\ o.limit = w.limit
              /\ o.flags = w.flags
      BY <2>4, <2>6, <3>2, StoredRawIn
    <3>4. New(i) = StoredRaw(w, layout.sp, MagicReturn) \/ New(i) = w
      BY DEF w, m, b
    <3> HIDE DEF New
    <3>5. /\ MapOK(New(i)) /\ New(i).name = m.name /\ New(i).flags = m.flags
          /\ New(i).base = m.base /\ New(i).limit = m.limit
      BY <3>2, <3>3, <3>4
    <3> QED BY <3>5 DEF m
  <2> HIDE DEF New, stacks, inputs
  <2>8. /\ maps' \in Seq(MemoryMap) /\ DOMAIN maps' = DOMAIN maps /\ Len(maps') = Len(maps)
        /\ \A i \in DOMAIN maps :
              /\ MapOK(maps'[i]) /\ maps'[i].name = maps[i].name
              /\ maps'[i].flags = maps[i].flags /\ maps'[i].base = maps[i].base
              /\ maps'[i].limit = maps[i].limit
    <3>1. DOMAIN maps = 1 .. Len(maps) /\ Len(maps) \in Nat
      BY <2>5
    <3>2. maps' = [i \in 1 .. Len(maps) |-> New(i)]
      BY <2>1, <3>1
    <3>3. \A i \in 1 .. Len(maps) : New(i) \in MemoryMap
      BY <2>7, <3>1 DEF MapOK
    <3>4. maps' \in Seq(MemoryMap) /\ Len(maps') = Len(maps)
      BY <3>1, <3>2, <3>3
    <3> QED BY <2>7, <3>1, <3>2, <3>4
  <2>9. /\ maps[s].limit \in Nat /\ maps[n].base \in Nat /\ maps[n].limit \in Nat
        /\ maps[n].base < maps[n].limit /\ maps[n].limit <= AddressSpace
    BY <2>5 DEF MapOK, MemoryMap
  <2> DEFINE e == maps[s].limit
             b == maps[n].base
             l == maps[n].limit
  <2>10. PolicyOK(policy') /\ Pointers(policy') /\ policy'.pointers_start = b
         /\ policy'.pointers_end = l
    <3> HIDE DEF e, b, l
    <3>1. policy' = NewPolicy(start, e, b, l) /\ e \in Nat /\ b \in Nat /\ l \in Nat /\ b < l
      BY <2>1, <2>9 DEF e, b, l
    <3>2. Dicts(EmptyDict) /\ DOMAIN EmptyDict = {}
      BY DEF Dicts, EmptyDict
    <3> HIDE DEF e, b, l
    <3>3. /\ policy'.start = start /\ policy'.end = e /\ policy'.pointers_start = b
          /\ policy'.pointers_end = l /\ policy'.pointer_watermark = b
          /\ policy'.pointer_map = EmptyDict /\ policy'.known_inputs = EmptyDict
          /\ policy'.known_outputs = EmptyDict
      BY <3>1 DEF NewPolicy
    <3>4. policy' \in [start : Nat, end : Nat, pointers_start : Nat, pointers_end : Nat,
                       pointer_watermark : Nat, pointer_map : {EmptyDict},
                       known_inputs : {EmptyDict}, known_outputs : {EmptyDict}]
      BY <2>4, <3>1 DEF NewPolicy
    <3>5. PolicyOK(policy')
      BY <3>1, <3>2, <3>3, <3>4 DEF PolicyOK
    <3>6. Pointers(policy')
      BY <3>2, <3>3 DEF Pointers
    <3> QED BY <3>3, <3>5, <3>6
  <2>11. TypeOK'
    BY <1>1, <2>1, <2>8, <2>10 DEF TypeOK
  <2>12. LoadingInv' /\ TableInv' /\ InputInv' /\ OperandInv' /\ KeptInv'
    <3>1. LoadingInv' /\ OperandInv' /\ KeptInv'
      BY <1>1, <2>1 DEF LoadingInv, OperandInv, KeptInv
    <3>2. TableInv'
      <4> SUFFICES ASSUME NEW p \in Pages, table[p] # 0
                   PROVE  p * PageSize \in maps'[table[p]].base .. maps'[table[p]].limit - 1
        BY <1>1 DEF TableInv
      <4>1. table[p] \in DOMAIN maps
        BY <1>1 DEF TypeOK
      <4>2. p * PageSize \in maps[table[p]].base .. maps[table[p]].limit - 1
        BY <1>1 DEF TableInv
      <4> QED BY <2>8, <4>1, <4>2
    <3>3. InputInv'
      BY <1>1, <2>1, <2>8 DEF InputInv
    <3> QED BY <3>1, <3>2, <3>3
  <2>13. \A a : _find_map(a)' = _find_map(a)
    BY <1>1 DEF _find_map
  <2>14. PointersInv'
    <3>1. \A a \in maps[n].base .. maps[n].limit - 1 : _find_map(a) = n
      BY <1>1, <2>3 DEF InputWhole
    <3>2. b \in maps[n].base .. maps[n].limit - 1
      BY <2>9
    <3> SUFFICES ASSUME NEW a \in maps[n].base .. maps[n].limit - 1
                 PROVE  /\ HasByte(a)' /\ a \in 0 .. AddressSpace - 1
                        /\ {"R", "W"} \subseteq maps'[_find_map(a)'].flags
                        /\ _find_map(a)' = _find_map(policy.pointers_start)'
      BY <2>10 DEF PointersInv
    <3>3. _find_map(a)' = n /\ _find_map(a) = n
      BY <2>13, <3>1
    <3>4. _find_map(policy.pointers_start)' = n
      BY <1>1, <2>10, <3>1, <3>2 DEF _find_map
    <3>5. n # 0 /\ maps'[n].base = maps[n].base /\ maps'[n].limit = maps[n].limit
      BY <2>3, <2>5, <2>8
    <3>6. HasByte(a)'
      BY <3>3, <3>5 DEF HasByte
    <3>7. a \in 0 .. AddressSpace - 1
      <4> HIDE DEF b, l
      <4>1. a \in b .. l - 1 /\ b \in Nat /\ l \in Nat /\ l <= AddressSpace
        BY <2>9 DEF b, l
      <4> QED BY <4>1, SizesPositive
    <3>8. {"R", "W"} \subseteq maps'[n].flags
      BY <1>1, <2>3, <2>8 DEF InputInv
    <3> QED BY <3>3, <3>4, <3>6, <3>7, <3>8
  <2>15. SeenInv'
    <3>1. Mapped' = Mapped
      BY <2>13 DEF Mapped
    <3>2. \A a : Peek(maps, a)' = Peek(maps', a)
      BY <2>13 DEF Peek
    <3> QED BY <2>1, <3>1, <3>2 DEF SeenInv
  <2> QED BY <2>11, <2>12, <2>14, <2>15 DEF PolicyInv
<1> QED BY <1>2, <1>3

------------------------------------------------------------------------------
(* The theorems. *)

(* The invariant holds when nothing has been loaded yet. *)
LEMMA InitInv == Init => PolicyInv
<1> SUFFICES ASSUME Init PROVE PolicyInv
  OBVIOUS
<1>1. /\ layout \in Layouts /\ todo = layout.sections
      /\ maps = <<>> /\ table = [p \in Pages |-> 0] /\ mem_map = 0
      /\ stage = "loading" /\ policy = NewPolicy(0, 0, 0, 0) /\ op = NoOp
      /\ seen = EmptyDict /\ stored = {} /\ kept = {} /\ accesses = 0
  BY DEF Init
<1>2. todo \in Seq(GoodSections)
  <2> DEFINE l == layout.sections
  <2>1. l \in Seq(Sections) /\ \A k \in DOMAIN l :
           /\ l[k].start + l[k].size <= AddressSpace
           /\ l[k].name = "[stack]" => l[k].size > 0
           /\ l[k].name = "[input_space]" => {"R", "W"} \subseteq l[k].flags
    BY <1>1, LayoutAssumption
  <2> HIDE DEF l
  <2>2. \A k \in DOMAIN l : l[k] \in GoodSections
    BY <2>1 DEF GoodSections
  <2>3. l \in Seq(GoodSections)
    <3>1. DOMAIN l = 1 .. Len(l) /\ Len(l) \in Nat /\ l = [k \in 1 .. Len(l) |-> l[k]]
      BY <2>1
    <3> QED BY <2>2, <3>1
  <2> QED BY <1>1, <2>3 DEF l
<1>3. DOMAIN EmptyDict = {} /\ Dicts(EmptyDict)
  BY DEF EmptyDict, Dicts
<1>4. PolicyOK(policy) /\ Pointers(policy) /\ policy.pointers_start = 0 /\ policy.pointers_end = 0
  <2>1. PolicyOK(policy)
    BY <1>1, <1>3 DEF NewPolicy, PolicyOK
  <2>2. policy.pointer_map = EmptyDict /\ policy.pointers_start = 0 /\ policy.pointers_end = 0
    BY <1>1 DEF NewPolicy
  <2> QED BY <1>3, <2>1, <2>2 DEF Pointers
<1>5. op \in Operand
  <2>1. 0 \in 0 .. AddressSpace - 1 /\ <<>> \in Seq(Bytes)
    BY SizesPositive
  <2> QED BY <1>1, <2>1 DEF NoOp, Operand
<1>6. DOMAIN maps = {} /\ Len(maps) = 0 /\ maps \in Seq(MemoryMap)
  BY <1>1
<1>7. TypeOK
  BY <1>1, <1>3, <1>4, <1>5, <1>6, PolicyAssumption DEF TypeOK
<1>8. LoadingInv /\ TableInv /\ InputInv /\ PointersInv
  BY <1>1, <1>2, <1>4, <1>6 DEF LoadingInv, TableInv, InputInv, InputPages, PointersInv
<1>9. OperandInv /\ SeenInv /\ KeptInv
  BY <1>1 DEF OperandInv, SeenInv, KeptInv
<1> QED BY <1>7, <1>8, <1>9 DEF PolicyInv

(* And every step preserves it. *)
LEMMA StepInv == PolicyInv /\ [Next]_vars => PolicyInv'
<1> SUFFICES ASSUME PolicyInv, [Next]_vars PROVE PolicyInv'
  OBVIOUS
<1>1. CASE LoadSection
  BY <1>1, LoadInv
<1>2. CASE MapInputSpace
  BY <1>2, MapInputInv
<1>3. CASE AttachPolicy
  BY <1>3, AttachInv
<1>4. CASE \E result \in Addresses, size \in Sizes, hint \in {"read", "write", "rw", "agen"},
              derived \in BOOLEAN : compute_address(result, size, hint, derived)
  BY <1>4, ComputeInv
<1>5. CASE \E v \in RandomBytes : read_memory(v)
  BY <1>5, ReadInv
<1>6. CASE \E v \in StoredBytes : write_memory(v)
  BY <1>6, WriteInv
<1>7. CASE UNCHANGED vars
  <2>1. UNCHANGED <<maps, table, stage, layout, todo, mem_map, policy, op, seen, stored, kept, accesses>>
    BY <1>7 DEF vars
  <2>2. TypeOK' /\ LoadingInv' /\ TableInv' /\ InputInv' /\ PointersInv'
    BY <2>1 DEF PolicyInv, TypeOK, LoadingInv, TableInv, InputInv, InputPages, InputWhole,
                PointersInv, HasByte, _find_map
  <2>3. OperandInv' /\ SeenInv' /\ KeptInv'
    BY <2>1 DEF PolicyInv, OperandInv, Permitted, can_do, _can_do_op, SeenInv, KeptInv, HasByte,
                Mapped, Peek, handle, _find_map
  <2> QED BY <2>2, <2>3 DEF PolicyInv
<1> QED BY <1>1, <1>2, <1>3, <1>4, <1>5, <1>6, <1>7 DEF Next

(* The inductive invariant: at every stage from the first section to the    *)
(* last operand, the page table, the maps, the policy's account and what    *)
(* the program has seen fit together.                                       *)
THEOREM PolicyInvariant == Spec => []PolicyInv
<1> QED BY InitInv, StepInv, PTL DEF Spec

(* The maps and the policy are well formed: a load or store never grows or  *)
(* shrinks the bytes of a map, no map ends outside of the address space,    *)
(* and generate_pointer and handle_compute leave the watermark within the   *)
(* input space.                                                             *)
THEOREM WellFormed == Spec => []TypeOK
<1>1. PolicyInv => TypeOK
  BY DEF PolicyInv
<1> QED BY <1>1, PolicyInvariant, PTL

(* read_memory returns as many bytes as it was asked for, whatever maps the *)
(* operand is in and however load_bytes splits it up.                       *)
THEOREM ReadsWhole == Spec => []WholeReads
<1>1. PolicyInv => WholeReads
  BY DEF PolicyInv, OperandInv, WholeReads
<1> QED BY <1>1, PolicyInvariant, PTL

(* Where a pointer points to there is a whole pointer to read and write.    *)
LEMMA PointersReadable ==
    ASSUME PolicyInv, NEW a \in DOMAIN policy.pointer_map
    PROVE  /\ Permitted(policy.pointer_map[a], AddressBytes, "rw")
           /\ ~_crosses_pages(policy.pointer_map[a], AddressBytes)
<1> DEFINE p == policy.pointer_map[a]
           b == policy.pointers_start
           l == policy.pointers_end
<1>1. /\ p \in b .. l - AddressBytes /\ b \in Nat /\ l \in Nat
      /\ \A x \in b .. l - 1 : /\ HasByte(x) /\ {"R", "W"} \subseteq maps[_find_map(x)].flags
                               /\ _find_map(x) = _find_map(b)
  BY DEF PolicyInv, PointersInv, Pointers, TypeOK, PolicyOK
<1> HIDE DEF p, b, l
<1>2. \A x \in Span(p, AddressBytes) : x \in b .. l - 1
  BY <1>1, SizesPositive DEF Span
<1>3. Permitted(p, AddressBytes, "rw")
  <2> SUFFICES ASSUME NEW x \in Span(p, AddressBytes), NEW o \in {"R", "W"} PROVE can_do(o, x)
    BY DEF Permitted, Checks
  <2>1. HasByte(x) /\ {"R", "W"} \subseteq maps[_find_map(x)].flags
    BY <1>1, <1>2
  <2> QED BY <2>1 DEF can_do, _can_do_op, HasByte
<1>4. ~_crosses_pages(p, AddressBytes)
  <2> SUFFICES ASSUME NEW k \in 1 .. AddressBytes - 1 PROVE _find_map(p + k) = _find_map(p)
    BY DEF _crosses_pages
  <2>1. p + k \in Span(p, AddressBytes) /\ p \in Span(p, AddressBytes)
    BY <1>1, SizesPositive DEF Span
  <2> QED BY <1>1, <1>2, <2>1
<1> QED BY <1>3, <1>4 DEF p

(* generate_pointer never gives out the same area twice, and each area can  *)
(* hold a pointer that the program reads and writes in one piece.           *)
THEOREM PointersFresh == Spec => []FreshPointers
<1>1. ASSUME PolicyInv PROVE FreshPointers
  <2>1. \A a, b \in DOMAIN policy.pointer_map :
           a # b => policy.pointer_map[a] - policy.pointer_map[b]
                       \notin 1 - PointerIncrement .. PointerIncrement - 1
    BY <1>1 DEF PolicyInv, PointersInv, Pointers
  <2> QED BY <1>1, <2>1, PointersReadable DEF FreshPointers
<1> QED BY <1>1, PolicyInvariant, PTL

(* A store changes bytes of its operand only, in maps that can be written,  *)
(* although write_memory asks for no permission.                            *)
THEOREM StoresArePermitted == Spec => StoresPermitted
<1> DEFINE A == stage = "loaded" /\ stage' = "idle"
                => \A i \in DOMAIN maps : \A k \in DOMAIN maps[i].data :
                      LET a == maps[i].base + k - 1
                      IN  maps'[i].data[k] # maps[i].data[k] =>
                             a \in Span(op.addr, op.size) /\ _find_map(a) = i /\ "W" \in maps[i].flags
<1>1. ASSUME PolicyInv, [Next]_vars PROVE A
  <2> SUFFICES ASSUME stage = "loaded", stage' = "idle",
                      NEW i \in DOMAIN maps, NEW k \in DOMAIN maps[i].data,
                      maps'[i].data[k] # maps[i].data[k]
               PROVE  LET a == maps[i].base + k - 1
                      IN  a \in Span(op.addr, op.size) /\ _find_map(a) = i /\ "W" \in maps[i].flags
    OBVIOUS
  <2>1. PICK v \in StoredBytes : write_memory(v)
    <3>1. maps' # maps
      OBVIOUS
    <3>2. ~LoadSection /\ ~MapInputSpace /\ ~AttachPolicy
      BY DEF LoadSection, MapInputSpace, AttachPolicy
    <3>3. \A v \in RandomBytes : ~read_memory(v)
      BY DEF read_memory
    <3>4. ASSUME NEW result, NEW size, NEW hint, NEW derived,
                 compute_address(result, size, hint, derived)
          PROVE  FALSE
      BY <3>1, <3>4 DEF compute_address, Refuse
    <3> QED BY <1>1, <3>1, <3>2, <3>3, <3>4 DEF Next, vars
  <2> DEFINE w == store(op.addr, op.size, v)
             a == maps[i].base + k - 1
  <2>2. /\ StoredTo(w, op.addr, op.size, v) /\ maps' = w.maps
        /\ Permitted(op.addr, op.size, op.hint) /\ op.hint \in {"write", "rw"}
    BY <1>1, <2>1, WriteStep
  <2> HIDE DEF w
  <2>3. OnlyIn(maps', op.addr, op.size)
    BY <2>2 DEF StoredTo
  <2>4. a \in maps[i].base .. maps[i].limit - 1 /\ a - maps[i].base + 1 = k
    <3>1. MapOK(maps[i])
      BY <1>1 DEF PolicyInv, TypeOK
    <3> DEFINE b == maps[i].base
               l == maps[i].limit
    <3>2. b \in Nat /\ l \in Nat /\ k \in 1 .. l - b
      BY <3>1 DEF MapOK, MemoryMap
    <3> HIDE DEF b, l
    <3>3. b + k - 1 \in b .. l - 1 /\ (b + k - 1) - b + 1 = k
      BY <3>2
    <3> QED BY <3>3 DEF b, l
  <2>5. a \in Span(op.addr, op.size) /\ _find_map(a) = i
    <3> HIDE DEF a
    <3> QED BY <2>3, <2>4 DEF OnlyIn
  <2>6. can_do("W", a)
    <3> HIDE DEF a
    <3>1. "W" \in Checks[op.hint]
      BY <2>2 DEF Checks
    <3> QED BY <2>2, <2>5, <3>1 DEF Permitted
  <2> QED BY <2>5, <2>6 DEF can_do, _can_do_op
<1>2. PolicyInv /\ [Next]_vars => [A]_vars
  BY <1>1
<1> QED BY <1>2, PolicyInvariant, PTL DEF StoresPermitted, Spec

(* A load returns what the program has last stored or been shown, where it  *)
(* has stored within the range of the policy, and where the policy leaves   *)
(* the memory alone.                                                        *)
THEOREM ReadsBack == Spec => ReadsOwnWrites
<1> DEFINE A == stage = "read" /\ stage' = "loaded"
                  /\ (handle(op.addr) => \A a \in Span(op.addr, op.size) : handle(a))
                  /\ (\A a \in Span(op.addr, op.size) :
                         a \in kept \/ ~maps[_find_map(a)].watched \/ ~handle(a))
                => op'.result = [k \in 1 .. op.size |-> seen[op.addr + k - 1]]
<1>1. ASSUME PolicyInv, [Next]_vars PROVE A
  <2> SUFFICES ASSUME stage = "read", stage' = "loaded",
                      handle(op.addr) => \A a \in Span(op.addr, op.size) : handle(a),
                      \A a \in Span(op.addr, op.size) :
                         a \in kept \/ ~maps[_find_map(a)].watched \/ ~handle(a)
               PROVE  op'.result = [k \in 1 .. op.size |-> seen[op.addr + k - 1]]
    OBVIOUS
  <2>1. PICK v \in RandomBytes : read_memory(v)
    <3>1. ~LoadSection /\ ~MapInputSpace /\ ~AttachPolicy
      BY DEF LoadSection, MapInputSpace, AttachPolicy
    <3>2. \A v \in StoredBytes : ~write_memory(v)
      BY DEF write_memory
    <3>3. ASSUME NEW result, NEW size, NEW hint, NEW derived,
                 compute_address(result, size, hint, derived)
          PROVE  FALSE
      BY <3>3 DEF compute_address
    <3> QED BY <1>1, <3>1, <3>2, <3>3 DEF Next, vars
  <2> DEFINE w == load(op.addr, op.size, v)
  <2>2. /\ LoadedTo(w, op.addr, op.size)
        /\ Unpoliced(op.addr, op.size) => SameBytes(w.maps)
        /\ Within(op.addr, op.size) /\ op.addr \in Nat /\ op.size \in Nat
        /\ op' = [op EXCEPT !.result = w.bytes]
    BY <1>1, <2>1, ReadStep
  <2> HIDE DEF w
  <2>3. TypeOK /\ SeenInv /\ KeptInv
    BY <1>1 DEF PolicyInv
  <2>4. Unpoliced(op.addr, op.size)
    BY <2>3 DEF Unpoliced, KeptInv
  <2>5. SameBytes(w.maps) /\ SameShape(w.maps)
    BY <2>2, <2>4 DEF LoadedTo
  <2>6. ASSUME NEW k \in 1 .. op.size PROVE w.bytes[k] = seen[op.addr + k - 1]
    <3> DEFINE a == op.addr + k - 1
               i == _find_map(a)
    <3>1. a \in Span(op.addr, op.size)
      BY <2>2 DEF Span
    <3>2. HasByte(a) /\ a \in 0 .. AddressSpace - 1
      BY <2>2, <3>1 DEF Within
    <3>3. w.bytes[k] = Peek(w.maps, a)
      BY <2>2 DEF LoadedTo
    <3> HIDE DEF a
    <3>4. i \in DOMAIN maps /\ a \in maps[i].base .. maps[i].limit - 1 /\ i # 0
      BY <2>3, <3>2, FindMap DEF HasByte
    <3>5. w.maps[i].base = maps[i].base
      BY <2>5, <3>4 DEF SameShape
    <3>6. w.maps[i].data[a - maps[i].base + 1] = maps[i].data[a - maps[i].base + 1]
      BY <2>5, <3>4 DEF SameBytes
    <3>7. Peek(w.maps, a) = Peek(maps, a)
      BY <3>5, <3>6 DEF Peek
    <3>8. seen[a] = Peek(maps, a)
      BY <2>3, <3>2, <3>4 DEF SeenInv, Mapped
    <3> QED BY <3>3, <3>7, <3>8 DEF a
  <2>7. w.bytes = [k \in 1 .. op.size |-> w.bytes[k]]
    <3>1. w.bytes \in Seq(Bytes) /\ Len(w.bytes) = op.size
      BY <2>2 DEF LoadedTo
    <3> QED BY <3>1
  <2>8. op'.result = w.bytes
    BY <2>2, <2>3 DEF TypeOK, Operand
  <2> QED BY <2>6, <2>7, <2>8
<1>2. PolicyInv /\ [Next]_vars => [A]_vars
  BY <1>1
<1> QED BY <1>2, PolicyInvariant, PTL DEF ReadsOwnWrites, Spec

------------------------------------------------------------------------------
(* Where the content of a section goes. *)

(* A section begins in its first page, and its pages are the ones up to the  *)
(* end of its last one.                                                      *)
LEMMA SectionRange ==
    ASSUME NEW s \in GoodSections
    PROVE  \E b \in Nat, e \in Nat :
              /\ PageStart(s) = b * PageSize /\ PageEnd(s) = e * PageSize /\ e <= NumPages
              /\ b * PageSize <= s.start /\ s.start < b * PageSize + PageSize
              /\ PagesOf(s) = {p \in Pages : b <= p /\ p < e}
<1>1. s.start \in Nat /\ s.size \in Nat
  BY DEF GoodSections, Sections
<1> DEFINE z == s.start + s.size + PageSize - 1
           b == s.start \div PageSize
           e == z \div PageSize
<1>2. b \in Nat /\ b * PageSize <= s.start /\ s.start < b * PageSize + PageSize
  BY <1>1, PageOfAddress
<1>3. z \in Nat /\ e \in Nat
  <2>1. z \in Nat
    BY <1>1, SizesPositive
  <2> HIDE DEF z
  <2> QED BY <2>1, PageOfAddress
<1>4. PageStart(s) = b * PageSize /\ PageEnd(s) = e * PageSize
  BY DEF PageStart, PageEnd
<1> HIDE DEF z, b, e
<1>5. e <= NumPages
  <2> SUFFICES ASSUME NumPages + 1 <= e PROVE FALSE
    BY <1>3, SizesPositive
  <2>1. (NumPages + 1) * PageSize <= e * PageSize
        /\ (NumPages + 1) * PageSize = NumPages * PageSize + PageSize
    BY <1>3, PagesGrow, SizesPositive
  <2>2. e * PageSize <= NumPages * PageSize
    <3>1. AddressSpace = NumPages * PageSize
      BY SizesPositive DEF AddressSpace
    <3> QED BY <1>4, <3>1, SectionPages
  <2>3. NumPages * PageSize \in Nat /\ e * PageSize \in Nat
    BY <1>3, SizesPositive
  <2> QED BY <2>1, <2>2, <2>3, SizesPositive
<1>6. ASSUME NEW p \in Pages
      PROVE  p * PageSize \in PageStart(s) .. PageEnd(s) - 1 <=> b <= p /\ p < e
  <2>1. p \in Nat
    BY SizesPositive DEF Pages
  <2> DEFINE bb == b * PageSize
             pp == p * PageSize
             ee == e * PageSize
  <2>2. bb \in Nat /\ pp \in Nat /\ ee \in Nat
    BY <1>2, <1>3, <2>1, SizesPositive
  <2>3. (b <= p => bb <= pp) /\ (p + 1 <= b => pp + PageSize <= bb)
    BY <1>2, <2>1, PagesGrow
  <2>4. (p + 1 <= e => pp + PageSize <= ee) /\ (e <= p => ee <= pp)
    BY <1>3, <2>1, PagesGrow
  <2>5. PageStart(s) = bb /\ PageEnd(s) = ee
    BY <1>4
  <2> HIDE DEF bb, pp, ee
  <2>6. pp \in bb .. ee - 1 <=> b <= p /\ p < e
    BY <1>2, <1>3, <2>1, <2>2, <2>3, <2>4, SizesPositive
  <2> QED BY <2>5, <2>6 DEF pp
<1>7. PagesOf(s) = {p \in Pages : b <= p /\ p < e}
  BY <1>6 DEF PagesOf
<1> QED BY <1>2, <1>3, <1>4, <1>5, <1>7

(* The maps of pages are in the order of the pages: those of the pages      *)
(* below n, of which the last one is that of the last such page.            *)
InOrder(s, n, g) ==
    /\ g \in Seq(MemoryMap)
    /\ g = <<>> => \A r \in PagesToMap(s) : r >= n
    /\ \A k \in DOMAIN g :
          \E q \in PagesToMap(s) :
             /\ q < n /\ g[k].base = q * PageSize /\ g[k].limit = (q + 1) * PageSize
             /\ k = Len(g) => \A r \in PagesToMap(s) : r < n => r <= q
             /\ k # Len(g) => \E r \in PagesToMap(s) : q < r /\ r < n

(* MapsMade makes them in that order. *)
LEMMA MadeInOrder ==
    ASSUME NEW s \in GoodSections, s.name # "[stack]"
    PROVE  InOrder(s, NumPages, MapsMade(s))
<1>1. PICK f : /\ f[0] = <<>> /\ MapsMade(s) = f[NumPages]
               /\ \A n \in Nat : n + 1 \in 0 .. NumPages => f[n + 1] = MadeStep(s, f, n + 1)
  BY MadeSteps
<1>2. \A r \in PagesToMap(s) : r \in Pages /\ r \in Nat
  BY SizesPositive DEF PagesToMap, PagesOf, Pages
<1> DEFINE U == {n \in Nat : n \in 0 .. NumPages => InOrder(s, n, f[n])}
<1>3. 0 \in U
  <2>1. InOrder(s, 0, <<>>)
    BY <1>2 DEF InOrder
  <2> QED BY <1>1, <2>1
<1>4. ASSUME NEW n \in Nat, n \in U PROVE n + 1 \in U
  <2> SUFFICES ASSUME n + 1 \in 0 .. NumPages PROVE InOrder(s, n + 1, f[n + 1])
    OBVIOUS
  <2>1. InOrder(s, n, f[n]) /\ f[n + 1] = MadeStep(s, f, n + 1) /\ (n + 1) - 1 = n
    BY <1>1, <1>4, SizesPositive
  <2>2. CASE n \in PagesToMap(s)
    <3> DEFINE m == NewMap(s.name, n * PageSize, (n + 1) * PageSize, s.flags)
    <3>1. f[n + 1] = Append(f[n], m)
      BY <2>1, <2>2 DEF MadeStep
    <3>2. /\ n * PageSize \in Nat /\ (n + 1) * PageSize \in Nat
          /\ n * PageSize < (n + 1) * PageSize /\ (n + 1) * PageSize <= AddressSpace
      <4>1. (n + 1) * PageSize = n * PageSize + PageSize /\ n * PageSize \in Nat
        BY PagesGrow, SizesPositive
      <4> QED BY <1>2, <2>2, <4>1, PageStarts, SizesPositive
    <3>3. MapOK(m) /\ m.base = n * PageSize /\ m.limit = (n + 1) * PageSize
      BY <3>2, SectionMap
    <3> HIDE DEF m
    <3>4. m \in MemoryMap /\ f[n] \in Seq(MemoryMap)
      BY <2>1, <3>3 DEF MapOK, InOrder
    <3>5. /\ f[n + 1] \in Seq(MemoryMap) /\ Len(f[n + 1]) = Len(f[n]) + 1 /\ f[n + 1] # <<>>
          /\ f[n + 1][Len(f[n]) + 1] = m
          /\ \A k \in DOMAIN f[n] : f[n + 1][k] = f[n][k] /\ k # Len(f[n + 1])
          /\ \A k \in DOMAIN f[n + 1] : k = Len(f[n + 1]) \/ k \in DOMAIN f[n]
      BY <3>1, <3>4
    <3>6. ASSUME NEW k \in DOMAIN f[n + 1]
          PROVE  \E q \in PagesToMap(s) :
                    /\ q < n + 1 /\ f[n + 1][k].base = q * PageSize
                    /\ f[n + 1][k].limit = (q + 1) * PageSize
                    /\ k = Len(f[n + 1]) => \A r \in PagesToMap(s) : r < n + 1 => r <= q
                    /\ k # Len(f[n + 1]) => \E r \in PagesToMap(s) : q < r /\ r < n + 1
      <4>1. CASE k = Len(f[n + 1])
        <5>1. f[n + 1][k] = m /\ \A r \in PagesToMap(s) : r < n + 1 => r <= n
          BY <1>2, <3>5, <4>1
        <5> QED BY <2>2, <3>3, <4>1, <5>1
      <4>2. CASE k # Len(f[n + 1])
        <5>1. k \in DOMAIN f[n] /\ f[n + 1][k] = f[n][k]
          BY <3>5, <4>2
        <5>2. PICK q \in PagesToMap(s) : /\ q < n /\ f[n][k].base = q * PageSize
                                         /\ f[n][k].limit = (q + 1) * PageSize
          BY <2>1, <5>1 DEF InOrder
        <5>3. q < n + 1 /\ n < n + 1
          BY <1>2, <5>2
        <5> QED BY <2>2, <4>2, <5>1, <5>2, <5>3
      <4> QED BY <4>1, <4>2
    <3> QED BY <3>5, <3>6 DEF InOrder
  <2>3. CASE n \notin PagesToMap(s)
    <3>1. f[n + 1] = f[n]
      BY <2>1, <2>3 DEF MadeStep
    <3>2. \A r \in PagesToMap(s) : (r < n + 1 <=> r < n) /\ (r >= n => r >= n + 1)
      BY <1>2, <2>3
    <3> QED BY <2>1, <3>1, <3>2 DEF InOrder
  <2> QED BY <2>2, <2>3
<1>5. NumPages \in U
  <2>1. Nat \subseteq U
    <3> HIDE DEF U
    <3> QED BY <1>3, <1>4, SetInduction
  <2> HIDE DEF U
  <2> QED BY <2>1, SizesPositive
<1> QED BY <1>1, <1>5, SizesPositive

(* A page belongs to a map of one page if it is that page. *)
LEMMA OnePageMap ==
    ASSUME NEW p \in Pages, NEW q \in Pages,
           p * PageSize \in q * PageSize .. (q + 1) * PageSize - 1
    PROVE  p = q
<1>1. p \in Nat /\ q \in Nat
  BY SizesPositive DEF Pages
<1> DEFINE pp == p * PageSize
           qq == q * PageSize
<1>2. pp \in Nat /\ qq \in Nat /\ (q + 1) * PageSize = qq + PageSize
  BY <1>1, PagesGrow, SizesPositive
<1>3. qq <= pp /\ pp < qq + PageSize
  <2>1. pp \in qq .. (q + 1) * PageSize - 1
    OBVIOUS
  <2> HIDE DEF pp, qq
  <2> QED BY <1>2, <2>1, SizesPositive
<1>4. p + 1 <= q => pp + PageSize <= qq
  BY <1>1, PagesGrow
<1>5. q + 1 <= p => qq + PageSize <= pp
  BY <1>1, PagesGrow
<1> HIDE DEF pp, qq
<1> QED BY <1>1, <1>2, <1>3, <1>4, <1>5, SizesPositive

(* A section makes maps on its own pages only. *)
LEMMA MadeOn ==
    ASSUME NEW s \in GoodSections, NEW k \in DOMAIN MapsMade(s), NEW p \in Pages,
           p * PageSize \in MapsMade(s)[k].base .. MapsMade(s)[k].limit - 1
    PROVE  p \in PagesOf(s)
<1>1. CASE s.name = "[stack]"
  <2> DEFINE m == NewMap(s.name, PageStart(s), PageEnd(s), s.flags)
  <2>1. s.size > 0
    BY <1>1 DEF GoodSections
  <2>2. m.base = PageStart(s) /\ m.limit = PageEnd(s)
    BY <2>1, SectionPages, SectionMap
  <2>3. MapsMade(s) = <<m>>
    BY <1>1 DEF MapsMade
  <2> HIDE DEF m
  <2>4. MapsMade(s)[k] = m
    BY <2>3
  <2> QED BY <2>2, <2>4 DEF PagesOf
<1>2. CASE s.name # "[stack]"
  <2>1. PICK q \in PagesToMap(s) : /\ MapsMade(s)[k].base = q * PageSize
                                   /\ MapsMade(s)[k].limit = (q + 1) * PageSize
    BY <1>2, MadeInOrder DEF InOrder
  <2>2. q \in PagesOf(s) /\ q \in Pages
    BY DEF PagesToMap, PagesOf
  <2> QED BY <2>1, <2>2, OnePageMap
<1> QED BY <1>1, <1>2

(* The last map that a section makes is that of its last page, if it makes  *)
(* one for that page.                                                       *)
LEMMA LastMade ==
    ASSUME NEW s \in GoodSections, NEW p \in PagesOf(s), \A q \in PagesOf(s) : q <= p,
           s.name = "[stack]" \/ p \in PagesToMap(s)
    PROVE  LET g == MapsMade(s)
           IN  /\ Len(g) \in DOMAIN g /\ g[Len(g)].limit = (p + 1) * PageSize
               /\ p * PageSize \in g[Len(g)].base .. g[Len(g)].limit - 1
               /\ \A k \in DOMAIN g : p * PageSize \in g[k].base .. g[k].limit - 1 => k = Len(g)
<1> DEFINE g == MapsMade(s)
<1>1. p \in Pages /\ p \in Nat /\ p * PageSize \in PageStart(s) .. PageEnd(s) - 1
  BY SizesPositive DEF PagesOf, Pages
<1>2. CASE s.name = "[stack]"
  <2> DEFINE m == NewMap(s.name, PageStart(s), PageEnd(s), s.flags)
  <2>1. s.size > 0
    BY <1>2 DEF GoodSections
  <2>2. m.base = PageStart(s) /\ m.limit = PageEnd(s)
    BY <2>1, SectionPages, SectionMap
  <2>3. g = <<m>>
    BY <1>2 DEF MapsMade
  <2> HIDE DEF m
  <2>4. Len(g) = 1 /\ DOMAIN g = {1} /\ g[1] = m
    BY <2>3
  <2>5. PageEnd(s) = (p + 1) * PageSize
    <3>1. PICK b \in Nat, e \in Nat :
             /\ PageEnd(s) = e * PageSize /\ e <= NumPages
             /\ PagesOf(s) = {r \in Pages : b <= r /\ r < e}
      BY SectionRange
    <3>2. b <= p /\ p < e
      BY <3>1
    <3>3. e - 1 \in Pages
      BY <1>1, <3>1, <3>2, SizesPositive DEF Pages
    <3>4. e - 1 \in PagesOf(s)
      BY <1>1, <3>1, <3>2, <3>3
    <3>5. e = p + 1
      BY <1>1, <3>2, <3>4
    <3> QED BY <3>1, <3>5
  <2> HIDE DEF g
  <2> QED BY <1>1, <2>2, <2>4, <2>5 DEF g
<1>3. CASE s.name # "[stack]"
  <2>1. InOrder(s, NumPages, g) /\ p \in PagesToMap(s)
    BY <1>3, MadeInOrder
  <2>2. \A r \in PagesToMap(s) : r \in PagesOf(s) /\ r \in Pages /\ r \in Nat /\ r < NumPages
    BY SizesPositive DEF PagesToMap, PagesOf, Pages
  <2> HIDE DEF g
  <2>3. g # <<>>
    <3>1. p < NumPages
      BY <2>1, <2>2
    <3>2. ~(p >= NumPages)
      BY <1>1, <3>1, SizesPositive
    <3> QED BY <2>1, <3>2 DEF InOrder
  <2>4. Len(g) \in DOMAIN g
    BY <2>1, <2>3 DEF InOrder
  <2>5. g[Len(g)].base = p * PageSize /\ g[Len(g)].limit = (p + 1) * PageSize
    <3>1. PICK q \in PagesToMap(s) :
             /\ g[Len(g)].base = q * PageSize /\ g[Len(g)].limit = (q + 1) * PageSize
             /\ \A r \in PagesToMap(s) : r < NumPages => r <= q
      BY <2>1, <2>4 DEF InOrder
    <3>2. p <= q /\ q <= p
      BY <2>1, <2>2, <3>1
    <3>3. p = q
      BY <1>1, <2>2, <3>2
    <3> QED BY <3>1, <3>3
  <2>6. p * PageSize \in p * PageSize .. (p + 1) * PageSize - 1
    <3>1. (p + 1) * PageSize = p * PageSize + PageSize /\ p * PageSize \in Nat
      BY <1>1, PagesGrow, SizesPositive
    <3> QED BY <3>1, SizesPositive
  <2>7. ASSUME NEW k \in DOMAIN g, p * PageSize \in g[k].base .. g[k].limit - 1, k # Len(g)
        PROVE  FALSE
    <3>1. PICK q \in PagesToMap(s) :
             /\ g[k].base = q * PageSize /\ g[k].limit = (q + 1) * PageSize
             /\ \E r \in PagesToMap(s) : q < r
      BY <2>1, <2>7 DEF InOrder
    <3>2. p = q
      BY <1>1, <2>2, <2>7, <3>1, OnePageMap
    <3> QED BY <1>1, <2>2, <3>1, <3>2
  <2> QED BY <2>4, <2>5, <2>6, <2>7 DEF g
<1> QED BY <1>2, <1>3

(* The content of a section that begins in a map, and fits, is in that map. *)
LEMMA StoredRawAt ==
    ASSUME NEW m, MapOK(m), NEW start \in Nat, start >= m.base,
           NEW bytes \in Seq(Bytes), RawFits(m, start, bytes), NEW k \in DOMAIN bytes
    PROVE  /\ start + k - 1 \in m.base .. m.limit - 1
           /\ StoredRaw(m, start, bytes).data[(start + k - 1) - m.base + 1] = bytes[k]
<1> DEFINE Here(j) == {x \in DOMAIN bytes : Index(m, start, x) % Len(m.data) = j - 1}
           d == [j \in DOMAIN m.data |->
                   IF Here(j) = {} THEN m.data[j] ELSE bytes[Max(Here(j))]]
           j0 == (start + k - 1) - m.base + 1
<1>1. /\ m \in MemoryMap /\ m.data \in Seq(Bytes) /\ m.base \in Nat /\ m.limit \in Nat
      /\ m.limit - m.base \in Nat
      /\ Len(m.data) = m.limit - m.base /\ DOMAIN m.data = 1 .. m.limit - m.base
  BY DEF MapOK, MemoryMap
<1>2. ASSUME NEW x \in DOMAIN bytes
      PROVE  /\ Index(m, start, x) \in 0 .. m.limit - m.base - 1
             /\ Index(m, start, x) % Len(m.data) = start + x - 1 - m.base
  <2> DEFINE b == m.base
             l == m.limit
             n == Len(m.data)
             i == start + x - 1 - b
  <2>1. x \in Nat /\ x >= 1 /\ b \in Nat /\ l \in Nat /\ n = l - b /\ n \in Nat /\ start >= b
    BY <1>1
  <2>2. Index(m, start, x) = i /\ i \in -n .. n - 1
    BY DEF Index, RawFits
  <2> HIDE DEF b, l, n
  <2>3. i >= 0 /\ i < n /\ i \in Nat
    <3>1. \A c, y, e \in Nat : c >= e /\ y >= 1 => c + y - 1 - e >= 0 /\ c + y - 1 - e \in Nat
      OBVIOUS
    <3>2. i >= 0 /\ i \in Nat
      BY <2>1, <3>1
    <3> HIDE DEF i
    <3> QED BY <2>1, <2>2, <3>2
  <2> HIDE DEF i
  <2>4. i % n = i
    BY <2>1, <2>3
  <2>5. i \in 0 .. l - b - 1
    BY <2>1, <2>3
  <2> QED BY <2>2, <2>4, <2>5 DEF b, l, n, i
<1>3. k \in Nat /\ k >= 1 /\ start + k - 1 - m.base \in 0 .. m.limit - m.base - 1
  <2>1. k \in Nat /\ k >= 1
    OBVIOUS
  <2>2. Index(m, start, k) \in 0 .. m.limit - m.base - 1
    BY <1>2
  <2> QED BY <2>1, <2>2 DEF Index
<1>4. start + k - 1 \in m.base .. m.limit - 1 /\ j0 \in DOMAIN m.data
  <2> DEFINE b == m.base
             l == m.limit
  <2>1. b \in Nat /\ l \in Nat /\ start + k - 1 - b \in 0 .. l - b - 1
    BY <1>1, <1>3
  <2>2. k \in Nat /\ k >= 1
    OBVIOUS
  <2> HIDE DEF b, l, j0
  <2>3. start + k - 1 >= b /\ start + k - 1 <= l - 1 /\ start + k - 1 \in Nat
    <3>1. \A c, x, y, e \in Nat :
             x >= 1 /\ c + x - 1 - y \in 0 .. e - y - 1
                => c + x - 1 >= y /\ c + x - 1 <= e - 1 /\ c + x - 1 \in Nat
      OBVIOUS
    <3> QED BY <2>1, <2>2, <3>1
  <2> DEFINE z == start + k - 1
  <2>4. z \in Nat /\ z \in b .. l - 1
    BY <2>1, <2>3
  <2>5. j0 = z - b + 1
    BY DEF j0, b
  <2> HIDE DEF z
  <2>6. z - b + 1 \in 1 .. l - b
    BY <2>1, <2>4
  <2> QED BY <1>1, <2>4, <2>5, <2>6 DEF b, l, z
<1>5. Here(j0) = {k}
  <2>1. \A x \in DOMAIN bytes : x \in Nat /\ (start + x - 1 - m.base = j0 - 1 <=> x = k)
    <3> DEFINE b == m.base
    <3>1. b \in Nat /\ \A x \in DOMAIN bytes : x \in Nat
      BY <1>1
    <3> HIDE DEF b
    <3>2. ASSUME NEW x \in Nat
          PROVE  start + x - 1 - b = ((start + k - 1) - b + 1) - 1 <=> x = k
      <4>1. k \in Nat /\ b \in Nat
        BY <1>3, <3>1
      <4>2. \A a, c, y, e \in Nat : a + c - 1 - y = ((a + e - 1) - y + 1) - 1 => c = e
        OBVIOUS
      <4>3. start + x - 1 - b = ((start + k - 1) - b + 1) - 1 => x = k
        BY <4>1, <4>2
      <4>4. \A a, c, e \in Nat : a + e - 1 - c = ((a + e - 1) - c + 1) - 1
        OBVIOUS
      <4>5. start + k - 1 - b = ((start + k - 1) - b + 1) - 1
        BY <4>1, <4>4
      <4>6. x = k => start + x - 1 - b = ((start + k - 1) - b + 1) - 1
        BY <4>5, Zenon
      <4> QED BY <4>3, <4>6, Zenon
    <3> QED BY <3>1, <3>2 DEF b
  <2> HIDE DEF j0
  <2> QED BY <1>2, <2>1
<1>6. Max({k}) = k
  BY <1>3 DEF Max
<1>7. d[j0] = bytes[k]
  <2> HIDE DEF Here, j0
  <2>1. Here(j0) # {}
    BY <1>5
  <2>2. d[j0] = bytes[Max(Here(j0))]
    BY <1>4, <2>1
  <2> QED BY <1>5, <1>6, <2>2
<1>8. StoredRaw(m, start, bytes) = [m EXCEPT !.data = d]
  BY DEF StoredRaw
<1> HIDE DEF d
<1>9. StoredRaw(m, start, bytes).data = d
  BY <1>1, <1>8 DEF MemoryMap
<1> QED BY <1>4, <1>7, <1>9

(* While the sections are loaded: what is left of them, which pages have a   *)
(* map, and that mem_map is the map of the last page of the section before,  *)
(* if that page was a new one.                                               *)
PlacedInv ==
    stage = "loading" =>
       /\ loaded \in Nat
       /\ \A k \in DOMAIN todo : todo[k] = layout.sections[loaded + k]
       /\ \A p \in Pages : table[p] # 0 => \E m \in 1 .. loaded : p \in PagesOf(layout.sections[m])
       /\ loaded > 0 =>
             \A p \in Pages : LastPage(p, loaded) /\ FirstOn(p, loaded) =>
                /\ mem_map # 0 /\ table[p] = mem_map
                /\ maps[mem_map].limit = (p + 1) * PageSize

(* It holds before the first section. *)
LEMMA PlacedInit == Init => PlacedInv /\ SectionsInPlace
<1> SUFFICES ASSUME Init PROVE PlacedInv /\ SectionsInPlace
  OBVIOUS
<1>1. /\ layout \in Layouts /\ todo = layout.sections /\ table = [p \in Pages |-> 0]
  BY DEF Init
<1>2. Len(layout.sections) \in Nat
  BY <1>1, LayoutAssumption
<1>3. loaded = 0
  BY <1>1, <1>2 DEF loaded
<1>4. \A k \in DOMAIN todo : loaded + k = k
  <2>1. DOMAIN todo \subseteq Nat
    BY <1>1, LayoutAssumption
  <2> QED BY <1>3, <2>1
<1> QED BY <1>1, <1>3, <1>4 DEF PlacedInv, SectionsInPlace

(* What LoadSection does, if it does not fail. *)
LEMMA LoadStep ==
    ASSUME PolicyInv, PlacedInv, LoadSection, stage' = "loading"
    PROVE  LET s == Head(todo)
               made == MapsMade(s)
               mms == maps \o made
           IN  /\ s \in GoodSections /\ stage = "loading" /\ layout' = layout
               /\ loaded' = loaded + 1 /\ layout.sections[loaded + 1] = s
               /\ \A k \in DOMAIN todo' : todo'[k] = layout.sections[loaded' + k]
               /\ mem_map' = (IF Len(made) > 0 THEN Len(maps) + Len(made) ELSE mem_map)
               /\ mem_map' \in 0 .. Len(mms)
               /\ \A k \in DOMAIN mms : MapOK(mms[k]) /\ maps'[k].limit = mms[k].limit
               /\ DOMAIN mms = 1 .. Len(maps) + Len(made) /\ DOMAIN maps = 1 .. Len(maps)
               /\ Len(maps) \in Nat /\ Len(made) \in Nat
               /\ \A k \in DOMAIN maps : mms[k] = maps[k]
               /\ \A k \in DOMAIN made : mms[Len(maps) + k] = made[k]
               /\ s.content = <<>> \/ /\ mem_map' # 0
                                      /\ RawFits(mms[mem_map'], s.start, s.content)
                                      /\ maps' = WithContent(mms, mem_map', s)
<1> DEFINE s == Head(todo)
           made == MapsMade(s)
           mms == maps \o made
<1>1. /\ TypeOK /\ LoadingInv /\ stage = "loading" /\ todo # <<>> /\ todo' = Tail(todo)
      /\ todo \in Seq(GoodSections) /\ layout' = layout
  BY DEF PolicyInv, LoadingInv, LoadSection
<1>2. /\ mem_map' = MapOfContent(mms)
      /\ \/ s.content = <<>> /\ maps' = mms
         \/ /\ mem_map' # 0 /\ RawFits(mms[mem_map'], s.start, s.content)
            /\ maps' = WithContent(mms, mem_map', s)
  BY <1>1 DEF LoadSection
<1>3. /\ s \in GoodSections /\ s = todo[1] /\ 1 \in DOMAIN todo /\ Len(todo') = Len(todo) - 1
      /\ Len(todo) \in Nat /\ \A k \in DOMAIN todo' : k \in Nat /\ k + 1 \in DOMAIN todo
                                                       /\ todo'[k] = todo[k + 1]
  BY <1>1
<1>4. MadeFor(s, made)
  BY <1>3, Made
<1> HIDE DEF s, made
<1>5. Len(layout.sections) \in Nat
  BY <1>1, LayoutAssumption DEF TypeOK
<1>6. loaded' = loaded + 1 /\ loaded \in Nat
  BY <1>1, <1>3, <1>5 DEF loaded, PlacedInv
<1>7. /\ layout.sections[loaded + 1] = s
      /\ \A k \in DOMAIN todo' : todo'[k] = layout.sections[loaded' + k]
  <2>1. \A k \in DOMAIN todo' : loaded + (k + 1) = loaded' + k
    BY <1>3, <1>6
  <2> QED BY <1>1, <1>3, <2>1 DEF PlacedInv
<1>8. /\ maps \in Seq(MemoryMap) /\ made \in Seq(MemoryMap)
      /\ \A k \in DOMAIN maps : MapOK(maps[k])
  BY <1>1, <1>4 DEF TypeOK, MadeFor
<1>9. /\ mms \in Seq(MemoryMap) /\ Len(mms) = Len(maps) + Len(made)
      /\ DOMAIN mms = 1 .. Len(maps) + Len(made) /\ DOMAIN maps = 1 .. Len(maps)
      /\ Len(maps) \in Nat /\ Len(made) \in Nat
      /\ \A k \in DOMAIN maps : mms[k] = maps[k]
      /\ \A k \in DOMAIN made : mms[Len(maps) + k] = made[k]
      /\ \A k \in DOMAIN mms : \/ k \in DOMAIN maps
                               \/ k - Len(maps) \in DOMAIN made /\ mms[k] = made[k - Len(maps)]
  BY <1>8
<1> HIDE DEF mms
<1>10. \A k \in DOMAIN mms : MapOK(mms[k])
  BY <1>4, <1>8, <1>9 DEF MadeFor
<1>11. mem_map' = IF Len(made) > 0 THEN Len(maps) + Len(made) ELSE mem_map
  BY <1>2, <1>9 DEF MapOfContent
<1>12. mem_map' \in 0 .. Len(mms)
  BY <1>1, <1>9, <1>11 DEF TypeOK
<1>13. ASSUME NEW k \in DOMAIN mms PROVE maps'[k].limit = mms[k].limit
  <2>1. CASE maps' = mms
    BY <2>1
  <2>2. CASE mem_map' # 0 /\ maps' = WithContent(mms, mem_map', s)
    <3> DEFINE i == mem_map'
               o == StoredRaw(mms[i], s.start, s.content)
    <3>1. i \in DOMAIN mms
      BY <1>9, <1>12, <2>2
    <3>2. MapOK(mms[i]) /\ s.start \in Nat /\ s.content \in Seq(Bytes)
      BY <1>3, <1>10, <3>1 DEF GoodSections, Sections
    <3>3. o.limit = mms[i].limit
      BY <3>2, StoredRawIn
    <3> HIDE DEF o
    <3>4. maps' = [mms EXCEPT ![i] = o]
      BY <2>2 DEF o, WithContent
    <3> HIDE DEF i
    <3> QED BY <3>1, <3>3, <3>4
  <2> QED BY <1>2, <2>1, <2>2
<1> HIDE DEF RawFits, WithContent
<1> QED BY <1>1, <1>2, <1>3, <1>6, <1>7, <1>9, <1>10, <1>11, <1>12, <1>13 DEF mms, made, s

(* When the last page of a section gets a map, that is the last one made. *)
LEMMA NewLastPage ==
    ASSUME PolicyInv, PlacedInv, LoadSection, stage' = "loading",
           NEW p \in PagesOf(Head(todo)), \A q \in PagesOf(Head(todo)) : q <= p,
           Head(todo).name = "[stack]" \/ p \in PagesToMap(Head(todo))
    PROVE  /\ mem_map' # 0 /\ table'[p] = mem_map'
           /\ maps'[mem_map'].limit = (p + 1) * PageSize
<1> DEFINE s == Head(todo)
           made == MapsMade(s)
           mms == maps \o made
           Holds(k) == p * PageSize \in made[k].base .. made[k].limit - 1
           n == Len(made)
<1>1. /\ s \in GoodSections
      /\ mem_map' = (IF n > 0 THEN Len(maps) + n ELSE mem_map)
      /\ \A k \in DOMAIN mms : maps'[k].limit = mms[k].limit
      /\ DOMAIN mms = 1 .. Len(maps) + n /\ Len(maps) \in Nat /\ n \in Nat
      /\ \A k \in DOMAIN made : mms[Len(maps) + k] = made[k]
  BY LoadStep
<1>2. /\ n \in DOMAIN made /\ made[n].limit = (p + 1) * PageSize /\ Holds(n)
      /\ \A k \in DOMAIN made : Holds(k) => k = n
  BY <1>1, LastMade
<1>3. table'[p] = IF \E k \in DOMAIN made : Holds(k)
                  THEN Len(maps) + CHOOSE k \in DOMAIN made : Holds(k) ELSE table[p]
  <2>1. p \in Pages
    BY DEF PagesOf
  <2> QED BY <2>1 DEF LoadSection
<1>4. made \in Seq(MemoryMap)
  BY <1>1, Made DEF MadeFor
<1> HIDE DEF s, made, mms, Holds
<1>5. n > 0 /\ Len(maps) + n \in DOMAIN mms
  BY <1>1, <1>2, <1>4
<1>6. (CHOOSE k \in DOMAIN made : Holds(k)) = n
  <2> HIDE DEF n
  <2> QED BY <1>2
<1> HIDE DEF n
<1>7. table'[p] = Len(maps) + n /\ mem_map' = Len(maps) + n
  BY <1>1, <1>2, <1>3, <1>5, <1>6
<1> QED BY <1>1, <1>2, <1>5, <1>7

(* A page without a map is one that a section makes one for. *)
LEMMA UnmappedPage ==
    ASSUME NEW s, NEW p \in PagesOf(s), table[p] = 0
    PROVE  p \in PagesToMap(s)
<1>1. p \in Pages
  BY DEF PagesOf
<1>2. _find_map(p * PageSize) = table[p]
  <2>1. p * PageSize \in 0 .. AddressSpace - 1 /\ (p * PageSize) \div PageSize = p
    BY <1>1, PageStarts
  <2>2. (p * PageSize) % AddressSpace = p * PageSize
    BY <2>1, AddressInPage
  <2> QED BY <2>1, <2>2 DEF _find_map
<1> QED BY <1>2 DEF PagesToMap, can_do

(* A section on a page that is new, or new with the section before it, is    *)
(* stored to the map of that page: the last map that was made.               *)
LEMMA RightMap ==
    ASSUME PolicyInv, PlacedInv, LoadSection, stage' = "loading",
           NEW p \in Pages, PagesOf(Head(todo)) = {p},
           \/ table[p] = 0
           \/ /\ mem_map # 0 /\ table[p] = mem_map
              /\ maps[mem_map].limit = (p + 1) * PageSize
    PROVE  /\ mem_map' # 0 /\ table'[p] = mem_map'
           /\ maps'[mem_map'].limit = (p + 1) * PageSize
<1> DEFINE s == Head(todo)
           made == MapsMade(s)
           mms == maps \o made
<1>1. p \in PagesOf(s) /\ \A q \in PagesOf(s) : q <= p
  BY SizesPositive DEF Pages
<1>2. CASE s.name = "[stack]" \/ p \in PagesToMap(s)
  BY <1>1, <1>2, NewLastPage
<1>3. CASE ~(s.name = "[stack]" \/ p \in PagesToMap(s))
  <2>1. /\ s \in GoodSections
        /\ mem_map' = (IF Len(made) > 0 THEN Len(maps) + Len(made) ELSE mem_map)
        /\ mem_map' \in 0 .. Len(mms)
        /\ \A k \in DOMAIN mms : maps'[k].limit = mms[k].limit
        /\ DOMAIN mms = 1 .. Len(maps) + Len(made) /\ DOMAIN maps = 1 .. Len(maps)
        /\ Len(maps) \in Nat /\ Len(made) \in Nat
        /\ \A k \in DOMAIN maps : mms[k] = maps[k]
    BY LoadStep
  <2>2. PagesToMap(s) = {}
    BY <1>3 DEF PagesToMap
  <2>3. made = <<>>
    <3>1. InOrder(s, NumPages, made)
      BY <1>3, <2>1, MadeInOrder
    <3> HIDE DEF made, s
    <3>2. \A k \in DOMAIN made : FALSE
      BY <2>2, <3>1 DEF InOrder
    <3> QED BY <3>1, <3>2 DEF InOrder
  <2>4. Len(made) = 0 /\ DOMAIN made = {}
    BY <2>3
  <2>5. table[p] # 0
    BY <1>1, <1>3, UnmappedPage
  <2>6. table'[p] = table[p]
    BY <2>4 DEF LoadSection
  <2>7. mem_map' = mem_map /\ mem_map \in DOMAIN maps
    <3>1. mem_map \in 0 .. Len(maps)
      BY DEF PolicyInv, TypeOK
    <3> HIDE DEF made, mms
    <3> QED BY <2>1, <2>4, <2>5, <3>1
  <2>8. mem_map \in DOMAIN mms /\ mms[mem_map] = maps[mem_map]
    <3> HIDE DEF made, mms
    <3> QED BY <2>1, <2>4, <2>7
  <2> HIDE DEF made, mms, s
  <2> QED BY <2>1, <2>5, <2>6, <2>7, <2>8
<1> QED BY <1>2, <1>3

(* Then its content is where the program will look for it. *)
LEMMA ContentThere ==
    ASSUME PolicyInv, PlacedInv, LoadSection, stage' = "loading", NEW s, s = Head(todo),
           NEW p \in Pages, PagesOf(s) = {p},
           mem_map' # 0, table'[p] = mem_map', maps'[mem_map'].limit = (p + 1) * PageSize,
           NEW k \in DOMAIN s.content
    PROVE  Peek(maps, s.start + k - 1)' = s.content[k]
<1> DEFINE made == MapsMade(s)
           mms == maps \o made
           i == mem_map'
           a == s.start + k - 1
           o == StoredRaw(mms[i], s.start, s.content)
<1>1. /\ s \in GoodSections
      /\ i \in 0 .. Len(mms)
      /\ \A x \in DOMAIN mms : MapOK(mms[x]) /\ maps'[x].limit = mms[x].limit
      /\ DOMAIN mms = 1 .. Len(maps) + Len(made)
      /\ Len(maps) \in Nat /\ Len(made) \in Nat
      /\ s.content = <<>> \/ /\ RawFits(mms[i], s.start, s.content)
                             /\ maps' = WithContent(mms, i, s)
  BY LoadStep
<1>2. s.start \in Nat /\ s.content \in Seq(Bytes) /\ s.content # <<>>
  BY <1>1 DEF GoodSections, Sections
<1>3. i \in DOMAIN mms
  <2>1. Len(mms) = Len(maps) + Len(made)
    <3>1. maps \in Seq(MemoryMap) /\ made \in Seq(MemoryMap)
      BY <1>1, Made DEF MadeFor, PolicyInv, TypeOK
    <3> HIDE DEF made
    <3> QED BY <3>1
  <2> HIDE DEF mms, made
  <2> QED BY <1>1, <2>1
<1> DEFINE m == mms[i]
<1>4. maps'[i] = o /\ o = StoredRaw(m, s.start, s.content)
  BY <1>1, <1>2, <1>3 DEF WithContent
<1>5. MapOK(m) /\ RawFits(m, s.start, s.content) /\ maps'[i].limit = m.limit
  BY <1>1, <1>2, <1>3
<1> HIDE DEF mms, made, o, m
<1>6. /\ o.base = m.base /\ o.limit = m.limit
      /\ m.base \in Nat /\ m.limit \in Nat /\ k \in Nat /\ k >= 1
  <2>1. o.base = m.base /\ o.limit = m.limit
    BY <1>2, <1>4, <1>5, StoredRawIn
  <2> QED BY <1>2, <1>5, <2>1 DEF MapOK, MemoryMap
<1>7. p \in Nat /\ p * PageSize <= s.start /\ s.start < p * PageSize + PageSize
  <2>1. PICK b \in Nat, e \in Nat :
           /\ b * PageSize <= s.start /\ s.start < b * PageSize + PageSize
           /\ PagesOf(s) = {q \in Pages : b <= q /\ q < e}
    BY <1>1, SectionRange
  <2>2. b <= p /\ p < e /\ p \in Nat /\ p < NumPages
    <3>1. p \in PagesOf(s)
      OBVIOUS
    <3>2. b <= p /\ p < e
      BY <2>1, <3>1
    <3> QED BY <3>2, SizesPositive DEF Pages
  <2>3. b \in Pages
    BY <2>1, <2>2, SizesPositive DEF Pages
  <2>4. b \in PagesOf(s)
    BY <2>1, <2>2, <2>3
  <2>5. b = p
    BY <2>4
  <2> QED BY <2>1, <2>2, <2>5
<1> DEFINE pp == p * PageSize
           bb == m.base
           st == s.start
<1>8. pp \in Nat /\ m.limit = pp + PageSize
  <2>1. m.limit = (p + 1) * PageSize
    BY <1>5
  <2>2. (p + 1) * PageSize = p * PageSize + PageSize
    BY <1>7, PagesGrow
  <2> QED BY <1>7, <2>1, <2>2, SizesPositive
<1>9. pp >= bb
  <2>1. TableInv'
    BY LoadInv DEF PolicyInv
  <2>2. pp \in maps'[i].base .. maps'[i].limit - 1
    BY <2>1 DEF TableInv
  <2>3. maps'[i].base = bb /\ maps'[i].limit = m.limit
    BY <1>4, <1>6
  <2> HIDE DEF pp, bb, i
  <2>4. pp \in bb .. m.limit - 1
    BY <2>2, <2>3
  <2> QED BY <2>4
<1>10. st >= bb
  <2>1. bb \in Nat /\ st \in Nat /\ pp <= st
    BY <1>2, <1>6, <1>7
  <2> HIDE DEF pp, bb, st
  <2> QED BY <1>8, <1>9, <2>1
<1>11. a \in bb .. m.limit - 1 /\ o.data[a - bb + 1] = s.content[k]
  <2>1. /\ s.start + k - 1 \in m.base .. m.limit - 1
        /\ StoredRaw(m, s.start, s.content).data[(s.start + k - 1) - m.base + 1] = s.content[k]
    BY <1>2, <1>5, <1>10, StoredRawAt
  <2> QED BY <1>4, <2>1
<1>12. a \in Nat /\ pp <= a /\ a < pp + PageSize
  <2>1. st \in Nat /\ pp <= st /\ bb \in Nat /\ a = st + k - 1
    BY <1>2, <1>6, <1>7
  <2> HIDE DEF a, pp, bb, st
  <2>2. a \in Nat /\ bb <= a
    BY <1>6, <1>10, <2>1
  <2>3. a <= m.limit - 1
    BY <1>6, <1>11, <2>1, <2>2
  <2> QED BY <1>6, <1>8, <2>1, <2>2, <2>3, SizesPositive
<1> HIDE DEF a
<1>13. a \in 0 .. AddressSpace - 1
  <2>1. (p + 1) * PageSize <= AddressSpace /\ (p + 1) * PageSize = pp + PageSize
    BY <1>7, PageStarts, PagesGrow
  <2> HIDE DEF pp
  <2> QED BY <1>8, <1>12, <2>1, SizesPositive
<1>14. a \div PageSize = p
  BY <1>7, <1>12, PageOfAddress, PageUnique
<1>15. _find_map(a)' = i
  <2>1. _find_map(a)' = table'[a \div PageSize]
    BY <1>13, AddressInPage DEF _find_map
  <2> QED BY <1>14, <2>1
<1>16. Peek(maps, a)' = o.data[a - bb + 1]
  <2>1. Peek(maps, a)' = maps'[i].data[a - maps'[i].base + 1]
    BY <1>15 DEF Peek
  <2> QED BY <1>4, <1>6, <2>1
<1> QED BY <1>11, <1>16 DEF a

(* LoadSection keeps to it, and puts the section in its place. *)
LEMMA PlacedLoad ==
    ASSUME PolicyInv, PlacedInv, LoadSection, stage' = "loading"
    PROVE  PlacedInv' /\ SectionsInPlace'
<1>1. /\ Head(todo) \in GoodSections /\ stage = "loading" /\ layout' = layout
      /\ loaded' = loaded + 1 /\ layout.sections[loaded + 1] = Head(todo)
      /\ \A k \in DOMAIN todo' : todo'[k] = layout.sections[loaded' + k]
  BY LoadStep
<1>2. loaded \in Nat
  BY <1>1 DEF PlacedInv
<1>3. PICK s : s = Head(todo)
  OBVIOUS
<1>4. layout'.sections[loaded'] = s /\ s \in GoodSections
  BY <1>1, <1>3
<1>5. ASSUME NEW p \in Pages, table'[p] # 0
      PROVE  \E m \in 1 .. loaded' : p \in PagesOf(layout'.sections[m])
  <2>1. CASE table'[p] = table[p]
    <3>1. PICK m \in 1 .. loaded : p \in PagesOf(layout.sections[m])
      BY <1>1, <1>5, <2>1 DEF PlacedInv
    <3>2. m \in 1 .. loaded'
      BY <1>1, <1>2
    <3> QED BY <1>1, <3>1, <3>2
  <2>2. CASE table'[p] # table[p]
    <3>1. PICK k \in DOMAIN MapsMade(s) :
             p * PageSize \in MapsMade(s)[k].base .. MapsMade(s)[k].limit - 1
      BY <1>3, <2>2 DEF LoadSection
    <3>2. p \in PagesOf(s)
      BY <1>4, <3>1, MadeOn
    <3>3. loaded' \in 1 .. loaded'
      BY <1>1, <1>2
    <3> QED BY <1>4, <3>2, <3>3
  <2> QED BY <2>1, <2>2
<1>6. ASSUME NEW p \in Pages, \A m \in 1 .. loaded : p \notin PagesOf(layout.sections[m])
      PROVE  table[p] = 0
  BY <1>1, <1>6 DEF PlacedInv
<1>7. ASSUME NEW p \in Pages, FirstOn(p, loaded)'
      PROVE  table[p] = 0
  <2>1. \A m \in 1 .. loaded : p \notin PagesOf(layout.sections[m])
    <3>1. \A m \in 1 .. loaded : m \in 1 .. loaded' - 1
      BY <1>1, <1>2
    <3> QED BY <1>1, <1>7, <3>1 DEF FirstOn
  <2> QED BY <1>6, <2>1
<1>8. ASSUME NEW p \in Pages, LastPage(p, loaded)', FirstOn(p, loaded)'
      PROVE  /\ mem_map' # 0 /\ table'[p] = mem_map'
             /\ maps'[mem_map'].limit = (p + 1) * PageSize
  <2>1. p \in PagesOf(s) /\ \A q \in PagesOf(s) : q <= p
    BY <1>4, <1>8 DEF LastPage
  <2>2. p \in PagesToMap(s)
    BY <1>7, <1>8, <2>1, UnmappedPage
  <2> QED BY <1>3, <2>1, <2>2, NewLastPage
<1>9. PlacedInv'
  <2>1. loaded' \in Nat /\ loaded' > 0
    BY <1>1, <1>2
  <2>2. \A k \in DOMAIN todo' : todo'[k] = layout'.sections[loaded' + k]
    BY <1>1
  <2> QED BY <1>5, <1>8, <2>1, <2>2 DEF PlacedInv
<1>10. SectionsInPlace'
  <2> SUFFICES ASSUME NEW p \in Pages, PagesOf(s) = {p},
                      \/ FirstOn(p, loaded)'
                      \/ LastPage(p, loaded - 1)' /\ FirstOn(p, loaded - 1)',
                      NEW k \in DOMAIN s.content
               PROVE  Peek(maps, s.start + k - 1)' = s.content[k]
    BY <1>4 DEF SectionsInPlace, Peek, _find_map
  <2>1. \/ table[p] = 0
        \/ /\ mem_map # 0 /\ table[p] = mem_map
           /\ maps[mem_map].limit = (p + 1) * PageSize
    <3>1. CASE FirstOn(p, loaded)'
      BY <1>7, <3>1
    <3>2. CASE LastPage(p, loaded - 1)' /\ FirstOn(p, loaded - 1)'
      <4>1. loaded' - 1 = loaded
        BY <1>1, <1>2
      <4>2. LastPage(p, loaded) /\ FirstOn(p, loaded)
        BY <1>1, <3>2, <4>1 DEF LastPage, FirstOn
      <4>3. CASE loaded > 0
        BY <1>1, <4>2, <4>3 DEF PlacedInv
      <4>4. CASE loaded = 0
        BY <1>6, <4>4
      <4> QED BY <1>2, <4>3, <4>4
    <3> QED BY <3>1, <3>2
  <2>2. /\ mem_map' # 0 /\ table'[p] = mem_map'
        /\ maps'[mem_map'].limit = (p + 1) * PageSize
    BY <1>3, <2>1, RightMap
  <2> QED BY <1>3, <2>2, ContentThere
<1> QED BY <1>9, <1>10

(* Every step keeps to it. *)
LEMMA PlacedStep ==
    PolicyInv /\ PlacedInv /\ SectionsInPlace /\ [Next]_vars => PlacedInv' /\ SectionsInPlace'
<1> SUFFICES ASSUME PolicyInv, PlacedInv, SectionsInPlace, [Next]_vars, stage' = "loading"
             PROVE  PlacedInv' /\ SectionsInPlace'
  BY DEF PlacedInv, SectionsInPlace
<1>1. CASE LoadSection
  BY <1>1, PlacedLoad
<1>2. CASE UNCHANGED vars
  <2>1. UNCHANGED <<maps, table, stage, layout, todo, mem_map>>
    BY <1>2 DEF vars
  <2>2. loaded' = loaded
    BY <2>1 DEF loaded
  <2>3. PlacedInv'
    BY <2>1, <2>2 DEF PlacedInv, LastPage, FirstOn
  <2>4. SectionsInPlace'
    <3>1. PICK s : s = layout.sections[loaded]
      OBVIOUS
    <3>2. layout'.sections[loaded'] = s
      BY <2>1, <2>2, <3>1
    <3> SUFFICES ASSUME loaded' > 0, NEW p \in Pages, PagesOf(s) = {p},
                        \/ FirstOn(p, loaded)'
                        \/ LastPage(p, loaded - 1)' /\ FirstOn(p, loaded - 1)',
                        NEW k \in DOMAIN s.content
                 PROVE  Peek(maps, s.start + k - 1)' = s.content[k]
      BY <3>2 DEF SectionsInPlace, Peek, _find_map
    <3>3. FirstOn(p, loaded) \/ (LastPage(p, loaded - 1) /\ FirstOn(p, loaded - 1))
      BY <2>1, <2>2 DEF LastPage, FirstOn
    <3>4. Peek(maps, s.start + k - 1) = s.content[k]
      BY <2>1, <2>2, <3>1, <3>3 DEF SectionsInPlace
    <3> QED BY <2>1, <3>4 DEF Peek, _find_map
  <2> QED BY <2>3, <2>4
<1>3. ~MapInputSpace /\ ~AttachPolicy
  BY DEF MapInputSpace, AttachPolicy
<1>4. ASSUME NEW result, NEW size, NEW hint, NEW derived,
             compute_address(result, size, hint, derived)
      PROVE  FALSE
  BY <1>4 DEF compute_address, Refuse
<1>5. ASSUME NEW v, read_memory(v) \/ write_memory(v) PROVE FALSE
  BY <1>5 DEF read_memory, write_memory, Refuse
<1> QED BY <1>1, <1>2, <1>3, <1>4, <1>5 DEF Next

(* create_memory_from_sections puts a section within one page where the     *)
(* program will look for it, although it writes to the map that was made    *)
(* last, whichever section that was made for, and takes indices into that   *)
(* map that may be negative: unless another section has mapped the page     *)
(* before the last one.                                                     *)
THEOREM SectionsPlaced == Spec => []SectionsInPlace
<1>1. Init => PlacedInv /\ SectionsInPlace
  BY PlacedInit
<1>2. PolicyInv /\ PlacedInv /\ SectionsInPlace /\ [Next]_vars => PlacedInv' /\ SectionsInPlace'
  BY PlacedStep
<1> QED BY <1>1, <1>2, PolicyInvariant, PTL DEF Spec

------------------------------------------------------------------------------
(* What is noted as an output. *)

(* A policy has these fields, whatever is in them. *)
PolicyFields(pol) ==
    pol \in [start : {pol.start}, end : {pol.end},
             pointers_start : {pol.pointers_start}, pointers_end : {pol.pointers_end},
             pointer_watermark : {pol.pointer_watermark}, pointer_map : {pol.pointer_map},
             known_inputs : {pol.known_inputs}, known_outputs : {pol.known_outputs}]

WorkFields(w) == Fields(w) /\ PolicyFields(w.policy)

(* Noting one more area covers that area at most. *)
LEMMA CoveredSet ==
    ASSUME NEW dict, NEW k, NEW n
    PROVE  Covered(Set(dict, k, n)) \subseteq Covered(dict) \cup Span(k, n)
<1> SUFFICES ASSUME NEW a \in DOMAIN Set(dict, k, n), NEW x \in Span(a, Set(dict, k, n)[a])
             PROVE  x \in Covered(dict) \cup Span(k, n)
  BY DEF Covered
<1>1. a \in DOMAIN dict \cup {k} /\ Set(dict, k, n)[a] = IF a = k THEN n ELSE dict[a]
  BY DEF Set
<1>2. CASE a = k
  BY <1>1, <1>2
<1>3. CASE a # k
  <2>1. a \in DOMAIN dict /\ x \in Span(a, dict[a])
    BY <1>1, <1>3
  <2> QED BY <2>1 DEF Covered
<1> QED BY <1>2, <1>3

(* The dictionaries of a policy are dictionaries, and finite ones. *)
FiniteDict(dict) == /\ dict = [a \in DOMAIN dict |-> dict[a]]
                    /\ \E b \in Nat : DOMAIN dict \subseteq 0 .. b
FinitePolicy(pol) == FiniteDict(pol.known_inputs) /\ FiniteDict(pol.known_outputs)

(* They stay so when an area is noted. *)
LEMMA FiniteSetting ==
    ASSUME NEW dict, FiniteDict(dict), NEW k \in Nat, NEW n
    PROVE  FiniteDict(Set(dict, k, n))
<1> DEFINE d == Set(dict, k, n)
<1>1. PICK b \in Nat : DOMAIN dict \subseteq 0 .. b
  BY DEF FiniteDict
<1>2. DOMAIN d = DOMAIN dict \cup {k} /\ d = [a \in DOMAIN d |-> d[a]]
  BY DEF Set
<1> HIDE DEF d
<1>3. b + k \in Nat /\ 0 .. b \subseteq 0 .. b + k /\ k \in 0 .. b + k
  BY <1>1
<1>4. DOMAIN d \subseteq 0 .. b + k
  BY <1>1, <1>2, <1>3
<1> QED BY <1>2, <1>3, <1>4 DEF FiniteDict, d

(* Marks leave the policy alone. *)
LEMMA MarkFields ==
    ASSUME NEW w, WorkFields(w), NEW i, NEW field, NEW addrs
    PROVE  WorkFields(Mark(w, i, field, addrs)) /\ Mark(w, i, field, addrs).policy = w.policy
<1> DEFINE r == Mark(w, i, field, addrs)
           mms == [w.maps EXCEPT ![i][field] = @ \cup addrs]
<1>1. r = [w EXCEPT !.maps = mms]
  BY DEF Mark, WorkFields, Fields
<1> HIDE DEF r, mms
<1>2. Fields(r) /\ r.policy = w.policy
  BY <1>1 DEF WorkFields, Fields
<1> QED BY <1>2 DEF WorkFields, r

(* A load notes no output, and at most one input. *)
LEMMA LoadNotes ==
    ASSUME NEW w, WorkFields(w), FinitePolicy(w.policy), NEW a, a.addr \in Nat, NEW v
    PROVE  /\ WorkFields(LoadUnit(w, a, v)) /\ FinitePolicy(LoadUnit(w, a, v).policy)
           /\ LoadUnit(w, a, v).policy.known_outputs = w.policy.known_outputs
<1> DEFINE i == _find_map(a.addr)
           r == read_before_write(w, i, a.addr, a.size, v)
           l == _load_policy(w, i, a.addr, a.size, v)
           u == LoadUnit(w, a, v)
<1>1. /\ WorkFields(r) /\ r.policy.known_outputs = w.policy.known_outputs
      /\ FinitePolicy(r.policy)
  <2> DEFINE ptr == w.policy.pointer_watermark
             map == [w.maps EXCEPT ![i] = Overwritten(@, a.addr, pointer_to_bytes(ptr))]
             rnd == [w.maps EXCEPT ![i] = Overwritten(@, a.addr, [k \in 1 .. a.size |-> v])]
             pol == GeneratedFor(w.policy, a.addr)
             ins == [w.policy EXCEPT !.known_inputs = Set(@, a.addr, a.size)]
  <2>1. \/ r = [w EXCEPT !.maps = map, !.policy = pol]
        \/ r = [w EXCEPT !.ok = FALSE]
        \/ r = [w EXCEPT !.maps = rnd, !.policy = ins]
    BY DEF read_before_write, WorkFields, Fields
  <2>2. /\ PolicyFields(pol) /\ pol.known_outputs = w.policy.known_outputs
        /\ pol.known_inputs = Set(w.policy.known_inputs, a.addr, AddressBytes)
    BY DEF GeneratedFor, WorkFields, PolicyFields
  <2>3. /\ PolicyFields(ins) /\ ins.known_outputs = w.policy.known_outputs
        /\ ins.known_inputs = Set(w.policy.known_inputs, a.addr, a.size)
    BY DEF WorkFields, PolicyFields
  <2> HIDE DEF r, ptr, map, rnd, pol, ins
  <2>7. FinitePolicy(pol) /\ FinitePolicy(ins)
    BY <2>2, <2>3, FiniteSetting DEF FinitePolicy
  <2>4. CASE r = [w EXCEPT !.maps = map, !.policy = pol]
    <3>1. Fields(r) /\ r.policy = pol
      BY <2>4 DEF WorkFields, Fields
    <3> QED BY <2>2, <2>7, <3>1 DEF WorkFields
  <2>5. CASE r = [w EXCEPT !.ok = FALSE]
    <3>1. Fields(r) /\ r.policy = w.policy
      BY <2>5 DEF WorkFields, Fields
    <3> QED BY <3>1 DEF WorkFields
  <2>6. CASE r = [w EXCEPT !.maps = rnd, !.policy = ins]
    <3>1. Fields(r) /\ r.policy = ins
      BY <2>6 DEF WorkFields, Fields
    <3> QED BY <2>3, <2>7, <3>1 DEF WorkFields
  <2> QED BY <2>1, <2>4, <2>5, <2>6
<1>2. \/ l = w
      \/ l = Mark(w, i, "read", Span(a.addr, a.size))
      \/ l = Mark(r, i, "read", Span(a.addr, a.size))
  BY DEF _load_policy
<1> HIDE DEF r, l
<1>3. /\ WorkFields(l) /\ l.policy.known_outputs = w.policy.known_outputs
      /\ FinitePolicy(l.policy)
  BY <1>1, <1>2, MarkFields
<1> DEFINE bytes == l.bytes \o Slice(l.maps[i], a.addr, a.size)
<1>4. u = [w EXCEPT !.ok = FALSE] \/ u = [l EXCEPT !.bytes = bytes]
  <2>1. l = _load_policy(w, i, a.addr, a.size, v)
    BY DEF l
  <2> QED BY <1>3, <2>1 DEF LoadUnit, WorkFields, Fields
<1> HIDE DEF u, bytes
<1>5. Fields(u) /\ (u.policy = w.policy \/ u.policy = l.policy)
  BY <1>3, <1>4 DEF WorkFields, Fields
<1> QED BY <1>3, <1>5 DEF WorkFields, u

(* A store notes its own area at most. *)
LEMMA StoreNotes ==
    ASSUME NEW w, WorkFields(w), FinitePolicy(w.policy), NEW a, a.addr \in Nat, NEW v
    PROVE  /\ WorkFields(StoreUnit(w, a, v)) /\ FinitePolicy(StoreUnit(w, a, v).policy)
           /\ Covered(StoreUnit(w, a, v).policy.known_outputs)
                 \subseteq Covered(w.policy.known_outputs) \cup Span(a.addr, a.size)
<1> DEFINE i == _find_map(a.addr)
           pol == [w.policy EXCEPT !.known_outputs = Set(@, a.addr, a.size)]
           n == [w EXCEPT !.policy.known_outputs = Set(@, a.addr, a.size)]
           p == _store_policy(w, i, a.addr, a.size)
           u == StoreUnit(w, a, v)
           mms == [p.maps EXCEPT ![i] = Overwritten(@, a.addr, [k \in 1 .. a.size |-> v])]
<1>1. /\ WorkFields(n) /\ FinitePolicy(n.policy)
      /\ Covered(n.policy.known_outputs)
            \subseteq Covered(w.policy.known_outputs) \cup Span(a.addr, a.size)
  <2>1. /\ PolicyFields(pol) /\ pol.known_outputs = Set(w.policy.known_outputs, a.addr, a.size)
        /\ pol.known_inputs = w.policy.known_inputs
    BY DEF WorkFields, PolicyFields
  <2>2. n = [w EXCEPT !.policy = pol]
    BY DEF WorkFields, Fields
  <2> HIDE DEF pol, n
  <2>3. Fields(n) /\ n.policy = pol
    BY <2>2 DEF WorkFields, Fields
  <2>4. FinitePolicy(pol)
    BY <2>1, FiniteSetting DEF FinitePolicy
  <2> QED BY <2>1, <2>3, <2>4, CoveredSet DEF WorkFields
<1>2. p = w \/ p = Mark(n, i, "written", Span(a.addr, a.size))
  BY DEF _store_policy
<1> HIDE DEF n, p
<1>3. /\ WorkFields(p) /\ FinitePolicy(p.policy)
      /\ Covered(p.policy.known_outputs)
            \subseteq Covered(w.policy.known_outputs) \cup Span(a.addr, a.size)
  BY <1>1, <1>2, MarkFields
<1>4. u = [w EXCEPT !.ok = FALSE] \/ u = [p EXCEPT !.maps = mms]
  <2>1. p = _store_policy(w, i, a.addr, a.size)
    BY DEF p
  <2> QED BY <1>3, <2>1 DEF StoreUnit, WorkFields, Fields
<1> HIDE DEF u, mms
<1>5. Fields(u) /\ (u.policy = w.policy \/ u.policy = p.policy)
  BY <1>3, <1>4 DEF WorkFields, Fields
<1> QED BY <1>3, <1>5 DEF WorkFields, u

(* A load or store is split up into accesses to its own bytes. *)
LEMMA AccessesIn ==
    ASSUME NEW addr \in Nat, NEW size \in Nat
    PROVE  /\ Len(Accesses(addr, size)) \in Nat
           /\ \A k \in 1 .. Len(Accesses(addr, size)) :
                 /\ Accesses(addr, size)[k].addr \in Nat
                 /\ Span(Accesses(addr, size)[k].addr, Accesses(addr, size)[k].size)
                       \subseteq Span(addr, size)
<1> DEFINE as == Accesses(addr, size)
<1>1. CASE size \in {1, 2, 4, 8} /\ ~_crosses_pages(addr, size)
  <2>1. as = <<[addr |-> addr, size |-> size]>>
    BY <1>1 DEF Accesses
  <2>2. Len(as) = 1 /\ as[1] = [addr |-> addr, size |-> size]
    BY <2>1
  <2> HIDE DEF as
  <2>3. ASSUME NEW k \in 1 .. Len(as) PROVE as[k].addr = addr /\ as[k].size = size
    <3>1. k = 1
      BY <2>2
    <3>2. as[1].addr = addr /\ as[1].size = size
      BY <2>2
    <3> QED BY <3>1, <3>2
  <2> QED BY <2>2, <2>3 DEF as
<1>2. CASE ~(size \in {1, 2, 4, 8} /\ ~_crosses_pages(addr, size))
  <2>1. as = [k \in 1 .. size |-> [addr |-> addr + k - 1, size |-> 1]]
    BY <1>2 DEF Accesses
  <2>2. Len(as) = size /\ \A k \in 1 .. size : as[k] = [addr |-> addr + k - 1, size |-> 1]
    BY <2>1
  <2> HIDE DEF as
  <2>3. ASSUME NEW k \in 1 .. size
        PROVE  as[k].addr \in Nat /\ Span(as[k].addr, as[k].size) \subseteq Span(addr, size)
    <3>1. as[k].addr = addr + k - 1 /\ as[k].size = 1
      <4> DEFINE e == [addr |-> addr + k - 1, size |-> 1]
      <4>1. e.addr = addr + k - 1 /\ e.size = 1
        OBVIOUS
      <4>2. as[k] = e
        BY <2>2
      <4> HIDE DEF e
      <4> QED BY <4>1, <4>2
    <3>2. addr + k - 1 \in Nat /\ Span(addr + k - 1, 1) \subseteq Span(addr, size)
      BY DEF Span
    <3> QED BY <3>1, <3>2
  <2> QED BY <2>2, <2>3 DEF as
<1> QED BY <1>1, <1>2

(* What the loop of a load or store starts with. *)
LEMMA WorkNotes ==
    ASSUME TypeOK, FinitePolicy(policy)
    PROVE  WorkFields(Work) /\ Work.policy = policy /\ FinitePolicy(Work.policy)
<1>1. PolicyFields(policy)
  BY DEF TypeOK, PolicyOK, PolicyFields
<1> QED BY <1>1 DEF Work, WorkFields, Fields

(* The whole of a load notes no output. *)
LEMMA LoadsNote ==
    ASSUME TypeOK, FinitePolicy(policy), NEW addr \in Nat, NEW size \in Nat, NEW v
    PROVE  /\ load(addr, size, v).policy.known_outputs = policy.known_outputs
           /\ FinitePolicy(load(addr, size, v).policy)
<1> DEFINE as == Accesses(addr, size)
           N == Len(as)
<1>1. N \in Nat /\ \A k \in 1 .. N : as[k].addr \in Nat
  BY AccessesIn
<1>2. PICK f : /\ f[0] = Work
               /\ \A k \in 1 .. N : f[k] = LoadUnit(f[k - 1], as[k], v)
               /\ load(addr, size, v) = f[N]
  BY <1>1, LoadLoop
<1> HIDE DEF as, N
<1> DEFINE Good(n) == /\ WorkFields(f[n]) /\ f[n].policy.known_outputs = policy.known_outputs
                      /\ FinitePolicy(f[n].policy)
           T == {n \in Nat : n <= N => Good(n)}
<1>3. 0 \in T
  BY <1>2, WorkNotes
<1>4. ASSUME NEW n \in Nat, n \in T PROVE n + 1 \in T
  <2> SUFFICES ASSUME n + 1 <= N PROVE Good(n + 1)
    OBVIOUS
  <2>1. Good(n) /\ f[n + 1] = LoadUnit(f[n], as[n + 1], v) /\ as[n + 1].addr \in Nat
    <3>1. n + 1 \in 1 .. N /\ (n + 1) - 1 = n /\ n <= N
      BY <1>1
    <3> QED BY <1>1, <1>2, <1>4, <3>1
  <2>2. /\ WorkFields(LoadUnit(f[n], as[n + 1], v)) /\ FinitePolicy(LoadUnit(f[n], as[n + 1], v).policy)
        /\ LoadUnit(f[n], as[n + 1], v).policy.known_outputs = f[n].policy.known_outputs
    BY <2>1, LoadNotes
  <2> QED BY <2>1, <2>2
<1>5. N \in T
  <2>1. Nat \subseteq T
    <3> HIDE DEF T
    <3> QED BY <1>3, <1>4, SetInduction
  <2> HIDE DEF T
  <2> QED BY <1>1, <2>1
<1> QED BY <1>1, <1>2, <1>5

(* The whole of a store notes bytes of its operand only. *)
LEMMA StoresNote ==
    ASSUME TypeOK, FinitePolicy(policy), NEW addr \in Nat, NEW size \in Nat, NEW v
    PROVE  /\ Covered(store(addr, size, v).policy.known_outputs)
                 \subseteq Covered(policy.known_outputs) \cup Span(addr, size)
           /\ FinitePolicy(store(addr, size, v).policy)
<1> DEFINE as == Accesses(addr, size)
           N == Len(as)
<1>1. /\ N \in Nat /\ \A k \in 1 .. N : as[k].addr \in Nat
      /\ \A k \in 1 .. N : Span(as[k].addr, as[k].size) \subseteq Span(addr, size)
  BY AccessesIn
<1>2. PICK f : /\ f[0] = Work
               /\ \A k \in 1 .. N : f[k] = StoreUnit(f[k - 1], as[k], v)
               /\ store(addr, size, v) = f[N]
  BY <1>1, StoreLoop
<1> HIDE DEF as, N
<1> DEFINE Good(n) == /\ WorkFields(f[n]) /\ FinitePolicy(f[n].policy)
                      /\ Covered(f[n].policy.known_outputs)
                            \subseteq Covered(policy.known_outputs) \cup Span(addr, size)
           T == {n \in Nat : n <= N => Good(n)}
<1>3. 0 \in T
  BY <1>2, WorkNotes
<1>4. ASSUME NEW n \in Nat, n \in T PROVE n + 1 \in T
  <2> SUFFICES ASSUME n + 1 <= N PROVE Good(n + 1)
    OBVIOUS
  <2>1. /\ Good(n) /\ f[n + 1] = StoreUnit(f[n], as[n + 1], v)
        /\ Span(as[n + 1].addr, as[n + 1].size) \subseteq Span(addr, size)
        /\ as[n + 1].addr \in Nat
    <3>1. n + 1 \in 1 .. N /\ (n + 1) - 1 = n /\ n <= N
      BY <1>1
    <3> QED BY <1>1, <1>2, <1>4, <3>1
  <2>2. /\ WorkFields(f[n + 1]) /\ FinitePolicy(f[n + 1].policy)
        /\ Covered(f[n + 1].policy.known_outputs)
              \subseteq Covered(f[n].policy.known_outputs) \cup Span(as[n + 1].addr, as[n + 1].size)
    BY <2>1, StoreNotes
  <2> QED BY <2>1, <2>2
<1>5. N \in T
  <2>1. Nat \subseteq T
    <3> HIDE DEF T
    <3> QED BY <1>3, <1>4, SetInduction
  <2> HIDE DEF T
  <2> QED BY <1>1, <2>1
<1> QED BY <1>1, <1>2, <1>5

(* What known_outputs names has been stored by the program: also where      *)
(* stores overlap, are split up, or begin where an earlier one did.         *)
NotedWritten == Covered(policy.known_outputs) \subseteq stored

(* A new policy has noted nothing. *)
LEMMA EmptyNoted == Covered(EmptyDict) = {} /\ FiniteDict(EmptyDict)
<1>1. DOMAIN EmptyDict = {} /\ EmptyDict = [a \in DOMAIN EmptyDict |-> EmptyDict[a]]
  BY DEF EmptyDict
<1>2. DOMAIN EmptyDict \subseteq 0 .. 0 /\ 0 \in Nat
  BY <1>1
<1> QED BY <1>1, <1>2 DEF Covered, FiniteDict

(* Every step keeps to it. *)
LEMMA NotedStep ==
    ASSUME PolicyInv, FinitePolicy(policy), NotedWritten, [Next]_vars
    PROVE  FinitePolicy(policy)' /\ NotedWritten'
<1>1. TypeOK /\ policy \in [start : Nat, end : Nat, pointers_start : Nat, pointers_end : Nat,
                            pointer_watermark : Nat, pointer_map : {policy.pointer_map},
                            known_inputs : {policy.known_inputs},
                            known_outputs : {policy.known_outputs}]
  BY DEF PolicyInv, TypeOK, PolicyOK
<1>2. ASSUME stored' = stored, policy'.known_outputs = policy.known_outputs
      PROVE  NotedWritten'
  BY <1>2 DEF NotedWritten, Covered
<1>9. ASSUME policy' = policy PROVE FinitePolicy(policy)'
  BY <1>9 DEF FinitePolicy, FiniteDict
<1>3. CASE LoadSection \/ MapInputSpace
  BY <1>2, <1>3, <1>9 DEF LoadSection, MapInputSpace, ghosts
<1>4. CASE AttachPolicy
  <2>1. CASE policy' = policy
    BY <1>2, <1>4, <1>9, <2>1 DEF AttachPolicy
  <2>2. CASE policy' # policy
    <3>1. policy'.known_inputs = EmptyDict /\ policy'.known_outputs = EmptyDict
      BY <1>4, <2>2 DEF AttachPolicy, NewPolicy
    <3>2. Covered(EmptyDict) = {} /\ FiniteDict(EmptyDict)
      BY EmptyNoted
    <3> QED BY <3>1, <3>2 DEF NotedWritten, Covered, FinitePolicy, FiniteDict
  <2> QED BY <2>1, <2>2
<1>5. ASSUME NEW result \in Addresses, NEW size, NEW hint, NEW derived,
             compute_address(result, size, hint, derived)
      PROVE  FinitePolicy(policy)' /\ NotedWritten'
  <2>1. NotedWritten'
    BY <1>1, <1>2, <1>5 DEF compute_address, Refuse, ghosts
  <2>2. result \in Nat
    BY PolicyAssumption
  <2>3. /\ policy'.known_outputs = policy.known_outputs
        /\ \/ policy'.known_inputs = policy.known_inputs
           \/ policy'.known_inputs = Set(policy.known_inputs, result, op.size)
    BY <1>1, <1>5 DEF compute_address, Refuse
  <2>4. FiniteDict(Set(policy.known_inputs, result, op.size))
    BY <2>2, FiniteSetting DEF FinitePolicy
  <2> QED BY <2>1, <2>3, <2>4 DEF FinitePolicy, FiniteDict
<1>6. ASSUME NEW v \in RandomBytes, read_memory(v) PROVE FinitePolicy(policy)' /\ NotedWritten'
  <2>1. op.addr \in Nat /\ op.size \in Nat
    BY <1>1, SizesPositive DEF TypeOK, Operand
  <2> DEFINE w == load(op.addr, op.size, v)
  <2>2. w.policy.known_outputs = policy.known_outputs /\ FinitePolicy(w.policy)
    BY <1>1, <2>1, LoadsNote
  <2>3. stored' = stored /\ (policy' = policy \/ policy' = w.policy)
    BY <1>6 DEF read_memory, Refuse, ghosts
  <2> HIDE DEF w
  <2> QED BY <1>2, <2>2, <2>3 DEF FinitePolicy, FiniteDict
<1>7. ASSUME NEW v \in StoredBytes, write_memory(v) PROVE FinitePolicy(policy)' /\ NotedWritten'
  <2> DEFINE w == store(op.addr, op.size, v)
  <2>1. /\ op.addr \in Nat /\ op.size \in Nat
        /\ policy' = w.policy
        /\ stored' = stored \cup Span(op.addr, op.size)
    BY <1>7, WriteStep
  <2>2. /\ Covered(w.policy.known_outputs)
              \subseteq Covered(policy.known_outputs) \cup Span(op.addr, op.size)
        /\ FinitePolicy(w.policy)
    BY <1>1, <2>1, StoresNote
  <2> HIDE DEF w
  <2> QED BY <2>1, <2>2 DEF NotedWritten, Covered, FinitePolicy, FiniteDict
<1>8. CASE UNCHANGED vars
  BY <1>2, <1>8, <1>9 DEF vars
<1> QED BY <1>3, <1>4, <1>5, <1>6, <1>7, <1>8 DEF Next

(* Nothing is noted at first. *)
LEMMA NotedInit ==
    ASSUME Init
    PROVE  FinitePolicy(policy) /\ NotedWritten
<1>1. policy.known_inputs = EmptyDict /\ policy.known_outputs = EmptyDict
  BY DEF Init, NewPolicy
<1> QED BY <1>1, EmptyNoted DEF NotedWritten, FinitePolicy

(* Whatever the policy notes as an output, the program has stored.           *)
THEOREM OutputsNoted == Spec => []NotedWritten
<1>1. Init => FinitePolicy(policy) /\ NotedWritten
  BY NotedInit
<1>2. PolicyInv /\ FinitePolicy(policy) /\ NotedWritten /\ [Next]_vars
         => FinitePolicy(policy)' /\ NotedWritten'
  BY NotedStep
<1> QED BY <1>1, <1>2, PolicyInvariant, PTL DEF Spec

------------------------------------------------------------------------------
(* What get_outputs and get_inputs report. *)

(* One step of the loop over the addresses. *)
MergeStep(known, f, n) ==
    IF n - 1 \in DOMAIN known THEN MergeInto(known, f[n - 1], n - 1) ELSE f[n - 1]

(* An address of an area of a dictionary, of the ones below n. *)
InArea(dict, n, x) == \E a \in DOMAIN dict : a < n /\ a <= x /\ x < a + dict[a]

(* What the loop keeps true: the areas are apart, in order and below the    *)
(* watermark, the last one ends there, and together they are the areas of   *)
(* the addresses below n.                                                   *)
AreasTo(known, acc, n) ==
    /\ acc \in [merged : {acc.merged}, entry : Nat, watermark : Nat]
    /\ \A a \in DOMAIN acc.merged :
          /\ a \in Nat /\ a < n /\ acc.merged[a] \in Nat
          /\ a <= acc.entry /\ a + acc.merged[a] <= acc.watermark
    /\ \A a, b \in DOMAIN acc.merged : a < b => a + acc.merged[a] <= b
    /\ \A x \in Nat : InArea(acc.merged, n, x) <=> InArea(known, n, x)
    /\ \/ acc.watermark = 0
       \/ /\ acc.entry \in DOMAIN acc.merged
          /\ acc.entry + acc.merged[acc.entry] = acc.watermark

(* The areas below n + 1 are the ones below n and the one at n. *)
LEMMA OneMoreArea ==
    ASSUME NEW dict, Dicts(dict), NEW n \in Nat, NEW x \in Nat
    PROVE  InArea(dict, n + 1, x) <=>
              InArea(dict, n, x) \/ (n \in DOMAIN dict /\ n <= x /\ x < n + dict[n])
<1>1. \A a \in DOMAIN dict : a \in Nat /\ (a < n + 1 <=> a < n \/ a = n)
  BY DEF Dicts
<1>2. ASSUME InArea(dict, n + 1, x)
      PROVE  InArea(dict, n, x) \/ (n \in DOMAIN dict /\ n <= x /\ x < n + dict[n])
  <2>1. PICK a \in DOMAIN dict : a < n + 1 /\ a <= x /\ x < a + dict[a]
    BY <1>2 DEF InArea
  <2> QED BY <1>1, <2>1 DEF InArea
<1>3. ASSUME InArea(dict, n, x) PROVE InArea(dict, n + 1, x)
  <2>1. PICK a \in DOMAIN dict : a < n /\ a <= x /\ x < a + dict[a]
    BY <1>3 DEF InArea
  <2> QED BY <1>1, <2>1 DEF InArea
<1>4. ASSUME n \in DOMAIN dict, n <= x, x < n + dict[n] PROVE InArea(dict, n + 1, x)
  <2>1. n < n + 1
    OBVIOUS
  <2> QED BY <1>4, <2>1 DEF InArea
<1> QED BY <1>2, <1>3, <1>4

(* An area beyond the watermark is a new one. *)
LEMMA AreaIsNew ==
    ASSUME NEW known, Dicts(known), NEW acc, NEW n \in DOMAIN known, AreasTo(known, acc, n),
           n >= acc.watermark
    PROVE  AreasTo(known, MergeInto(known, acc, n), n + 1)
<1> DEFINE D == acc.merged
           w == acc.watermark
           k == known[n]
           M == Set(D, n, k)
           r == MergeInto(known, acc, n)
<1>1. n \in Nat /\ k \in Nat /\ w \in Nat /\ n >= w
  BY DEF Dicts, AreasTo
<1>2. \A a \in DOMAIN D : a \in Nat /\ a < n /\ D[a] \in Nat /\ a + D[a] <= w
  BY DEF AreasTo
<1>3. r = [merged |-> M, entry |-> n, watermark |-> n + k]
  BY DEF MergeInto
<1>4. DOMAIN M = DOMAIN D \cup {n} /\ M[n] = k /\ \A a \in DOMAIN D : M[a] = D[a]
  <2>1. /\ DOMAIN M = DOMAIN D \cup {n} /\ M[n] = k
        /\ \A a \in DOMAIN D : a # n => M[a] = D[a]
    BY DEF Set
  <2> HIDE DEF D, w, k, M, r
  <2> QED BY <1>1, <1>2, <2>1
<1>5. \A a, b \in DOMAIN D : a < b => a + D[a] <= b
  BY DEF AreasTo
<1>6. \A x \in Nat : InArea(D, n, x) <=> InArea(known, n, x)
  BY DEF AreasTo
<1> HIDE DEF D, w, k, M, r
<1>7. \A a \in DOMAIN M : a \in Nat /\ a < n + 1 /\ M[a] \in Nat /\ a <= n /\ a + M[a] <= n + k
  <2> TAKE a \in DOMAIN M
  <2>1. CASE a \in DOMAIN D
    BY <1>1, <1>2, <1>4, <2>1
  <2>2. CASE a = n
    BY <1>1, <1>4, <2>2
  <2> QED BY <1>4, <2>1, <2>2
<1>8. ASSUME NEW a \in DOMAIN M, NEW b \in DOMAIN M, a < b PROVE a + M[a] <= b
  <2>1. a \in DOMAIN D
    BY <1>1, <1>4, <1>7, <1>8
  <2>2. CASE b \in DOMAIN D
    BY <1>4, <1>5, <1>8, <2>1, <2>2
  <2>3. CASE b = n
    BY <1>1, <1>2, <1>4, <2>1, <2>3
  <2> QED BY <1>4, <2>2, <2>3
<1>9. ASSUME NEW x \in Nat PROVE InArea(M, n + 1, x) <=> InArea(known, n + 1, x)
  <2>1. Dicts(M)
    BY <1>7 DEF Dicts
  <2>2. InArea(M, n, x) <=> InArea(D, n, x)
    <3>1. ASSUME NEW a \in DOMAIN M, a < n PROVE a \in DOMAIN D /\ M[a] = D[a]
      BY <1>1, <1>4, <3>1
    <3> QED BY <1>4, <3>1 DEF InArea
  <2>3. n \in DOMAIN M /\ M[n] = known[n]
    BY <1>4 DEF k
  <2> QED BY <1>1, <1>6, <2>1, <2>2, <2>3, OneMoreArea
<1>10. r.merged = M /\ r.entry = n /\ r.watermark = n + k
       /\ r \in [merged : {r.merged}, entry : Nat, watermark : Nat]
  BY <1>1, <1>3
<1>11. n \in DOMAIN M /\ n + M[n] = n + k
  BY <1>4
<1> QED BY <1>7, <1>8, <1>9, <1>10, <1>11 DEF AreasTo, r

(* An area that reaches over the watermark makes the last one longer. *)
LEMMA AreaGrows ==
    ASSUME NEW known, Dicts(known), NEW acc, NEW n \in DOMAIN known, AreasTo(known, acc, n),
           ~(n >= acc.watermark), n + known[n] > acc.watermark
    PROVE  AreasTo(known, MergeInto(known, acc, n), n + 1)
<1> DEFINE D == acc.merged
           w == acc.watermark
           e == acc.entry
           k == known[n]
           M == Set(D, e, n + k - e)
           r == MergeInto(known, acc, n)
<1>1. n \in Nat /\ k \in Nat /\ w \in Nat /\ e \in Nat /\ n < w /\ n + k > w
  BY DEF Dicts, AreasTo
<1>2. \A a \in DOMAIN D : a \in Nat /\ a < n /\ D[a] \in Nat /\ a <= e /\ a + D[a] <= w
  BY DEF AreasTo
<1>3. e \in DOMAIN D /\ e + D[e] = w /\ e < n
  <2>1. w # 0
    BY <1>1
  <2> QED BY <1>2, <2>1 DEF AreasTo
<1>4. r = [acc EXCEPT !.merged = M, !.watermark = n + k]
  BY DEF MergeInto, AreasTo
<1>5. DOMAIN M = DOMAIN D /\ M[e] = n + k - e /\ \A a \in DOMAIN D : a # e => M[a] = D[a]
  <2>1. /\ DOMAIN M = DOMAIN D \cup {e} /\ M[e] = n + k - e
        /\ \A a \in DOMAIN D : a # e => M[a] = D[a]
    BY DEF Set
  <2> HIDE DEF D, w, e, k, M, r
  <2>2. DOMAIN D \cup {e} = DOMAIN D
    BY <1>3
  <2> QED BY <2>1, <2>2
<1>6. \A a, b \in DOMAIN D : a < b => a + D[a] <= b
  BY DEF AreasTo
<1>7. \A x \in Nat : InArea(D, n, x) <=> InArea(known, n, x)
  BY DEF AreasTo
<1>8. r.merged = M /\ r.entry = e /\ r.watermark = n + k
      /\ r \in [merged : {r.merged}, entry : Nat, watermark : Nat]
  <2>1. acc \in [merged : {acc.merged}, entry : Nat, watermark : Nat]
    BY DEF AreasTo
  <2> HIDE DEF M, k, r
  <2>2. r.merged = M /\ r.entry = acc.entry /\ r.watermark = n + k /\ n + k \in Nat
    BY <1>1, <1>4, <2>1
  <2>3. r \in [merged : {r.merged}, entry : Nat, watermark : Nat]
    <3>1. r = [merged |-> M, entry |-> acc.entry, watermark |-> n + k]
      BY <1>4, <2>1
    <3> QED BY <1>1, <2>2, <3>1
  <2> QED BY <2>2, <2>3
<1> HIDE DEF D, w, e, k, M, r
<1>9. n + k - e \in Nat /\ e + (n + k - e) = n + k
  BY <1>1, <1>3
<1>10. \A a \in DOMAIN M : a \in Nat /\ a < n + 1 /\ M[a] \in Nat /\ a <= e /\ a + M[a] <= n + k
  <2> TAKE a \in DOMAIN M
  <2>1. CASE a # e
    BY <1>1, <1>2, <1>5, <2>1
  <2>2. CASE a = e
    BY <1>1, <1>3, <1>5, <1>9, <2>2
  <2> QED BY <2>1, <2>2
<1>11. ASSUME NEW a \in DOMAIN M, NEW b \in DOMAIN M, a < b PROVE a + M[a] <= b
  <2>1. a # e
    BY <1>1, <1>2, <1>5, <1>11
  <2> QED BY <1>5, <1>6, <1>11, <2>1
<1>12. ASSUME NEW x \in Nat PROVE InArea(M, n + 1, x) <=> InArea(known, n + 1, x)
  <2>1. InArea(known, n + 1, x) <=> InArea(D, n, x) \/ (n <= x /\ x < n + k)
    BY <1>1, <1>7, OneMoreArea DEF k
  <2>2. ASSUME InArea(M, n + 1, x) PROVE InArea(D, n, x) \/ (n <= x /\ x < n + k)
    <3>1. PICK a \in DOMAIN M : a <= x /\ x < a + M[a]
      BY <2>2 DEF InArea
    <3>2. CASE a # e
      BY <1>2, <1>5, <3>1, <3>2 DEF InArea
    <3>3. CASE a = e
      <4>1. e <= x /\ x < n + k
        BY <1>5, <1>9, <3>1, <3>3
      <4>2. x < w \/ n <= x
        BY <1>1
      <4> QED BY <1>3, <4>1, <4>2 DEF InArea
    <3> QED BY <3>2, <3>3
  <2>3. ASSUME InArea(D, n, x) PROVE InArea(M, n + 1, x)
    <3>1. PICK a \in DOMAIN D : a <= x /\ x < a + D[a]
      BY <2>3 DEF InArea
    <3>2. a \in DOMAIN M /\ a < n + 1
      BY <1>5, <1>10, <3>1
    <3>3. x < a + M[a]
      <4>1. CASE a # e
        BY <1>5, <3>1, <4>1
      <4>2. CASE a = e
        BY <1>1, <1>3, <1>5, <1>9, <3>1, <4>2
      <4> QED BY <4>1, <4>2
    <3> QED BY <3>1, <3>2, <3>3 DEF InArea
  <2>4. ASSUME n <= x, x < n + k PROVE InArea(M, n + 1, x)
    <3>1. e \in DOMAIN M /\ e < n + 1 /\ e <= x /\ x < e + M[e]
      BY <1>1, <1>3, <1>5, <1>9, <2>4
    <3> QED BY <3>1 DEF InArea
  <2> QED BY <2>1, <2>2, <2>3, <2>4
<1>13. e \in DOMAIN M /\ e + M[e] = n + k
  BY <1>3, <1>5, <1>9
<1> QED BY <1>8, <1>10, <1>11, <1>12, <1>13 DEF AreasTo, r

(* Any other area is part of the last one, and an address without an area   *)
(* adds nothing.                                                            *)
LEMMA AreaIsThere ==
    ASSUME NEW known, Dicts(known), NEW acc, NEW n \in Nat, AreasTo(known, acc, n),
           n \in DOMAIN known => n < acc.watermark /\ n + known[n] <= acc.watermark
    PROVE  AreasTo(known, acc, n + 1)
<1> DEFINE D == acc.merged
           w == acc.watermark
           e == acc.entry
<1>1. /\ w \in Nat /\ e \in Nat
      /\ \A a \in DOMAIN D : a \in Nat /\ a < n /\ D[a] \in Nat
      /\ \A x \in Nat : InArea(D, n, x) <=> InArea(known, n, x)
      /\ w = 0 \/ (e \in DOMAIN D /\ e + D[e] = w)
  BY DEF AreasTo
<1>2. n \in DOMAIN known => n < w /\ n + known[n] <= w /\ known[n] \in Nat
  BY DEF Dicts
<1> HIDE DEF D, w, e
<1>3. \A a \in DOMAIN D : a < n + 1
  BY <1>1
<1>4. ASSUME NEW x \in Nat PROVE InArea(D, n + 1, x) <=> InArea(known, n + 1, x)
  <2>1. InArea(D, n + 1, x) <=> InArea(D, n, x)
    BY <1>1, <1>3 DEF InArea
  <2>2. InArea(known, n + 1, x) <=>
           InArea(D, n, x) \/ (n \in DOMAIN known /\ n <= x /\ x < n + known[n])
    BY <1>1, OneMoreArea
  <2>3. ASSUME n \in DOMAIN known, n <= x, x < n + known[n] PROVE InArea(D, n, x)
    <3>1. e \in DOMAIN D /\ e + D[e] = w /\ e < n
      BY <1>1, <1>2, <2>3
    <3>2. e <= x /\ x < e + D[e]
      BY <1>1, <1>2, <2>3, <3>1
    <3> QED BY <3>1, <3>2 DEF InArea
  <2> QED BY <2>1, <2>2, <2>3
<1> QED BY <1>3, <1>4 DEF AreasTo, D

(* Merged goes from address to address, up to the last one. *)
LEMMA MergeSteps ==
    ASSUME NEW known, known # EmptyDict, NEW L \in Nat, L = Max(DOMAIN known)
    PROVE  \E f : /\ f[0] = NoArea /\ Merged(known) = f[L + 1].merged
                  /\ \A n \in Nat : n <= L => f[n + 1] = MergeStep(known, f, n + 1)
<1> DEFINE N == L + 1
           Step(g, n) == MergeStep(known, g, n)
           MergedTo(n, g) == g = [k \in 0 .. n |-> IF k = 0 THEN NoArea ELSE Step(g, k)]
           T == {n \in Nat : \E g : MergedTo(n, g)}
<1>1. 0 \in T
  <2>1. MergedTo(0, [k \in 0 .. 0 |-> NoArea])
    OBVIOUS
  <2> QED BY <2>1
<1>2. ASSUME NEW n \in Nat, n \in T PROVE n + 1 \in T
  <2>1. PICK g : MergedTo(n, g)
    BY <1>2
  <2> DEFINE h == [k \in 0 .. n + 1 |-> IF k = n + 1 THEN Step(g, n + 1) ELSE g[k]]
  <2>2. \A k \in 0 .. n : h[k] = g[k]
    OBVIOUS
  <2>3. h[n + 1] = Step(g, n + 1)
    OBVIOUS
  <2>4. h = [k \in 0 .. n + 1 |-> h[k]]
    OBVIOUS
  <2> HIDE DEF h
  <2>5. \A k \in 1 .. n + 1 : Step(h, k) = Step(g, k)
    <3> TAKE k \in 1 .. n + 1
    <3>1. k - 1 \in 0 .. n
      OBVIOUS
    <3> QED BY <2>2, <3>1 DEF MergeStep
  <2>6. \A k \in 0 .. n : g[k] = IF k = 0 THEN NoArea ELSE Step(g, k)
    BY <2>1
  <2> HIDE DEF Step
  <2>7. \A k \in 0 .. n + 1 : h[k] = IF k = 0 THEN NoArea ELSE Step(h, k)
    <3> TAKE k \in 0 .. n + 1
    <3>1. CASE k = n + 1
      BY <2>3, <2>5, <3>1
    <3>2. CASE k # n + 1
      <4>1. k \in 0 .. n /\ (k # 0 => k \in 1 .. n + 1)
        BY <3>2
      <4> QED BY <2>2, <2>5, <2>6, <4>1
    <3> QED BY <3>1, <3>2
  <2>8. MergedTo(n + 1, h)
    BY <2>4, <2>7
  <2> HIDE DEF MergedTo
  <2> QED BY <2>8
<1>3. N \in T
  <2>1. Nat \subseteq T
    <3> HIDE DEF T
    <3> QED BY <1>1, <1>2, SetInduction
  <2> HIDE DEF T
  <2> QED BY <2>1
<1> DEFINE f == CHOOSE g : MergedTo(N, g)
<1>4. MergedTo(N, f)
  <2> HIDE DEF MergedTo
  <2> QED BY <1>3
<1>5. Merged(known) = f[N].merged
  BY DEF Merged, MergeStep
<1> HIDE DEF f
<1>6. f[0] = NoArea /\ \A n \in Nat : n <= L => f[n + 1] = Step(f, n + 1)
  <2>1. \A k \in 0 .. N : f[k] = IF k = 0 THEN NoArea ELSE Step(f, k)
    BY <1>4
  <2> HIDE DEF Step, MergedTo
  <2>2. ASSUME NEW n \in Nat, n <= L PROVE n + 1 # 0 /\ n + 1 \in 0 .. N
    BY <2>2
  <2>3. 0 \in 0 .. N
    OBVIOUS
  <2> QED BY <2>1, <2>2, <2>3
<1> HIDE DEF MergedTo, Step
<1> QED BY <1>5, <1>6 DEF Step, N

(* What get_inputs and get_outputs do to a dictionary, whatever is in it.    *)
MergesRight(known) ==
    /\ Covered(Merged(known)) = Covered(known)
    /\ \A a, b \in DOMAIN Merged(known) : a < b => a + Merged(known)[a] <= b

LEMMA Merges ==
    ASSUME NEW known, Dicts(known), FiniteDict(known)
    PROVE  MergesRight(known)
<1>1. CASE known = EmptyDict
  <2>1. Merged(known) = known /\ DOMAIN known = {}
    <3>1. Merged(known) = EmptyDict
      BY <1>1 DEF Merged
    <3> QED BY <1>1, <3>1 DEF EmptyDict
  <2> QED BY <2>1 DEF MergesRight
<1>2. CASE known # EmptyDict /\ DOMAIN known # {}
  <2> DEFINE L == Max(DOMAIN known)
             r == Merged(known)
  <2>1. /\ L \in Nat /\ L \in DOMAIN known
        /\ \A a \in DOMAIN known : a \in Nat /\ known[a] \in Nat /\ a <= L
    <3>1. PICK b \in Nat : DOMAIN known \subseteq 0 .. b
      BY DEF FiniteDict
    <3>2. Max(DOMAIN known) \in DOMAIN known /\ \A y \in DOMAIN known : Max(DOMAIN known) >= y
      BY <1>2, <3>1, MaxOf
    <3> QED BY <3>2 DEF Dicts
  <2>2. PICK f : /\ f[0] = NoArea /\ r = f[L + 1].merged
                 /\ \A n \in Nat : n <= L => f[n + 1] = MergeStep(known, f, n + 1)
    BY <1>2, <2>1, MergeSteps
  <2> HIDE DEF L, r
  <2> DEFINE T == {n \in Nat : n <= L + 1 => AreasTo(known, f[n], n)}
  <2>3. 0 \in T
    <3>1. DOMAIN EmptyDict = {} /\ NoArea.merged = EmptyDict /\ NoArea.watermark = 0
          /\ NoArea \in [merged : {NoArea.merged}, entry : Nat, watermark : Nat]
      BY DEF NoArea, EmptyDict
    <3>2. \A x \in Nat : ~InArea(known, 0, x)
      BY <2>1 DEF InArea
    <3>3. AreasTo(known, NoArea, 0)
      BY <3>1, <3>2 DEF AreasTo, InArea
    <3> QED BY <2>2, <3>3
  <2>4. ASSUME NEW n \in Nat, n \in T PROVE n + 1 \in T
    <3> SUFFICES ASSUME n + 1 <= L + 1 PROVE AreasTo(known, f[n + 1], n + 1)
      OBVIOUS
    <3>1. /\ AreasTo(known, f[n], n) /\ f[n].watermark \in Nat
          /\ f[n + 1] = IF n \in DOMAIN known THEN MergeInto(known, f[n], n) ELSE f[n]
      <4>1. n <= L /\ n <= L + 1 /\ (n + 1) - 1 = n
        BY <2>1
      <4>2. f[n + 1] = MergeStep(known, f, n + 1)
        BY <2>2, <4>1
      <4> QED BY <2>4, <4>1, <4>2 DEF MergeStep, AreasTo
    <3>2. CASE n \in DOMAIN known /\ n >= f[n].watermark
      BY <3>1, <3>2, AreaIsNew
    <3>3. CASE n \in DOMAIN known /\ ~(n >= f[n].watermark) /\ n + known[n] > f[n].watermark
      BY <3>1, <3>3, AreaGrows
    <3>4. CASE n \in DOMAIN known => ~(n >= f[n].watermark) /\ ~(n + known[n] > f[n].watermark)
      <4>1. f[n + 1] = f[n]
        BY <3>1, <3>4 DEF MergeInto
      <4>2. n \in DOMAIN known => n < f[n].watermark /\ n + known[n] <= f[n].watermark
        BY <2>1, <3>1, <3>4
      <4> QED BY <3>1, <4>1, <4>2, AreaIsThere
    <3> QED BY <3>2, <3>3, <3>4
  <2>5. AreasTo(known, f[L + 1], L + 1)
    <3>1. Nat \subseteq T
      <4> HIDE DEF T
      <4> QED BY <2>3, <2>4, SetInduction
    <3>2. L + 1 \in T
      <4> HIDE DEF T
      <4> QED BY <2>1, <3>1
    <3> QED BY <2>1, <3>2
  <2>6. /\ \A a, b \in DOMAIN r : a < b => a + r[a] <= b
        /\ \A a \in DOMAIN r : a \in Nat /\ a < L + 1 /\ r[a] \in Nat
        /\ \A x \in Nat : InArea(r, L + 1, x) <=> InArea(known, L + 1, x)
    BY <2>2, <2>5 DEF AreasTo
  <2>7. ASSUME NEW d, \A a \in DOMAIN d : a \in Nat /\ a < L + 1 /\ d[a] \in Nat
        PROVE  Covered(d) = {x \in Nat : InArea(d, L + 1, x)}
    <3>1. ASSUME NEW x \in Covered(d) PROVE x \in Nat /\ InArea(d, L + 1, x)
      <4>1. PICK a \in DOMAIN d : x \in Span(a, d[a])
        BY <3>1 DEF Covered
      <4>2. x \in Nat /\ a <= x /\ x < a + d[a]
        BY <2>7, <4>1 DEF Span
      <4> QED BY <2>7, <4>2 DEF InArea
    <3>2. ASSUME NEW x \in Nat, InArea(d, L + 1, x) PROVE x \in Covered(d)
      <4>1. PICK a \in DOMAIN d : a <= x /\ x < a + d[a]
        BY <3>2 DEF InArea
      <4>2. x \in Span(a, d[a])
        BY <2>7, <4>1 DEF Span
      <4> QED BY <4>2 DEF Covered
    <3> QED BY <3>1, <3>2
  <2>8. \A a \in DOMAIN known : a \in Nat /\ a < L + 1 /\ known[a] \in Nat
    BY <2>1
  <2>9. Covered(r) = Covered(known)
    BY <2>6, <2>7, <2>8
  <2> QED BY <2>6, <2>9 DEF MergesRight, r
<1>3. CASE DOMAIN known = {} /\ known # EmptyDict
  BY <1>3 DEF FiniteDict, EmptyDict
<1> QED BY <1>1, <1>2, <1>3

(* The areas that get_inputs and get_outputs report are apart and cover      *)
(* exactly what has been noted, in whatever order, overlap and number.       *)
THEOREM AreasMerged == Spec => []MergedAreas
<1>1. Init => FinitePolicy(policy) /\ NotedWritten
  BY NotedInit
<1>2. PolicyInv /\ FinitePolicy(policy) /\ NotedWritten /\ [Next]_vars
         => FinitePolicy(policy)' /\ NotedWritten'
  BY NotedStep
<1>3. PolicyInv /\ FinitePolicy(policy) => MergedAreas
  <2> SUFFICES ASSUME PolicyInv, FinitePolicy(policy) PROVE MergedAreas
    OBVIOUS
  <2>1. /\ Dicts(policy.known_inputs) /\ Dicts(policy.known_outputs)
        /\ FiniteDict(policy.known_inputs) /\ FiniteDict(policy.known_outputs)
    BY DEF PolicyInv, TypeOK, PolicyOK, FinitePolicy
  <2>2. MergesRight(policy.known_inputs) /\ MergesRight(policy.known_outputs)
    BY <2>1, Merges
  <2> QED BY <2>2 DEF MergesRight, MergedAreas
<1> QED BY <1>1, <1>2, <1>3, PolicyInvariant, PTL DEF Spec

(* So get_outputs reports nothing that the program has not written. *)
THEOREM ReportsStored == Spec => []OutputsWritten
<1>1. NotedWritten /\ MergedAreas => OutputsWritten
  BY DEF NotedWritten, MergedAreas, OutputsWritten, get_outputs
<1> QED BY <1>1, OutputsNoted, AreasMerged, PTL
==============================================================================
