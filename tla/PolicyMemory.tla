----------------------------- MODULE PolicyMemory ----------------------------
(***************************************************************************)
(* A godefroid process: the memory that create_memory_from_sections loads  *)
(* (godefroid.py), the input space that GodefroidProcess adds to it, and   *)
(* the policy (policies.py, policy_map.py) that invents a value for every  *)
(* input the program reads and keeps account of inputs and outputs.        *)
(*                                                                         *)
(* The executor is reduced to the callbacks of one memory operand at a     *)
(* time, in its order: compute_address, read_memory and, for an operand    *)
(* that is written, write_memory. A byte is a digit of base ByteSize.      *)
(***************************************************************************)
EXTENDS PagedMemory

CONSTANTS
    Layouts,            \* the binaries: their sections and the initial stack pointer
    OtherNames,         \* of their sections
    InputSpaceSize,     \* INPUT_SPACE_SIZE
    PointerIncrement,   \* POINTER_INCREMENT
    AddressBytes, ByteSize,
    StoredBytes,        \* the bytes that the program stores
    RandomBytes,        \* the ones that generate_random returns
    Addresses, Sizes,   \* the operands of the program
    MaxAccesses         \* bound on their number

Bytes == 0 .. ByteSize - 1
Names == {"[stack]", "[input_space]"} \cup OtherNames
Sections == [name : Names, start : Nat, size : Nat, flags : SUBSET Flags, content : Seq(Bytes)]

ASSUME PolicyAssumption ==
    /\ {InputSpaceSize, PointerIncrement, AddressBytes, ByteSize} \subseteq Nat \ {0}
    /\ StoredBytes \cup RandomBytes \subseteq Bytes
    /\ Sizes \subseteq Nat \ {0} /\ Addresses \subseteq Nat /\ MaxAccesses \in Nat

(* A section is in the address space, a stack is not empty, and an input    *)
(* space of the user's own can be used as one.                              *)
ASSUME LayoutAssumption ==
    \A l \in Layouts :
       /\ l \in [sections : Seq(Sections), sp : Nat]
       /\ \A k \in DOMAIN l.sections :
             LET s == l.sections[k]
             IN  /\ s.start + s.size <= AddressSpace
                 /\ s.name = "[stack]" => s.size > 0
                 /\ s.name = "[input_space]" => {"R", "W"} \subseteq s.flags

VARIABLES
    stage,      \* "loading", "idle", "read", "loaded" or "stopped"
    layout, todo,
    mem_map,    \* the local of create_memory_from_sections, 0 for None
    policy,     \* the InputMemoryPolicy of the process
    op,         \* the memory operand in work, the size of the last one before
    seen,       \* what the program has last stored or been shown at an address
    stored,     \* the addresses it has stored to
    kept,       \* the ones of them stored to by an access within the policy's range
    accesses    \* how many operands there have been

vars == <<maps, table, stage, layout, todo, mem_map, policy, op, seen, stored, kept, accesses>>
ghosts == <<seen, stored, kept>>

EmptyDict == [a \in {} |-> 0]
Set(dict, k, v) == [a \in DOMAIN dict \cup {k} |-> IF a = k THEN v ELSE dict[a]]

NewPolicy(start, end, pointers_start, pointers_end) ==
    [start |-> start, end |-> end,
     pointers_start |-> pointers_start, pointers_end |-> pointers_end,
     pointer_watermark |-> pointers_start, pointer_map |-> EmptyDict,
     known_inputs |-> EmptyDict, known_outputs |-> EmptyDict]

NoOp == [addr |-> 0, size |-> 0, hint |-> "read", result |-> <<>>]

Init ==
    /\ layout \in Layouts /\ todo = layout.sections
    /\ maps = <<>> /\ table = [p \in Pages |-> 0] /\ mem_map = 0
    /\ stage = "loading"
    /\ policy = NewPolicy(0, 0, 0, 0)
    /\ op = NoOp
    /\ seen = EmptyDict /\ stored = {} /\ kept = {} /\ accesses = 0

------------------------------------------------------------------------------
(* create_memory_from_sections, one section at a time. *)

PageStart(s) == (s.start \div PageSize) * PageSize
PageEnd(s) == ((s.start + s.size + PageSize - 1) \div PageSize) * PageSize

(* The pages of a section, one for an empty section within a page, and the  *)
(* ones of them that get a map of their own: those that cannot be read yet. *)
PagesOf(s) == {p \in Pages : p * PageSize \in PageStart(s) .. PageEnd(s) - 1}
PagesToMap(s) == {p \in PagesOf(s) : ~can_do("R", p * PageSize)}

(* The maps that a section makes: one for a stack, and one for each of the  *)
(* pages, in their order, for any other.                                    *)
MapsMade(s) ==
    LET made[n \in 0 .. NumPages] ==
          IF n = 0 THEN <<>>
          ELSE IF n - 1 \in PagesToMap(s)
          THEN Append(made[n - 1], NewMap(s.name, (n - 1) * PageSize, n * PageSize, s.flags))
          ELSE made[n - 1]
    IN  IF s.name = "[stack]"
        THEN <<NewMap(s.name, PageStart(s), PageEnd(s), s.flags)>>
        ELSE made[NumPages]

(* store_bytes_raw that takes the section to begin where the map does. *)
Index_FromBase(m, start, k) == k - 1

(* store_bytes_raw through one map, with Python's negative indices.         *)
Index(m, start, k) == start + k - 1 - m.base
RawFits(m, start, bytes) ==
    \A k \in DOMAIN bytes : Index(m, start, k) \in -Len(m.data) .. Len(m.data) - 1
StoredRaw(m, start, bytes) ==
    [m EXCEPT !.data = [j \in DOMAIN m.data |->
        LET here == {k \in DOMAIN bytes : Index(m, start, k) % Len(m.data) = j - 1}
        IN  IF here = {} THEN m.data[j] ELSE bytes[Max(here)]]]

WithContent(mms, i, s) == [mms EXCEPT ![i] = StoredRaw(@, s.start, s.content)]

(* The last map that was made, for this section or for an earlier one.      *)
MapOfContent(mms) == IF Len(mms) > Len(maps) THEN Len(mms) ELSE mem_map

LoadSection ==
    /\ stage = "loading" /\ todo # <<>>
    /\ LET s == Head(todo)
           made == MapsMade(s)
           mms == maps \o made
           i == MapOfContent(mms)
       IN  /\ table' = [p \in Pages |->
                          IF \E k \in DOMAIN made : p * PageSize \in made[k].base .. made[k].limit - 1
                          THEN Len(maps) + CHOOSE k \in DOMAIN made :
                                             p * PageSize \in made[k].base .. made[k].limit - 1
                          ELSE table[p]]
           /\ mem_map' = i
           /\ IF s.content = <<>> \/ (i # 0 /\ RawFits(mms[i], s.start, s.content))
              THEN /\ maps' = IF s.content = <<>> THEN mms ELSE WithContent(mms, i, s)
                   /\ UNCHANGED stage
              ELSE maps' = mms /\ stage' = "stopped"
    /\ todo' = Tail(todo)
    /\ UNCHANGED <<layout, policy, op, ghosts, accesses>>

(* GodefroidProcess makes an input space, unless a section is one, in the   *)
(* hole that find_hole has found.                                           *)
MapInputSpace ==
    /\ stage = "loading" /\ todo = <<>>
    /\ IF find_maps_by_name("[input_space]") # {}
       THEN UNCHANGED <<maps, table>> /\ stage' = "attaching"
       ELSE \/ \E p \in find_hole(InputSpaceSize) :
                 /\ add_map(NewMap("[input_space]", p * PageSize,
                                   p * PageSize + InputSpaceSize, {"R", "W"}))
                 /\ stage' = "attaching"
            \/ /\ find_hole(InputSpaceSize) = {}
               /\ stage' = "stopped" /\ UNCHANGED <<maps, table>>
    /\ UNCHANGED <<layout, todo, mem_map, policy, op, ghosts, accesses>>

(* What a load of one byte that no policy looks at returns. *)
Peek(mms, addr) == LET m == mms[_find_map(addr)] IN m.data[addr - m.base + 1]
Mapped == {a \in 0 .. AddressSpace - 1 : _find_map(a) # 0}

(* The return address that make_new_process puts on the stack. *)
MagicReturn == [k \in 1 .. AddressBytes |-> ByteSize - 1]

(* The rest of GodefroidProcess.__init__ and of make_new_process.           *)
AttachPolicy ==
    /\ stage = "attaching"
    /\ LET stacks == find_maps_by_name("[stack]")
           inputs == find_maps_by_name("[input_space]")
           stack == maps[CHOOSE i \in stacks : TRUE]
           input == maps[CHOOSE i \in inputs : TRUE]
           function_stack_start == layout.sp + AddressBytes
       IN  IF Cardinality(stacks) = 1 /\ Cardinality(inputs) = 1
              /\ function_stack_start \in stack.base .. stack.limit - 1
           THEN /\ policy' = NewPolicy(function_stack_start, stack.limit, input.base, input.limit)
                /\ maps' = [i \in DOMAIN maps |->
                     LET m == [maps[i] EXCEPT !.watched = i \in stacks \cup inputs]
                     IN  IF i \in stacks THEN StoredRaw(m, layout.sp, MagicReturn) ELSE m]
                /\ seen' = [a \in Mapped |-> Peek(maps', a)]
                /\ stage' = "idle"
           ELSE stage' = "stopped" /\ UNCHANGED <<maps, policy, seen>>
    /\ UNCHANGED <<table, layout, todo, mem_map, op, stored, kept, accesses>>

------------------------------------------------------------------------------
(* InputMemoryPolicy. *)

(* handle_load and handle_store, whose bounds are inclusive. *)
handle(addr) == \/ addr \in policy.start .. policy.end
                \/ addr \in policy.pointers_start .. policy.pointers_end

(* ptr.to_bytes, the lowest digit first. *)
pointer_to_bytes(ptr) ==
    LET rest[k \in 0 .. AddressBytes] == IF k = 0 THEN ptr ELSE rest[k - 1] \div ByteSize
    IN  [k \in 1 .. AddressBytes |-> rest[k - 1] % ByteSize]

(* An assertion on the watermark that is off by one. *)
PointersLeft_Inclusive(pol) == pol.pointer_watermark <= pol.pointers_end

(* The assertions of generate_pointer. *)
PointersLeft(pol) == /\ pol.pointer_watermark + AddressBytes < pol.pointers_end
                     /\ pol.pointer_watermark + PointerIncrement < pol.pointers_end

(* generate_pointer that does not move the watermark. *)
GeneratedFor_Same(pol, addr) ==
    [pol EXCEPT !.pointer_map = Set(@, addr, pol.pointer_watermark),
                !.known_inputs = Set(@, addr, AddressBytes)]

GeneratedFor(pol, addr) ==
    [pol EXCEPT !.pointer_watermark = @ + PointerIncrement,
                !.pointer_map = Set(@, addr, pol.pointer_watermark),
                !.known_inputs = Set(@, addr, AddressBytes)]

(* A load or store in work: the maps and the policy so far, the bytes that  *)
(* have been read, and whether no assertion has failed.                     *)
Work == [maps |-> maps, policy |-> policy, bytes |-> <<>>, ok |-> TRUE]

Mark(w, i, field, addrs) == [w EXCEPT !.maps[i][field] = @ \cup addrs]

(* read_before_write: a pointer for an operand of the size of one, and      *)
(* random bytes v for any other.                                            *)
read_before_write(w, i, addr, size, v) ==
    IF size = AddressBytes
    THEN IF PointersLeft(w.policy)
         THEN [w EXCEPT !.maps[i] = Overwritten(@, addr, pointer_to_bytes(w.policy.pointer_watermark)),
                        !.policy = GeneratedFor(@, addr)]
         ELSE [w EXCEPT !.ok = FALSE]
    ELSE [w EXCEPT !.maps[i] = Overwritten(@, addr, [k \in 1 .. size |-> v]),
                   !.policy.known_inputs = Set(@, addr, size)]

(* _load_policy that invents a value whatever has been written. *)
_load_policy_Always(w, i, addr, size, v) ==
    IF ~w.maps[i].watched \/ ~handle(addr) THEN w
    ELSE Mark(read_before_write(w, i, addr, size, v), i, "read", Span(addr, size))

_load_policy(w, i, addr, size, v) ==
    IF ~w.maps[i].watched \/ ~handle(addr) THEN w
    ELSE Mark(IF Span(addr, size) \subseteq w.maps[i].written THEN w
              ELSE read_before_write(w, i, addr, size, v),
              i, "read", Span(addr, size))

(* _store_policy that notes a word for every store. *)
_store_policy_Word(w, i, addr, size) ==
    IF ~w.maps[i].watched \/ ~handle(addr) THEN w
    ELSE Mark([w EXCEPT !.policy.known_outputs = Set(@, addr, AddressBytes)],
              i, "written", Span(addr, size))

(* write_before_read and add_output note the same. Under the                *)
(* DefaultMemoryPolicy the marks of a store are never looked at.            *)
_store_policy(w, i, addr, size) ==
    IF ~w.maps[i].watched \/ ~handle(addr) THEN w
    ELSE Mark([w EXCEPT !.policy.known_outputs = Set(@, addr, size)],
              i, "written", Span(addr, size))

(* _load_unit and load_bytes. *)
LoadUnit(w, a, v) ==
    LET i == _find_map(a.addr)
        after == _load_policy(w, i, a.addr, a.size, v)
    IN  IF i = 0 \/ ~w.ok THEN [w EXCEPT !.ok = FALSE]
        ELSE [after EXCEPT !.bytes = @ \o Slice(after.maps[i], a.addr, a.size)]

(* _store_unit and store_bytes. *)
StoreUnit(w, a, v) ==
    LET i == _find_map(a.addr)
    IN  IF i = 0 THEN [w EXCEPT !.ok = FALSE]
        ELSE [_store_policy(w, i, a.addr, a.size)
                EXCEPT !.maps[i] = Overwritten(@, a.addr, [k \in 1 .. a.size |-> v])]

load(addr, size, v) ==
    LET as == Accesses(addr, size)
        after[k \in 0 .. Len(as)] ==
          IF k = 0 THEN Work ELSE LoadUnit(after[k - 1], as[k], v)
    IN  after[Len(as)]

store(addr, size, v) ==
    LET as == Accesses(addr, size)
        after[k \in 0 .. Len(as)] ==
          IF k = 0 THEN Work ELSE StoreUnit(after[k - 1], as[k], v)
    IN  after[Len(as)]

------------------------------------------------------------------------------
(* The callbacks. *)

Refuse == stage' = "stopped" /\ UNCHANGED <<maps, policy, op, ghosts>>

(* Is the address an input, and does the watermark move past it? *)
Bumped(addr) == /\ addr \notin DOMAIN policy.known_inputs
                /\ addr \in policy.pointers_start .. policy.pointers_end - 1
                /\ addr > policy.pointer_watermark
in_input_range(addr) == \/ addr \in DOMAIN policy.known_inputs
                        \/ addr \in policy.pointers_start .. policy.pointers_end - 1
                        \/ addr \in policy.start .. policy.end - 1

(* compute_address and handle_compute, for the operand at result. Executor  *)
(* passes the size that the last operand had and masks the address. derived *)
(* says that a part of the address is a known input itself.                 *)
compute_address(result, size, hint, derived) ==
    /\ stage = "idle" \/ (stage = "loaded" /\ op.hint = "read")
    /\ accesses < MaxAccesses /\ accesses' = accesses + 1
    /\ derived => DOMAIN policy.known_inputs \ {0} # {}
    /\ IF Bumped(result) /\ policy.pointer_watermark + PointerIncrement >= policy.pointers_end
       THEN Refuse
       ELSE /\ policy' = [policy EXCEPT
                 !.pointer_watermark = IF Bumped(result) THEN @ + PointerIncrement ELSE @,
                 !.known_inputs = IF in_input_range(result) \/ derived
                                  THEN Set(@, result, op.size) ELSE @]
            /\ op' = [addr |-> result % AddressSpace, size |-> size, hint |-> hint, result |-> <<>>]
            /\ stage' = IF hint = "agen" THEN "idle" ELSE "read"
            /\ UNCHANGED <<maps, ghosts>>
    /\ UNCHANGED <<table, layout, todo, mem_map>>

read_memory(v) ==
    /\ stage = "read"
    /\ LET w == load(op.addr, op.size, v)
       IN  IF Permitted(op.addr, op.size, op.hint) /\ w.ok
           THEN /\ maps' = w.maps /\ policy' = w.policy
                /\ op' = [op EXCEPT !.result = w.bytes]
                /\ seen' = [a \in DOMAIN seen |->
                              IF a \in Span(op.addr, Len(w.bytes)) THEN w.bytes[a - op.addr + 1]
                              ELSE seen[a]]
                /\ stage' = "loaded"
                /\ UNCHANGED <<stored, kept>>
           ELSE Refuse
    /\ UNCHANGED <<table, layout, todo, mem_map, accesses>>

(* Is the whole access within the range of the policy, or outside of it? *)
OneSided(addr, size) == \/ \A a \in Span(addr, size) : handle(a)
                        \/ \A a \in Span(addr, size) : ~handle(a)

write_memory(v) ==
    /\ stage = "loaded" /\ op.hint \in {"write", "rw"}
    /\ LET w == store(op.addr, op.size, v)
       IN  IF w.ok
           THEN /\ maps' = w.maps /\ policy' = w.policy
                /\ seen' = [a \in DOMAIN seen |-> IF a \in Span(op.addr, op.size) THEN v ELSE seen[a]]
                /\ stored' = stored \cup Span(op.addr, op.size)
                /\ kept' = IF OneSided(op.addr, op.size)
                           THEN kept \cup Span(op.addr, op.size) ELSE kept
                /\ stage' = "idle" /\ UNCHANGED op
           ELSE Refuse
    /\ UNCHANGED <<table, layout, todo, mem_map, accesses>>

Next ==
    \/ LoadSection \/ MapInputSpace \/ AttachPolicy
    \/ \E result \in Addresses, size \in Sizes, hint \in {"read", "write", "rw", "agen"},
          derived \in BOOLEAN : compute_address(result, size, hint, derived)
    \/ \E v \in RandomBytes : read_memory(v)
    \/ \E v \in StoredBytes : write_memory(v)

Spec == Init /\ [][Next]_vars

------------------------------------------------------------------------------
(* get_outputs and get_inputs. *)

(* The merge of overlapping areas that forgets to move its watermark.       *)
MergeInto_Unmoved(known, acc, addr) ==
    IF addr >= acc.watermark
    THEN [merged |-> Set(acc.merged, addr, known[addr]), entry |-> addr,
          watermark |-> addr + known[addr]]
    ELSE IF addr + known[addr] > acc.watermark
    THEN [acc EXCEPT !.merged = Set(@, acc.entry, addr + known[addr] - acc.entry)]
    ELSE acc

(* The next area in the order of the addresses: a new one, one that extends *)
(* the area before, or one that is part of it.                              *)
MergeInto(known, acc, addr) ==
    IF addr >= acc.watermark
    THEN [merged |-> Set(acc.merged, addr, known[addr]), entry |-> addr,
          watermark |-> addr + known[addr]]
    ELSE IF addr + known[addr] > acc.watermark
    THEN [acc EXCEPT !.merged = Set(@, acc.entry, addr + known[addr] - acc.entry),
                     !.watermark = addr + known[addr]]
    ELSE acc

(* The loop over the addresses, in their order: what has been merged of the *)
(* ones below n. The first of them makes a new area like any other.         *)
NoArea == [merged |-> EmptyDict, entry |-> 0, watermark |-> 0]
Merged(known) ==
    LET last == Max(DOMAIN known)
        below[n \in 0 .. last + 1] ==
          IF n = 0 THEN NoArea
          ELSE IF n - 1 \in DOMAIN known THEN MergeInto(known, below[n - 1], n - 1)
          ELSE below[n - 1]
    IN  IF known = EmptyDict THEN EmptyDict ELSE below[last + 1].merged

get_outputs == Merged(policy.known_outputs)
get_inputs == Merged(policy.known_inputs)

------------------------------------------------------------------------------
Dicts(dict) == DOMAIN dict \subseteq Nat /\ \A a \in DOMAIN dict : dict[a] \in Nat

MemoryMap == [name : Names, base : Nat, limit : Nat, flags : SUBSET Flags, data : Seq(Bytes),
              watched : BOOLEAN, read : SUBSET Nat, written : SUBSET Nat]
MapOK(m) ==
    /\ m \in MemoryMap /\ m.base < m.limit /\ m.limit <= AddressSpace
    /\ Len(m.data) = m.limit - m.base
    /\ m.read \cup m.written \subseteq m.base .. m.limit - 1

PolicyOK(pol) ==
    /\ pol \in [start : Nat, end : Nat, pointers_start : Nat, pointers_end : Nat,
                pointer_watermark : Nat, pointer_map : {pol.pointer_map},
                known_inputs : {pol.known_inputs}, known_outputs : {pol.known_outputs}]
    /\ Dicts(pol.pointer_map) /\ Dicts(pol.known_inputs) /\ Dicts(pol.known_outputs)
    /\ pol.pointer_watermark \in pol.pointers_start .. pol.pointers_end

Operand == [addr : 0 .. AddressSpace - 1, size : Nat, hint : {"read", "write", "rw", "agen"},
            result : Seq(Bytes)]

TypeOK ==
    /\ stage \in {"loading", "attaching", "idle", "read", "loaded", "stopped"}
    /\ layout \in Layouts /\ mem_map \in 0 .. Len(maps)
    /\ table \in [Pages -> 0 .. Len(maps)]
    /\ maps \in Seq(MemoryMap) /\ \A i \in DOMAIN maps : MapOK(maps[i])
    /\ PolicyOK(policy)
    /\ op \in Operand
    /\ kept \subseteq stored /\ stored \subseteq DOMAIN seen
    /\ accesses \in 0 .. MaxAccesses

(* How many sections have been loaded, and is p the last page of the        *)
(* section of the given number and on no page of an earlier one?            *)
loaded == Len(layout.sections) - Len(todo)
LastPage(p, n) == p \in PagesOf(layout.sections[n]) /\ \A q \in PagesOf(layout.sections[n]) : q <= p
FirstOn(p, n) == \A m \in 1 .. n - 1 : p \notin PagesOf(layout.sections[m])

(* A section within one page, which it shares at most with the end of the   *)
(* section before it, is in memory when it has been loaded. (One of several *)
(* pages is not: all its content goes through the map of the last one. Nor  *)
(* is one on a page that the last section but one has mapped, be it empty.) *)
SectionsInPlace ==
    stage = "loading" /\ loaded > 0 =>
       LET s == layout.sections[loaded]
       IN  (\E p \in Pages : /\ PagesOf(s) = {p}
                             /\ FirstOn(p, loaded)
                                  \/ (LastPage(p, loaded - 1) /\ FirstOn(p, loaded - 1)))
           => \A k \in DOMAIN s.content : Peek(maps, s.start + k - 1) = s.content[k]

(* read_memory returns as many bytes as it was asked for, also at the end   *)
(* of a map, across maps and at the end of the address space, where the     *)
(* page number wraps around and the address does not.                       *)
WholeReads == stage = "loaded" => Len(op.result) = op.size

(* A load shows the program what it has stored: bytes that it has written,  *)
(* and bytes that the policy has no say in, read as they were, whatever the *)
(* policy has made up around them in the meantime and whichever maps they   *)
(* are in. Left out are the bytes of a store that begins outside the range  *)
(* of the policy and ends in it, which goes unnoticed, and loads that begin *)
(* in it and end outside: there is one such byte, at the inclusive end of   *)
(* an input space, when the stack is the next map.                          *)
ReadsOwnWrites ==
    [][stage = "read" /\ stage' = "loaded"
         /\ (handle(op.addr) => \A a \in Span(op.addr, op.size) : handle(a))
         /\ (\A a \in Span(op.addr, op.size) : a \in kept \/ ~maps[_find_map(a)].watched \/ ~handle(a))
       => op'.result = [k \in 1 .. op.size |-> seen[op.addr + k - 1]]]_vars

(* write_memory asks for no permission: it relies on the read_memory before *)
(* it. It changes bytes of its operand only, in the maps that have them,    *)
(* and only where the program may write.                                    *)
StoresPermitted ==
    [][stage = "loaded" /\ stage' = "idle"
       => \A i \in DOMAIN maps : \A k \in DOMAIN maps[i].data :
             LET a == maps[i].base + k - 1
             IN  maps'[i].data[k] # maps[i].data[k] =>
                    a \in Span(op.addr, op.size) /\ _find_map(a) = i /\ "W" \in maps[i].flags]_vars

(* The pointers that the program has been given point to areas of their own *)
(* in the input space, where a whole pointer can be read and written,       *)
(* although computed addresses move the watermark, too.                     *)
FreshPointers ==
    LET ptrs == policy.pointer_map
    IN  /\ \A a, b \in DOMAIN ptrs :
              a # b => ptrs[a] - ptrs[b] \notin 1 - PointerIncrement .. PointerIncrement - 1
        /\ \A a \in DOMAIN ptrs : /\ Permitted(ptrs[a], AddressBytes, "rw")
                                  /\ ~_crosses_pages(ptrs[a], AddressBytes)

Covered(dict) == UNION {Span(a, dict[a]) : a \in DOMAIN dict}

(* The areas that get_inputs and get_outputs report are disjoint and cover  *)
(* exactly what has been noted, in whatever order and overlap.              *)
MergedAreas ==
    \A known \in {policy.known_inputs, policy.known_outputs} :
       LET areas == Merged(known)
       IN  /\ Covered(areas) = Covered(known)
           /\ \A a, b \in DOMAIN areas : a < b => a + areas[a] <= b

(* What is reported as an output has been written by the program. *)
OutputsWritten == Covered(get_outputs) \subseteq stored

(* "Finds a hole of size `hole_size` between current mappings": the input   *)
(* space takes no page from another map.                                    *)
InputSpaceIsFree ==
    \A i, j \in DOMAIN maps :
       i # j /\ maps[i].name = "[input_space]" =>
          (maps[i].base .. maps[i].limit - 1) \cap (maps[j].base .. maps[j].limit - 1) = {}
==============================================================================
