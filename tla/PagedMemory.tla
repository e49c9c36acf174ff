----------------------------- MODULE PagedMemory -----------------------------
(***************************************************************************)
(* Memory of microx/__init__.py: a page table from page numbers to memory  *)
(* maps, and loads, stores and permissions on top of it.                   *)
(*                                                                         *)
(* A map is a record of its range, its flags, its bytes and what its       *)
(* policy has noted of them. maps holds the map objects in the order of    *)
(* their creation and table names them by their position; 0 is the         *)
(* MemoryMap that the defaultdict makes up for a page without a map, on    *)
(* which everything is forbidden. The key that a lookup leaves behind      *)
(* there is not kept: find_hole runs before the first of them.             *)
(***************************************************************************)
EXTENDS Integers, Sequences, FiniteSets, SequencesExt

CONSTANTS
    PageSize,
    NumPages,           \* of the address space
    MinPage, MaxPage    \* MIN_ADDR and MAX_ADDR of find_hole

ASSUME SizesAssumption == {PageSize, NumPages} \subseteq Nat \ {0}
ASSUME PagesAssumption == MinPage \in Nat /\ MaxPage \in 0 .. NumPages - 1

VARIABLES maps, table

Flags == {"R", "W", "X"}
Pages == 0 .. NumPages - 1
AddressSpace == PageSize * NumPages
Span(addr, size) == addr .. addr + size - 1

NewMap(name, base, limit, flags) ==
    [name |-> name, base |-> base, limit |-> limit, flags |-> flags,
     data |-> [k \in 1 .. limit - base |-> 0],
     watched |-> FALSE, read |-> {}, written |-> {}]

------------------------------------------------------------------------------
(* The page number is masked to the address size, the address is not.       *)
_find_map(addr) == table[(addr % AddressSpace) \div PageSize]

(* _can_do_op without its bounds: the page's map decides. *)
_can_do_op_AnyAddress(op, i, addr) == op \in maps[i].flags

_can_do_op(op, i, addr) == op \in maps[i].flags /\ addr \in maps[i].base .. maps[i].limit - 1

can_do(op, addr) == _find_map(addr) # 0 /\ _can_do_op(op, _find_map(addr), addr)

_crosses_pages(addr, size) == \E k \in 1 .. size - 1 : _find_map(addr + k) # _find_map(addr)

(* A load or store goes to the map as a whole when it has a unit for it,    *)
(* and byte by byte otherwise.                                              *)
Accesses(addr, size) ==
    IF size \in {1, 2, 4, 8} /\ ~_crosses_pages(addr, size)
    THEN <<[addr |-> addr, size |-> size]>>
    ELSE [k \in 1 .. size |-> [addr |-> addr + k - 1, size |-> 1]]

(* self._data[offset : offset + size], which may be shorter than asked.     *)
Slice(m, addr, size) ==
    SubSeq(m.data, addr - m.base + 1, Min({addr - m.base + size, Len(m.data)}))

(* self._data[offset + k] = bytes[k], for one byte after the other. *)
Overwritten(m, addr, bytes) ==
    [m EXCEPT !.data = [k \in DOMAIN m.data |->
        IF m.base + k - 1 \in Span(addr, Len(bytes)) THEN bytes[m.base + k - addr] ELSE m.data[k]]]

add_map(m) ==
    /\ maps' = Append(maps, m)
    /\ table' = [p \in Pages |->
                   IF p * PageSize \in m.base .. m.limit - 1 THEN Len(maps) + 1 ELSE table[p]]

(* The maps that no later one has replaced everywhere. *)
find_maps_by_name(name) ==
    {i \in DOMAIN maps : maps[i].name = name /\ \E p \in Pages : table[p] = i}

------------------------------------------------------------------------------
(* The hole of find_hole, as a set of one page or none. The test of the     *)
(* loop asks for lowest - addr, with lowest below addr.                     *)
find_hole(size) ==
    LET hole == Max({size \div PageSize, 1})
        mm == {p \in Pages : table[p] # 0}
        Lowest(p) == IF \E q \in mm : q < p THEN Max({q \in mm : q < p}) ELSE MinPage
        holes == {p \in mm : p > Lowest(p) /\ Lowest(p) - p > hole}
        last == Max(mm)
    IN  IF holes # {} THEN {Lowest(Min(holes))}
        ELSE IF mm # {} /\ last < MaxPage /\ MaxPage - last > hole THEN {last} ELSE {}

(* The permissions that Process.read_memory asks for, by the hint.          *)
Checks == [read |-> {"R"}, write |-> {"W"}, rw |-> {"R", "W"}]

(* MEM_WRITE_HINTS without MEM_HINT_WRITE_ONLY. *)
Permitted_WriteOnly(addr, size, hint) ==
    hint # "write" => \A a \in Span(addr, size) : \A op \in Checks[hint] : can_do(op, a)

Permitted(addr, size, hint) ==
    \A a \in Span(addr, size) : \A op \in Checks[hint] : can_do(op, a)
==============================================================================
