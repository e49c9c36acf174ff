--------------------------- MODULE MCPolicyMemory ----------------------------
(* An address space of eight pages of four bytes, pointers of two bytes and  *)
(* an input space of two pages. A byte is a digit of base 16.                *)
EXTENDS PolicyMemory

Section(name, start, size, flags, content) ==
    [name |-> name, start |-> start, size |-> size, flags |-> flags, content |-> content]
Text(content) == Section(".text", 0, Len(content), {"R", "X"}, content)
Stack(start, size) == Section("[stack]", start, size, {"R", "W"}, <<>>)

(* The stack is the highest section, and the input space begins in it.       *)
HighStack == [sp |-> 8,
    sections |-> <<Text(<<3, 4>>), Section(".rodata", 2, 2, {"R"}, <<5, 6>>), Stack(8, 8)>>]

(* The stack is below the data, and the input space begins in the data.      *)
LowStack == [sp |-> 5,
    sections |-> <<Stack(4, 8), Text(<<3, 4, 5>>), Section(".data", 16, 3, {"R", "W"}, <<5, 6, 7>>)>>]

(* An input space of the user's own, and a section in the last page.         *)
OwnInputSpace == [sp |-> 8,
    sections |-> <<Text(<<3, 4>>), Stack(8, 4), Section("[input_space]", 12, 4, {"R", "W"}, <<>>),
                   Section(".data", 30, 2, {"R", "W"}, <<5, 6>>)>>]

(* A stack of two pages that begins where an input space of the user's own   *)
(* ends.                                                                     *)
InputBelowStack == [sp |-> 14,
    sections |-> <<Text(<<3>>), Section("[input_space]", 8, 4, {"R", "W"}, <<>>), Stack(12, 8)>>]

(* No room for the input space above the last section. *)
NoHole == [sp |-> 8, sections |-> <<Stack(8, 4), Section(".data", 28, 1, {"R"}, <<5>>)>>]

(* Sections of two and of three pages, and a stack pointer at its limit. *)
TwoPages == [sp |-> 14, sections |-> <<Text(<<1, 2, 3, 4, 5, 6>>), Stack(8, 8)>>]
ThreePages == [sp |-> 12, sections |-> <<Text(<<1, 2, 3, 4, 5, 6, 7, 8, 9>>), Stack(12, 4)>>]

(* A stack of one page, all of which the input space takes. *)
OnePageStack == [sp |-> 8, sections |-> <<Text(<<3>>), Stack(8, 4)>>]

(* An empty section that does not begin with a page and maps that page.      *)
EmptySection == [sp |-> 20,
    sections |-> <<Section(".rodata", 9, 0, {"R"}, <<>>), Section(".data", 12, 4, {"R", "W"}, <<7>>),
                   Section(".data", 10, 1, {"R"}, <<5>>), Stack(20, 4)>>]

MCLayouts == {HighStack, LowStack, OwnInputSpace, InputBelowStack, NoHole, TwoPages, ThreePages,
              OnePageStack, EmptySection}
==============================================================================
