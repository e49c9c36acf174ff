# microx: a TLA+ model

microx executes one x86 or x86-64 instruction at a time on a machine state that
its user keeps: it asks for the registers, flags, memory and FPU state the
instruction needs through callbacks, runs the instruction, and reports the
changes through other callbacks. This directory models the executor, states what
makes it correct, model-checks that with TLC on small instances, and proves most
of it with TLAPS for every instance.

## The system

| Component | State | Operations | Interaction |
|---|---|---|---|
| `Executor::Execute`, `Executor::Init` (`microx/Executor.cpp`) | process-wide globals: `gUsedRegs`, `gModifiedRegs`, `gStoreRegs`, `gRegs`, `gStackPtrAlias`, `gWriteBackFlags`, `gMemory`, `gFPU`, `gNativeFPU`, `gSignal`, `gRecoveryTarget`, the saved signal handlers, `gExecutorLock` | one loop of some twenty stages that read, run and write back an instruction | calls the client's virtual `ReadReg`, `WriteReg`, `ReadMem`, `WriteMem`, `ReadFPU`, `WriteFPU`, `ComputeAddress`; replaces the signal handlers of the process and the FPU state of the thread |
| `Emulate` (same file) | works on the globals | branches, calls, stack, string and segment instructions, the flags of a subtraction | called by `Execute`; decides whether the JIT runs the instruction |
| JIT (`EncodeInstruction`, `ExecuteNative`) | `gExecArea`, `gEmu` | re-encodes the instruction with XED and runs it with the client's registers loaded | may raise a signal, recovered by `siglongjmp` |
| Python binding (`microx/Python.cpp`) | `has_error`, `error` of each executor | turns the callbacks into Python calls and statuses into exceptions | holds the GIL throughout |
| Python memory and process (`microx/__init__.py`) | page table of memory maps, thread registers | `load`, `store`, `add_map`, `find_hole`, permissions by hint, `Process.execute` | implements the callbacks |
| godefroid (`godefroid/`) | marks of the bytes read and written, inputs and outputs noted so far, pointers generated | loads sections, adds an input space, invents values on first reads, reports inputs and outputs | a client of the Python process; its policy sits between `Memory` and the bytes |

What is hard here: every client and every thread shares one set of globals that
nobody clears; each of the callbacks may fail, and `Execute` then returns from
wherever it is; a fault in the JITed instruction leaves it by a long jump; the
results are written back piecewise; a REP instruction is spread over many calls;
the address of a stack slot and the movement of the stack pointer are computed
in two different functions. In the Python layers, the failure of a callback is
remembered in two places (the thread's pending exception and `has_error`), two
locks are taken in opposite orders, maps may replace pages of one another, and
the policy must tell what it has made up from what the program has stored.
`hazards` in `PROJECT.json` lists these with their
lines.

## Modules

| Module | Models |
|---|---|
| `Instruction` | what XED tells of an instruction, the client's machine state, and `ISA`, the reference: what one execution must leave |
| `Executor` | `Init` and `Execute`, stage by stage, for any threads and clients; EXTENDS `Instruction` |
| `AtomicExecutor` | abstract specification: each client's machine goes through whole instructions, and at most a torn one |
| `ExecutorRefinement` | the refinement mapping from `Executor` to `AtomicExecutor` |
| `ExecutorSignals` | `Executor` with a fault of the FXRSTOR in `LoadFPU`; EXTENDS `Executor` |
| `ExecutorProofs` | theorems about the control state of `Executor`: types, the lock, the host's state |
| `ExecutorValues` | the invariant of the data: what the globals hold at each stage, in terms of the client's machine |
| `ExecutorValueProofs` | the proof that it is one |
| `ExecutorRefinementProofs` | what follows from it: the effect of an instruction, atomicity, the refinement |
| `EmulateBranch` | `UpdateFlagsSub`, `ParityFlag`, the near branches, the LOOP family and XBEGIN |
| `EmulateBranchProofs` | theorems about `EmulateBranch` |
| `EmulateString` | the string instructions and the REP prefixes |
| `EmulateStringProofs` | theorems about `EmulateString` |
| `StackMachine` | abstract specification: an instruction set on a stack of units, without memory or stack pointer |
| `EmulateStack` | PUSH, POP, CALL, RET, PUSHF, POPF, segment pushes, LEA and segment moves on registers and memory; shown to implement `StackMachine` |
| `EmulateStackProofs` | the proof that it does |
| `PythonBinding` | `Executor_Execute`, the Python callbacks and their failures, exceptions, the GIL and `gExecutorLock` |
| `PythonBindingProofs` | theorems about `PythonBinding` and their proofs |
| `PagedMemory` | `Memory`: page table, maps, permissions, the split of accesses, `find_hole` |
| `PolicyMemory` | loading of sections, `GodefroidProcess`, `InputMemoryPolicy` and `PolicyMemoryMap`; EXTENDS `PagedMemory` |
| `PolicyMemoryProofs` | theorems about `PolicyMemory` |
| `MC...` | instances for TLC |

### Executor

Each stage of the loop body of `Execute` is an action of a thread `t`, in the
order of the code: `Lock`, `Begin` (the resets), `ReadPC`, `Fetch` (reading the
bytes, `DecodeInstruction`, `UsesUnsupportedFeatures`), `ReadFlags`,
`ReadRegisters`, `ReadFPU`, `ReadMemory`, `Emulate`, `Encode`,
`InstallHandlers`, `LoadFPU`, `SigSetJmp`, `ExecuteNative` or
`ExecuteNativeAVX`, `StoreFPU`, `RestoreHandlers`, `WriteMemory`, `WriteFPU`,
`WriteFlags`, `WriteRegisters`. `pc[t]` is the stage the thread is in, `call[t]`
the locals of its `Execute`. The globals keep their names; `gFlags` is
`gRegs[XED_REG_RFLAGS]` flag by flag. `user[e]` is the machine state that the
client of executor `e` keeps, `pre[t]` a copy of it from the beginning of the
current instruction, which only the properties use.

Every callback may fail. A stage that makes several callbacks fails at any of
them, and has then done what precedes it: `ReadRegisters` has marked and read the
registers it visited before, `ReadMemory` has filled the first operand,
`WriteMemory`, `WriteFlags` and `WriteRegisters` have written the locations that
come before the refused one. `Leave` is every `return`: the destructor of
`LockGuard` releases the lock.

What the instruction computes is a constant, `Sem`, a function of the operands
that the executor hands to it. `Effect` masks everything else, so a property
that holds says that the executor hands the right values to the instruction and
puts its results where they belong, for any instruction. A register that
`ExecuteNative` does not exchange holds a host value; flags that are not asked for
hold what `PUSHFQ` found.

Abstractions: words are the widest registers, and sub-registers, operand widths,
BT offsets, address masks and segment bases are part of `Address` and `Sem`; the
fetch loop is one step; the request to the XED encoder is not modelled beyond the
stack pointer alias and its failure; after a fault the exchanged registers hold
host values (the code leaves the XMM registers as they were; either way they are
not reported). When no alias is free the code goes on with an invalid register and
the encoder refuses it; the model returns `kErrorExecute` at once. The Windows
branch of the code is not modelled.

`ExecutorRefinement` hides all of this from the client. The abstract machine of a
client is `user[e]`, except while a thread is in the middle of the write-back for
`e` (`writefpu`, `writeflags`, `writeregs`), when it is `pre[t]`, the state from
before the instruction: the write-back takes effect at its last callback, as
`Retire`, or at the one that is refused, as `Tear`. All other steps are
stutters.

### Emulate

`EmulateBranch` runs a comparison, by the processor or by Emulate (SCAS, CMPS),
and then a branch. `UpdateFlagsSub` shifts by `1 << (size - 1)`, which C++ leaves
undefined; the model takes what the x86 shift instruction makes of it, the count
modulo 64. That is why the run compares bytes at their true width.

`EmulateString` runs a string instruction, one iteration per call of `Execute`.
Memory is made of bytes with addresses that wrap, on pages that may be missing; a
call that touches a missing page returns `kErrorReadMem` and changes nothing, as
`Executor` shows (`FailureAtomic`). The reference, `Whole`, describes the
instruction without iterating (except for overlapping MOVS, a recursive function).

`EmulateStack` works on words of `WordUnits` 16-bit units. `Displaced` and
`PoppedTo` are the corrections that `ReadMemory` makes to the address of the stack
operand, the actions are the cases of `Emulate`. `Promise` is the refinement
mapping: the abstract stack is what memory holds from the stack pointer up to the
base. Programs stay within their stack (`Room`, `Holds`).

`ReadMemory` displaces the slot of every push by the operand size. For general
registers, immediates and memory operands `Emulate` moves the stack pointer by the
operand size, too; for segment registers, PUSHF, CALL and RET it moves it by the
address size. With an operand-size prefix these differ: PUSH DS with DS = 1 at
ESP = 12 (in units) stores its unit at 11 and leaves ESP at 10, and POP DS reads the
unit at 10. `StackMachine` has these forms as they are: the slot is a word, a short
value goes into the end nearest to the base and is taken from the other end, and the
gap holds anything (`GrowSlot`, `PopSeg`, `PopFlags`, `Ret`). So `ImplementsStack`
says of them that they move the stack by a word, touch nothing below and leave the
rest alone, and not that what is pushed is popped; `PushedIsOnTop`, which does, is
violated. In 64-bit mode CALL and RET have no short form (`BranchSizes`).

The client is asked for and told seven flags, which `ReadFlags` puts among those of
the host. `flags` is these seven, as one number; `HostFlags` is what the places above
it hold when PUSHF runs, any of a set of values each time. POPF keeps the seven and
forgets the rest. (In the real register the seven lie between the others. All of them
are in its low sixteen bits, and where they are within these no operation of the
stack tells apart.)

### PythonBinding

`Execute` is reduced to the sequence of its callbacks: PC, CS address, fetch (with
its up to fifteen attempts and `PyErr_Clear`), registers, FPU, address, memory,
and the write-back. Flags and registers that are read in a row, and all the
callbacks of one write-back stage, are one callback each. A callback is entered
by `Invoke` and left by `Answer`, with one of the answers that the binding
distinguishes: a good value, an exception, an object of another type, bytes of
the wrong length, an int that does not fit. `Skip` is a callback that returns
false at once because `has_error` is set (`WriteFPU` alone does not look). `err[t]`
is CPython's pending exception of the thread; `has_error` and `error` belong to
the executor object, so that two threads that share it share them. `raised`,
`refused`, `passed` and `cleared` in `call[t]` record what the properties are about,
and no guard reads them.

`ReadValue` refuses an object of another type by recording a TypeError in `error`,
without `has_error` and without an exception. `ComputeAddress` does not look at the
refusal (`Python.cpp:331`), and the fetch loop tries a shorter read: the call goes on,
with the default address or fewer bytes, and may return True. This failure is lost,
and `FailuresReported` does not say otherwise: `passed` notes it, and the property
bounds what becomes of it. The TypeError that it leaves behind is raised in the place of a later
failure in two cases, where `ReadFPU` refuses an image of the wrong length and keeps
the older error (`Python.cpp:425`), and where the fetch fails. What is claimed of every
other failure is that it is the one that is raised. An exception, or an int that does
not fit, that has set `has_error` at the CS address or in the fetch is cleared by the fetch
loop (`cleared`); the call then ends with InstructionFetchError (or that TypeError),
never with True.

C code runs with the GIL; Python code, outside of `execute` or in a callback, may
lose it between any two steps (`DropGIL`, `TakeGIL`). `Lock` waits with the GIL
held. `Reenter` is a callback that calls `execute`; its thread never comes back
from there, since `gExecutorLock` is not recursive. Not in the model: `execute` on
an object whose `__init__` has not run (a null pointer), and the reference counts.

### PagedMemory and PolicyMemory

A map is a record of its range, flags, bytes and marks; `maps` holds the map objects
and `table` names one for each page, 0 for none. Loads and stores go through
`Accesses`: as a whole within a map if there is a unit of that size, else byte by
byte. Page numbers are masked to the address space and addresses are not, as in
the code.

`PolicyMemory` starts with the loading of a layout, section by section
(`LoadSection`), continues with `GodefroidProcess.__init__` and `make_new_process`
(`MapInputSpace`, `AttachPolicy`), and then takes memory operands, each by
the callbacks that the executor makes for it: `compute_address`, `read_memory` with
a hint, `write_memory`. The operand of `compute_address` has the size of the
operand before, because `ReadMemory` of the executor sets the size later; address
generation (LEA) ends there. An exception or a failed assertion ends the process
(`stopped`). `seen`, `stored` and `kept` are only for the properties.

The bytes of a file are the content of a section, digits of base `ByteSize`; a
pointer is `AddressBytes` of them. What the program stores and what
`generate_random` returns are small sets, and all bytes of one store are equal.

## Runs

| Run | Shows |
|---|---|
| `executor_sequence` | one client, fourteen instructions (one per way through `Execute`: arithmetic on the stack pointer, with and without memory, conditional flags, division, MMX, x87, NOP, branch, PUSH, LEA, REP STOS, and three that are refused), two calls of up to two instructions, every failure. `StepCorrect`: an instruction that completes leaves `ISA` of the state it began in. `FailureAtomic`: an error up to a refused memory write leaves the state as it was. `TornWriteBack`: a refused write-back leaves each location old or new and the PC old. `FaultsReported`: a fault is reported for the instruction that raised it. `ValueInv`: the inductive invariant behind them, stage by stage. `IterationBound`, `TypeOK`. |
| `executor_threads` | two threads, two clients, one with AVX (whose native execution is not implemented): `MutualExclusion`, `HostRestored`, `ImplementsAtomic` (the refinement of `AtomicExecutor`, across clients and threads), and `CallsReturn`. |
| `executor_signals` | violation: a fault in `LoadFPU` reaches `RecoverFromError` before `sigsetjmp`. |
| `emulate_branch` | `BranchCorrect`: branches agree with the arithmetic of the comparison; `LoopBounded`: loops end, and step the count once per branch. |
| `emulate_subtraction_flags` | violation: signed branches after SCAS and CMPS. |
| `emulate_string` | `Resumable`: between iterations and after missing pages the state stands for the rest of the instruction; `StoresElement`: an iteration stores only into its element, and only into mapped memory; `Terminates`. |
| `emulate_stack` | `ImplementsStack`: the instructions, with and without an operand-size prefix, implement `StackMachine`. |
| `emulate_stack_prefix` | violation: with the prefix, PUSH of a segment register and CALL store at a distance of the operand size and move the stack pointer by the address size, so that the value is not on top (`PushedIsOnTop`). |
| `python_binding` | two threads, two executors, all answers of all callbacks, overlapping and nested calls. `ResultConvention`: `execute` returns NULL exactly when an exception is pending; `CleanEntry`: Python is never entered with one pending; `FailuresReported`: what `execute` raises is the failure that ended the call (see below for what is exempt); `CallsReturn`: a call returns unless it overlaps another one that is in a callback. |
| `python_reentrancy` | violation: a waiting call keeps the GIL from the callback of the call it waits for, or waits for itself. |
| `policy_memory` | nine layouts, three operands each. `SectionsInPlace`: a section within one page, new or shared with the end of the section before, is where it belongs; `WholeReads`: no load is short; `ReadsOwnWrites`: a load never shows an invented value where the program has stored one; `StoresPermitted`: `write_memory`, which checks nothing, changes only its operand and only where that may be written; `FreshPointers`: generated pointers are apart and usable; `MergedAreas`, `OutputsWritten`: the report covers what has been noted, and outputs are what the program wrote. |
| `policy_hole` | violation: the input space replaces pages of another map. |

### Bounds

Executor: seven registers (flags, two alias candidates of which one is the
count register, stack pointer, index register, PC, one MMX register), two flags,
one-bit words. One bit is enough for the properties of data flow, because `MCSem`
makes every output depend on every operand; two alias candidates are enough for
one to be in use. Two instructions per call and two calls make every instruction
follow every other, in the same call and in a new one after any failure.
`MaxCalls` bounds the calls, `MaxExecutions` the instructions per call.
`executor_threads` uses a native instruction that may fault and one that uses the
FPU, one per call, so that threads and clients meet at every stage.

Branches: twelve bytes at the boundaries of the carry, auxiliary carry, sign and
parity, and counts of three bits, of which ECX is two and CX is one. Strings: four one-bit bytes on two pages, counts
up to three, so that strings overlap, wrap and span pages; the source begins at
address 0 (`Sources`), the destination anywhere, so that only the destination of a
two-byte element spans pages; the theorems are about every source. Stack: 32-bit mode with
units of two bits, four units of stack, four instructions (`MaxSteps`), operands
of one and two units for every instruction, flags of one bit of the client and one
value of the host's above it, which reaches into the upper unit.

Python binding: two threads that share two executors, up to three instructions
per call and fetches of up to three attempts (`MaxExecutions`, `FetchLength`; the
code has fifteen attempts, but the loop has no memory except for the exceptions,
and three are a first, a middle and a last one). The number of calls is not
bounded. Three instructions let a failure in the second follow a success and
precede what would be the third. Deadlock is not checked, since overlapping calls
do deadlock (`python_reentrancy`).

Policy memory: eight pages of four bytes, pointers of two bytes, an input space of
two pages, three operands (`MaxAccesses`) of one, two or four bytes. Section names
are the two that the code looks for and three others (`OtherNames`). The addresses
are in the stack, at both ends of the policy's range and of an input space, at the
end of the address space and beyond it; an operand of four bytes spans two pages
from any address that is not at a page's start. Three operands are a store, a
second access that overlaps it and invents a value, and a load of the first. The
layouts put the stack and the sections in either order, give the input space no
room, a page of its own, one of another map or the page below the stack, and have
sections of one to three pages. A process that has stopped, or has made its accesses, deadlocks, so deadlock
is not checked.

### Fairness

`FairSpec` of `Executor` assumes weak fairness of each thread inside `Execute`:
the code makes no call there that waits, except for the lock, and the scheduler
runs every thread. Weak fairness is enough for the lock only because the calls are
finitely many; pthread mutexes promise no more, so that with endless calls of
other threads a call might wait for ever. `EmulateString` assumes that the client
keeps calling `Execute` and maps every page it is asked for. `FairSpec` of `PythonBinding` assumes that the interpreter gives the GIL up
from time to time (weak fairness of `DropGIL`; CPython's switch interval) and
passes it on to whoever waits (strong fairness of `TakeGIL`), and that a thread goes
on with what it is doing, callbacks included (strong fairness of `Work`, because
losing the GIL disables it). Nothing is assumed of `gExecutorLock`: a
thread finds it taken only when another one is in a callback, and `CallsReturn`
promises nothing to calls that overlap in this way. No other property needs fairness.

## Proofs

`ExecutorProofs` proves, for any threads, clients, instructions, words and
processor that satisfy the named assumptions of `Instruction` and `Executor`:

* `TypeCorrect`: `TypeOK` is an invariant. It is inductive as it stands; there is
  a lemma per kind of stage.
* `SafetyInvariant`: `SafetyInv`, the conjunction of `TypeOK`,
  `MutualExclusion`, `WindowInv`, `HostRestored` and `IterationBound`, is
  inductive. `HostRestored` is not inductive alone: that the handlers come back
  depends on which handlers were saved, and that the FPU comes back on which image
  `gNativeFPU` holds and on `gUsesFPU` staying the same through the window; and the
  thread that resumes after a fault is the one in `gRecoveryTarget`. `WindowInv`
  says so, and needs `MutualExclusion`: another thread in the window would overwrite
  both. The stages outside the window follow from two lemmas (`QuietStep` for the
  host's state, `BodyControl` for the control state), the stages inside it are
  proved one by one.
* `OneOwner`, `HostSafe`, `Bounded`: the parts of it that `executor_threads` and
  `executor_sequence` check.

`ExecutorValueProofs` proves `ValueInvariant`: `ValueInv` is an invariant. None of
the properties of the data is inductive, because the globals are the only path from
the reads to the writes and every earlier instruction, of any client, leaves its
values in them. `ValueInv` says at each stage what has been replaced by then: the
register sets (`SetsInv`), the operands, memory slots and FPU image read so far
(`OperandsInv`), the alias of the stack pointer, which must be a register that the
instruction does not need (`AliasInv`), the results once the instruction has run
(`ResultsInv`), and how much of them the client has (`ClientInv`). It mentions one
thread in the body only; that the others cannot disturb it is `MutualExclusion`.
`ExecutorRefinementProofs` draws the conclusions:

* `RetiresCorrectly` (`StepCorrect`), `FailsAtomically` (`FailureAtomic`),
  `TearsCleanly` (`TornWriteBack`), `ReportsFaults` (`FaultsReported`), and
* `Implements`: `Executor` implements `AtomicExecutor` (`ImplementsAtomic`), with
  one case per stage: a step of the abstract machine at the last write, at a refused
  one and at a NOP's end, a stutter elsewhere.

All but `FailsAtomically` have the hypothesis `AllExchanged`: `ExecuteNative`
exchanges every register that an instruction it runs works on, other than those that
get there by way of the FPU (MMX) and the alias (the stack pointer), and the flags
and the PC. The code does so for all but XMM8 and up (`Executor.cpp:1827`), and
without it the theorems are false. TLC evaluates it on the instances (`MCExchanged`).

The assumptions say that XED describes instructions consistently (a JITed
instruction has at most one memory operand, at most one memory operand is written,
NOPs write nothing, an address depends only on registers that the instruction needs,
a REP instruction needs its count, and so on), that `Sem` returns words, that the
count is one of the registers that may become an alias, and that `FL`, `IP` and `SP`
are not among the registers that `ExecuteNative` exchanges. TLC evaluates them on
every run of `MCExecutor`. `FailureAtomic` rests on the one about writes: with two
written operands a refusal of the second would leave the first written.

`EmulateBranchProofs` proves `BranchesCorrectly` (`BranchCorrect`) and `LoopsEnd`
(`LoopBounded`) for words of 8 and of 16 bits, any set of them, and counts of any
width. The flags after a comparison are a function of its operands (`FlagsInv`); the
rest is arithmetic, two cases for the sign bits of the operands and of the
difference. `LoopsEnd` needs `LoopInv`, which relates the count to the number of
comparisons, also across the wrap from 0 that a loop with count 0 begins with.

`EmulateStringProofs` proves `StringsResume` (`Resumable`) and `StringsStore`
(`StoresElement`) for memories, pages, elements and counts of any size. The
invariant, `StringInv`, is `Resumable` with the types: the whole of what remains,
described without iterating (`Whole`), is the whole of what there was. An iteration
preserves it (`WholeNext`) because a string without its first element is a string. This is direct for the
instructions whose iterations are independent; for MOVS, where the source may overlap
what has been stored, it is a statement about a recursive function. The library's
induction theorems cannot be instantiated here, so induction is carried out on sets:
a non-empty set of natural numbers has a least element (`LeastNat`, from the library's
well-founded relations), hence a set with 0 and all successors has all (`SetInduction`).

`EmulateStackProofs` proves `StackImplemented` (`ImplementsStack`) for any number of
values of a unit, words of two units (32-bit mode) and of four (64-bit mode), any
depth of the stack, any program and each instruction with and without an operand-size
prefix. The invariant, `StackInv`, is the types and that
the stack pointer is not above the base. `PushedSlot`, `Popped` and `LoadStack` say what a
push, a pop and a load do to the stack that memory stands for, whatever is in it; with
`Displaced` or `PoppedTo` off by a unit they fail. `PushedSlot` has two sizes, of the
value and of the movement of the stack pointer, and shows where the gap is; `Pushed`
is the case in which they agree. Each instruction is then one lemma. That the stack
machine itself gives back what was pushed is `ComesBack`: the units of a value that
fills its slot make up the value again, and the client's flags are those that PUSHF
put between the host's.
The hypothesis `ImmediatesFit`, that an immediate as a word is below 2^32, always holds
in 32-bit mode; in 64-bit mode the theorem is false without it, because PUSH of a
negative immediate loses its upper half (`Executor.cpp:1290`). Place values are written
as a recursive function, as the provers have no power of a variable.

`PythonBindingProofs` does the same for the binding, for any threads, executors,
number of instructions and fetch length; it assumes only that these two are positive,
that there is an executor, and that `NoThread` is not a thread:

* `TypeCorrect`, `CallbacksClean` (`CleanEntry`) and `ReturnsByConvention`
  (`ResultConvention`) follow from the inductive invariant `Inv`. Neither convention
  is inductive: after `ComputeAddress` has raised, C code runs on with an exception
  pending, and it is `has_error` that keeps the next callback from being made.
  `Pending` names the stages where that can be (the fetch, a memory operand that is
  read next, the write-back of LEA, and the way out). Since C code holds the GIL
  (`HoldsGIL`), no other thread clears `has_error` there, even if it uses the same
  executor.
* `EndingFailureReported` (`FailuresReported`) follows from `ReportInv`, which adds
  where a failure is remembered at each stage (`LoopReports`, `ExitReports`) and that
  the loop runs under the lock (`OwnsLock`). In the loop, whatever is to end the call
  is remembered by `has_error` together with the pending exception or `error`, and
  `error` holds nothing else but the TypeError of a result that the call has gone on without. Without the lock a
  second call on the same executor could set `has_error` or `error` while the first is
  in a callback. `FailReports` shows it for a failed callback, from what the binding
  remembers of each answer (`Remembers`).

Each invariant has one lemma per action, over lemmas that say what a failed or
successful callback does to the call (`FailAdvances`, `NotedCall`, `SucceedAdvances`).

`PolicyMemoryProofs` proves, for any layout of sections, page size, address space,
input space and operand, from `PolicyAssumption` and `LayoutAssumption` (sections lie in the
address space, a stack is not empty, and an input space of the user's own may be read
and written), everything that the run checks of it: `WellFormed` (`TypeOK`),
`SectionsPlaced` (`SectionsInPlace`), `ReadsWhole` (`WholeReads`), `PointersFresh`
(`FreshPointers`), `StoresArePermitted` (`StoresPermitted`), `ReadsBack`
(`ReadsOwnWrites`), `AreasMerged` (`MergedAreas`) and `ReportsStored`
(`OutputsWritten`). They follow from the inductive invariant `PolicyInv`:

* `LoadingInv`: the sections that are left satisfy the assumption, and there is no
  policy before the input space is mapped.
* `TableInv`: a page that the table sends to a map is one of the map's pages. The
  loops over accesses index the map's bytes by this.
* `InputInv`: the input space's pages are all in the table, readable and writable,
  and the highest address is not among them. That is why a generated pointer can be
  used, and it rests on what `find_hole` returns: it never finds a hole between maps,
  only above the last or none (`HoleAtTheEnd`).
* `PointersInv`: pointers are in the policy's range, below the next one to give out.
* `OperandInv`: the operand of `write_memory` is the one of `read_memory`, with its
  permissions, so that `write_memory`, which asserts but does not check, never fails
  after its read.
* `SeenInv` and `KeptInv` tie the properties' variables to the maps.

A load or store is a loop over `Accesses`. `LoadedTo`, `StoredTo` and `MarkedTo` say
what holds after the first n bytes, `OneLoad` and `OneStore` carry it over one access,
and `SetInduction` over the loop.

`SectionsPlaced` adds `PlacedInv`: the maps are made in the order of their pages
(`InOrder`), a page is in the table only if a section loaded so far is on it, and
`mem_map` is the map of the last page of the section before, if no earlier section is
on that page. So the content of a section within one page goes through the map of that
page, if the page is new or is that last page (`RightMap`), and its indices are not
negative (`StoredRawAt`).

`OutputsNoted` says what `known_outputs` holds (`NotedWritten`): a store notes the
accesses that it is split into, which are within its operand. `AreasMerged` is an
induction over the loop of `get_outputs` and `get_inputs`, which goes through the
addresses in their order: `AreasTo` says that the areas so far are apart, that they
cover what the addresses below n do, and that the last one ends at the watermark. There
is one lemma for each branch of the loop (`AreaIsNew`, `AreaGrows`, `AreaIsThere`). It
needs that the dictionaries are finite (`FinitePolicy`), as an infinite one would have
no last address. `ReportsStored` combines the two.

The proof of `SectionsPlaced` failed at first: an empty section that starts within a
page maps that page, and `SectionsInPlace` had counted only pages with content. If
the next section is elsewhere and a third one on that page, the third is written through
the map of the second. `SectionsInPlace` speaks of the pages that a section maps, and
`EmptySection` is the layout that shows it.

The proof of `ReadsBack` failed at first, and rightly: the policy tests
`low <= address <= high`, with the end of its range included (`policies.py:99`,
`116`). If the input space of the user's own ends where the stack begins, a load from
the first byte of the stack passes through the policy and is replaced, though the
store before it began below and was not marked. `ReadsOwnWrites` excludes a byte at
the end of the range from what it promises, and `InputBelowStack` is a layout that
shows why.

### Only model-checked

* Liveness: `CallsReturn` of both modules and `Terminates`. The prover has no
  `ENABLED`.

## Not modelled

XED and the processor are external. The Windows branch, the encoder request, the
instructions of Emulate that are one assignment (XLAT, RDTSC, RDTSCP),
the far, transactional and PUSHA forms beyond their refusal. Faults of host threads that are not in
`Execute`. Of the Python layers: the conversions of `Operations` and the module's
initialization, the proxies and `EmptyThread`, which pass calls on; the types that
`get_inputs` attaches to areas, instruction fetch from memory under a policy, the
iterations of the runner over copies of the memory, and the loading of binaries with
`cle`. Examples and build files have no state.

Some departures of the code from the processor, or from what a caller would
expect, are left out of the instances that are checked, so that the properties
speak of the rest:

* XMM8 and up are not exchanged by `ExecuteNative` (`Executor.cpp:1827`), which
  computes on the host's registers and reports the client's old values.
* LOOP and its relatives test the count before they decrement it
  (`Executor.cpp:1095`) and run once too often. `LoopBounded` bounds them by what
  the code does.
* `Execute` writes memory before the FPU state (`Executor.cpp:2220`), so that a refused
  `WriteFPU` leaves the instruction's store in the client's memory. `FailureAtomic` ends
  with the memory write; what comes later is `TornWriteBack`'s.
* LEAVE does not pop the frame pointer (`Executor.cpp:1306`).
* The memory operand of BT, BTS, BTR and BTC is displaced by eight bytes for each
  word of the operand's size in the bit offset (`Executor.cpp:516`, `531`), which is
  right for 64-bit operands only, and not for negative or immediate offsets.
* POP into the stack pointer adds the operand size to what it popped
  (`Executor.cpp:1302`), and PUSH of an immediate truncates it to 32 bits
  (`Executor.cpp:1290`).
* A section of several pages is stored through the map of its last page
  (`godefroid.py:230`): the content of the earlier pages wraps around to the end of
  that map, or the load stops with an IndexError. A section on a page that is mapped
  already is stored through the map made last, whatever section that was made for,
  even an empty one. `SectionsInPlace` speaks of sections of one page that is new or
  shared with the end of the section before.
* The policy looks only at the first address of an access. A store that begins
  below its range and ends in it is not noted, and a later load replaces its bytes;
  `ReadsOwnWrites` leaves these bytes out.
* A load of an operand that has been written only in part replaces the whole of it
  (`policy_map.py:44`), as a TODO there says; `ReadsOwnWrites` is about operands
  whose bytes have all been stored.
* `known_outputs` forgets a longer store at an address when a shorter one follows
  (`policies.py:144`), so that not every byte written is reported; `OutputsWritten`
  is the other inclusion. Computed inputs are noted with the size of the operand
  before (`Executor.cpp:662`).

* With an operand-size prefix, what PUSH of a segment register, PUSHF and CALL push is
  not what POP, POPF and RET pop (`Executor.cpp:598` and `1317`). `StackMachine` has them with
  this gap, and `emulate_stack_prefix` shows it.
* A `compute_address` result of a wrong type is dropped, and its TypeError may stand
  for a later failure (`Python.cpp:295`, `331`, `425`). It is in the model, and
  `FailuresReported` exempts it.

## Plan

1. Proofs for what the plan adds, in the modules that hold theorems now.
2. `RegisterFile`: sub-registers in `ReadGPR` and `WriteGPR`, 64-bit instances of
   the stack.
