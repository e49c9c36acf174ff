---------------------------- MODULE PythonBinding ----------------------------
(***************************************************************************)
(* The Python binding of the executor (microx/Python.cpp): Python threads  *)
(* that call execute, the callbacks that Execute makes into Python, and    *)
(* the two ways in which a callback's failure is remembered: CPython's own *)
(* pending exception of the thread, and has_error and error of the         *)
(* PythonExecutor.                                                         *)
(*                                                                         *)
(* Execute is reduced to its callbacks, in its order; Executor models the  *)
(* rest of it. One callback stands for several of the same kind in a row.  *)
(* C code runs with the GIL, Python code may lose it at any point. The     *)
(* binding holds the GIL while it waits for gExecutorLock.                 *)
(***************************************************************************)
EXTENDS Naturals

CONSTANTS
    Threads, NoThread,
    Execs,          \* the Executor objects
    MaxExecutions,  \* bound on num_execs
    FetchLength     \* the longest fetch: 15 in the code

ASSUME ThreadsAssumption == NoThread \notin Threads /\ Execs # {}
ASSUME BoundsAssumption == {MaxExecutions, FetchLength} \subseteq Nat \ {0}

VARIABLES
    gil,            \* who holds the GIL
    gExecutorLock,
    made,           \* the executors that __init__ has constructed
    has_error, error,
    err,            \* CPython's pending exception of each thread
    pc,             \* where in execute each thread is
    calling,        \* the threads that are in the callback of their stage
    nested,         \* the ones whose callback has called execute itself
    call            \* the locals of each thread's call

vars == <<gil, gExecutorLock, made, has_error, error, err, pc, calling, nested, call>>

------------------------------------------------------------------------------
(* The stages of Execute at which it calls into Python, by what it does     *)
(* with the answer.                                                         *)
Addresses == {"cs", "address"}
Reads  == {"readpc", "fetch", "readregs", "readmem"} \cup Addresses
Writes == {"writemem", "writefpu", "writeregs"}
Callbacks == Reads \cup Writes \cup {"readfpu"}
Stages == Callbacks \cup {"idle", "lock", "decode", "run", "ret", "returned"}

(* What a callback does: return something the binding can convert, raise,   *)
(* return an object of another type, bytes of the wrong length, or an int   *)
(* that does not fit. What a write returns is not looked at.                *)
Answers(stage) ==
    {"value", "raise"} \cup (IF stage \in Writes THEN {} ELSE {"type", "size"})
                       \cup (IF stage \in Reads THEN {"range"} ELSE {})

(* Which callbacks an instruction needs. Only LEA, which Emulate runs and   *)
(* which cannot fail, has an AGEN operand.                                  *)
Instr == {i \in [fpu : BOOLEAN, mem : {"none", "agen", "load", "store"}] :
            i.mem = "agen" => ~i.fpu}
NoInstr == [fpu |-> FALSE, mem |-> "none"]

(* The exceptions of Executor_Execute for a status that has one of its own. *)
OwnError == [kErrorDecode |-> "InstructionDecodeError",
             kErrorUnsupported |-> "UnsupportedError",
             kErrorExecute |-> "MicroxError",
             kErrorFault |-> "AddressFaultError",
             kErrorFloatingPointException |-> "FloatingPointError"]
Refusals == {"kErrorUnsupported", "kErrorExecute", "kErrorFault",
             "kErrorFloatingPointException"}

(* kErrorCallback stands for the kErrorRead... and kErrorWrite... statuses. *)
Statuses == DOMAIN OwnError \cup {"kGood", "kErrorReadInstMem", "kErrorCallback"}

Conversions == {"TypeError", "ValueError", "OverflowError"}
Exceptions == Conversions \cup {OwnError[s] : s \in DOMAIN OwnError}
              \cup {"client", "InstructionFetchError", "RuntimeError"}

(* The locals, and what has failed so far: raised, an exception of a        *)
(* callback that nothing clears; refused, how a result could not be         *)
(* converted by which the call has to end; passed, a result of a wrong type *)
(* after which the call has gone on; cleared, has_error with an exception   *)
(* that the fetch loop clears.                                              *)
Call == [ex : Execs, left : 0 .. MaxExecutions, tries : 1 .. FetchLength, ins : Instr,
         status : Statuses, result : {"none", "True", "NULL"},
         raised : BOOLEAN, refused : Conversions \cup {"none"},
         passed : BOOLEAN, cleared : BOOLEAN]

NewCall(e, n) == [ex |-> e, left |-> n, tries |-> FetchLength, ins |-> NoInstr,
                  status |-> "kGood", result |-> "none",
                  raised |-> FALSE, refused |-> "none", passed |-> FALSE, cleared |-> FALSE]

NoCall == NewCall(CHOOSE e \in Execs : TRUE, 0)

Ex(t) == call[t].ex

(* Python code: outside of execute and in callbacks. *)
InPython(t) == (pc[t] = "idle" \/ t \in calling) /\ t \notin nested
RunsPython(t) == gil = t /\ InPython(t)
RunsC(t) == gil = t /\ t \notin calling

Init ==
    /\ gil = NoThread /\ gExecutorLock = NoThread
    /\ made = {}
    /\ has_error = [e \in Execs |-> FALSE]
    /\ error = [e \in Execs |-> "none"]
    /\ err = [t \in Threads |-> "none"]
    /\ pc = [t \in Threads |-> "idle"]
    /\ calling = {} /\ nested = {}
    /\ call = [t \in Threads |-> NoCall]

------------------------------------------------------------------------------
(* Python code. *)

(* The interpreter lets another thread run, between any two bytecodes.      *)
DropGIL(t) ==
    /\ RunsPython(t)
    /\ gil' = NoThread
    /\ UNCHANGED <<gExecutorLock, made, has_error, error, err, pc, calling, nested, call>>

TakeGIL(t) ==
    /\ gil = NoThread /\ InPython(t)
    /\ gil' = t
    /\ UNCHANGED <<gExecutorLock, made, has_error, error, err, pc, calling, nested, call>>

(* Executor_init with an address size of 32 or 64; any other size raises    *)
(* ValueError and changes nothing.                                          *)
Executor_init(t, e) ==
    /\ RunsPython(t)
    /\ made' = made \cup {e}
    /\ has_error' = [has_error EXCEPT ![e] = FALSE]
    /\ error' = [error EXCEPT ![e] = "none"]
    /\ UNCHANGED <<gil, gExecutorLock, err, pc, calling, nested, call>>

(* The top of Executor_Execute, before it calls Execute. *)
ClearErrors(e) ==
    /\ has_error' = [has_error EXCEPT ![e] = FALSE]
    /\ error' = [error EXCEPT ![e] = "none"]

(* execute(0) returns True without taking the lock. *)
ExecuteNothing(t, e) ==
    /\ RunsPython(t) /\ e \in made
    /\ ClearErrors(e)
    /\ UNCHANGED <<gil, gExecutorLock, made, err, pc, calling, nested, call>>

Executor_Execute(t, e, n) ==
    /\ RunsPython(t) /\ pc[t] = "idle" /\ e \in made
    /\ ClearErrors(e)
    /\ pc' = [pc EXCEPT ![t] = "lock"]
    /\ call' = [call EXCEPT ![t] = NewCall(e, n)]
    /\ UNCHANGED <<gil, gExecutorLock, made, err, calling, nested>>

(* A callback calls execute: its thread waits for the lock it holds.        *)
Reenter(t, e) ==
    /\ RunsPython(t) /\ t \in calling /\ e \in made
    /\ ClearErrors(e)
    /\ nested' = nested \cup {t}
    /\ UNCHANGED <<gil, gExecutorLock, made, err, pc, calling, call>>

(* The interpreter takes what execute returned, and goes on with a handler  *)
(* of the exception if there is one.                                        *)
Resume(t) ==
    /\ RunsC(t) /\ pc[t] = "returned"
    /\ pc' = [pc EXCEPT ![t] = "idle"]
    /\ err' = [err EXCEPT ![t] = "none"]
    /\ call' = [call EXCEPT ![t] = NoCall]
    /\ UNCHANGED <<gil, gExecutorLock, made, has_error, error, calling, nested>>

------------------------------------------------------------------------------
(* Execute, between its callbacks. *)

Goto(t, stage) == pc' = [pc EXCEPT ![t] = stage]

(* A loop that counts one instruction too many. *)
AfterInstruction_OneMore(t) ==
    /\ call' = [call EXCEPT ![t].left = @ - 1, ![t].tries = FetchLength,
                            ![t].ins = NoInstr]
    /\ IF call[t].left = 0
       THEN Goto(t, "ret") /\ gExecutorLock' = NoThread
       ELSE Goto(t, "readpc") /\ UNCHANGED gExecutorLock

(* The loop body from its top, or the return after the last instruction.    *)
AfterInstruction(t) ==
    /\ call' = [call EXCEPT ![t].left = @ - 1, ![t].tries = FetchLength,
                            ![t].ins = NoInstr]
    /\ IF call[t].left = 1
       THEN Goto(t, "ret") /\ gExecutorLock' = NoThread
       ELSE Goto(t, "readpc") /\ UNCHANGED gExecutorLock

(* An early return that skips the destructor of the lock guard. *)
LeaveWith_Locked(t, status, c) ==
    /\ Goto(t, "ret")
    /\ UNCHANGED gExecutorLock
    /\ call' = [call EXCEPT ![t] = [c EXCEPT !.left = 0, !.tries = FetchLength,
                                             !.ins = NoInstr, !.status = status]]

(* A return from the middle of the loop. *)
LeaveWith(t, status, c) ==
    /\ Goto(t, "ret")
    /\ gExecutorLock' = NoThread
    /\ call' = [call EXCEPT ![t] = [c EXCEPT !.left = 0, !.tries = FetchLength,
                                             !.ins = NoInstr, !.status = status]]

Lock(t) ==
    /\ RunsC(t) /\ pc[t] = "lock" /\ gExecutorLock = NoThread
    /\ gExecutorLock' = t
    /\ Goto(t, "readpc")
    /\ UNCHANGED <<gil, made, has_error, error, err, calling, nested, call>>

(* DecodeInstruction and UsesUnsupportedFeatures, and what the instruction  *)
(* turns out to be.                                                         *)
Decode(t) ==
    /\ RunsC(t) /\ pc[t] = "decode"
    /\ \/ \E s \in {"kErrorDecode", "kErrorUnsupported"} :
            LeaveWith(t, s, call[t])
       \/ \E i \in Instr :
            /\ Goto(t, "readregs")
            /\ call' = [call EXCEPT ![t].ins = i]
            /\ UNCHANGED gExecutorLock
    /\ UNCHANGED <<gil, made, has_error, error, err, calling, nested>>

(* Emulate, or the JIT. *)
Run(t) ==
    /\ RunsC(t) /\ pc[t] = "run"
    /\ \/ /\ call[t].ins.mem # "agen"
          /\ \E s \in Refusals : LeaveWith(t, s, call[t])
       \/ /\ Goto(t, IF call[t].ins.mem = "store" THEN "writemem"
                     ELSE IF call[t].ins.fpu THEN "writefpu" ELSE "writeregs")
          /\ UNCHANGED <<gExecutorLock, call>>
    /\ UNCHANGED <<gil, made, has_error, error, err, calling, nested>>

(* The stage after a callback that the executor is content with. *)
Following(t) ==
    LET i == call[t].ins
        Memory == IF i.mem = "none" THEN "run" ELSE "address"
    IN  CASE pc[t] = "readpc"   -> "cs"
          [] pc[t] = "cs"       -> "fetch"
          [] pc[t] = "fetch"    -> "decode"
          [] pc[t] = "readregs" -> IF i.fpu THEN "readfpu" ELSE Memory
          [] pc[t] = "readfpu"  -> Memory
          [] pc[t] = "address"  -> IF i.mem = "agen" THEN "run" ELSE "readmem"
          [] pc[t] = "readmem"  -> "run"
          [] pc[t] = "writemem" -> IF i.fpu THEN "writefpu" ELSE "writeregs"
          [] pc[t] = "writefpu" -> "writeregs"

Succeed(t) ==
    IF pc[t] = "writeregs" THEN AfterInstruction(t)
    ELSE Goto(t, Following(t)) /\ UNCHANGED <<call, gExecutorLock>>

(* The call of t with one more failed callback: it raised, its result was   *)
(* refused, or, for FALSE and "none", it was not called.                    *)
Noted(t, raised, refusal) ==
    LET fetching == pc[t] \in {"cs", "fetch"}
        passed   == refusal = "TypeError" /\ pc[t] \in Addresses \cup {"fetch"}
        cleared  == \/ refusal = "OverflowError" /\ fetching
                    \/ raised /\ pc[t] = "cs"
    IN  [call[t] EXCEPT !.raised = @ \/ (raised /\ ~fetching),
                        !.refused = IF refusal = "none" \/ passed \/ cleared THEN @ ELSE refusal,
                        !.passed = @ \/ passed,
                        !.cleared = @ \/ cleared]

(* A callback has failed. ComputeAddress falls back to the address that     *)
(* Executor computes, the fetch tries with one byte less, anything else     *)
(* ends Execute.                                                            *)
Fail(t, raised, refusal) ==
    LET c == Noted(t, raised, refusal)
    IN  CASE pc[t] \in Addresses ->
               Goto(t, Following(t)) /\ call' = [call EXCEPT ![t] = c] /\ UNCHANGED gExecutorLock
          [] pc[t] = "fetch" /\ call[t].tries > 1 ->
               /\ call' = [call EXCEPT ![t] = [c EXCEPT !.tries = @ - 1]]
               /\ UNCHANGED <<pc, gExecutorLock>>
          [] pc[t] = "fetch" /\ call[t].tries = 1 -> LeaveWith(t, "kErrorReadInstMem", c)
          [] OTHER -> LeaveWith(t, "kErrorCallback", c)

------------------------------------------------------------------------------
(* The callbacks. *)

(* Every callback but WriteFPU returns false without calling Python once    *)
(* has_error is set.                                                        *)
Guarded(t) == has_error[Ex(t)] /\ pc[t] # "writefpu"

Invoke(t) ==
    /\ RunsC(t) /\ pc[t] \in Callbacks /\ ~Guarded(t)
    /\ calling' = calling \cup {t}
    /\ UNCHANGED <<gil, gExecutorLock, made, has_error, error, err, pc, nested, call>>

Skip(t) ==
    /\ RunsC(t) /\ pc[t] \in Callbacks /\ Guarded(t)
    /\ Fail(t, FALSE, "none")
    /\ err' = [err EXCEPT ![t] = IF pc[t] = "fetch" THEN "none" ELSE @]
    /\ UNCHANGED <<gil, made, has_error, error, calling, nested>>

(* ComputeAddress that leaves it at the pending exception. *)
Raised_Unmarked(t) ==
    /\ err' = [err EXCEPT ![t] = IF pc[t] = "fetch" THEN "none" ELSE "client"]
    /\ UNCHANGED <<has_error, error>>

(* A fetch loop without PyErr_Clear. *)
Raised_Stacked(t) ==
    /\ err' = [err EXCEPT ![t] = "client"]
    /\ has_error' = [has_error EXCEPT ![Ex(t)] = @ \/ pc[t] \in Addresses]
    /\ UNCHANGED error

(* The callback raises: the exception is pending, and ComputeAddress, whose *)
(* answer nobody checks, remembers it. PyErr_Clear of the fetch loop drops  *)
(* one from ReadMem.                                                        *)
Raised(t) ==
    /\ err' = [err EXCEPT ![t] = IF pc[t] = "fetch" THEN "none" ELSE "client"]
    /\ has_error' = [has_error EXCEPT ![Ex(t)] = @ \/ pc[t] \in Addresses]
    /\ UNCHANGED error

(* ReadValue that refuses an object and does not say why. *)
WrongType_Silent(t) ==
    /\ has_error' = [has_error EXCEPT ![Ex(t)] = TRUE]
    /\ UNCHANGED <<err, error>>

(* ReadValue on an object that is neither bytes, int nor float. *)
WrongType(t) ==
    /\ error' = [error EXCEPT ![Ex(t)] = IF pc[t] = "readfpu" THEN "ValueError" ELSE "TypeError"]
    /\ has_error' = [has_error EXCEPT ![Ex(t)] = @ \/ pc[t] = "readfpu"]
    /\ UNCHANGED err

(* ReadValue and ReadFPU on bytes of the wrong length. *)
WrongSize(t) ==
    /\ error' = [error EXCEPT ![Ex(t)] = IF pc[t] = "readfpu" /\ @ # "none" THEN @
                                         ELSE "ValueError"]
    /\ has_error' = [has_error EXCEPT ![Ex(t)] = @ \/ pc[t] # "readfpu"]
    /\ UNCHANGED err

(* ReadValue on an int that _PyLong_AsByteArray refuses. *)
OutOfRange(t) ==
    /\ err' = [err EXCEPT ![t] = IF pc[t] = "fetch" THEN "none" ELSE "OverflowError"]
    /\ has_error' = [has_error EXCEPT ![Ex(t)] = TRUE]
    /\ UNCHANGED error

Answer(t, a) ==
    /\ RunsPython(t) /\ t \in calling /\ a \in Answers(pc[t])
    /\ calling' = calling \ {t}
    /\ CASE a = "value" -> Succeed(t) /\ UNCHANGED <<err, has_error, error>>
         [] a = "raise" -> Raised(t) /\ Fail(t, TRUE, "none")
         [] a = "type"  ->
              WrongType(t) /\ Fail(t, FALSE, IF pc[t] = "readfpu" THEN "ValueError" ELSE "TypeError")
         [] a = "size"  -> WrongSize(t) /\ Fail(t, FALSE, "ValueError")
         [] a = "range" -> OutOfRange(t) /\ Fail(t, FALSE, "OverflowError")
    /\ UNCHANGED <<gil, made, nested>>

------------------------------------------------------------------------------
(* The exception that Executor_Execute ends with: the status' own, the      *)
(* pending one, or the one that the binding has recorded.                   *)
Thrown(t) ==
    LET s == call[t].status
    IN  CASE s = "kGood" -> err[t]
          [] s \in DOMAIN OwnError -> OwnError[s]
          [] OTHER -> IF err[t] # "none" THEN err[t]
                      ELSE IF error[Ex(t)] # "none" THEN error[Ex(t)]
                      ELSE IF s = "kErrorReadInstMem" THEN "InstructionFetchError"
                      ELSE "RuntimeError"

Return(t) ==
    /\ RunsC(t) /\ pc[t] = "ret"
    /\ err' = [err EXCEPT ![t] = Thrown(t)]
    /\ error' = [error EXCEPT ![Ex(t)] =
                   IF call[t].status \in {"kErrorReadInstMem", "kErrorCallback"}
                      /\ err[t] = "none" THEN "none" ELSE @]
    /\ call' = [call EXCEPT ![t].result = IF call[t].status = "kGood" THEN "True" ELSE "NULL"]
    /\ Goto(t, "returned")
    /\ UNCHANGED <<gil, gExecutorLock, made, has_error, calling, nested>>

(* What the thread does on its own once Python calls execute. *)
Work(t) == \/ Lock(t) \/ Invoke(t) \/ Skip(t) \/ Decode(t) \/ Run(t) \/ Return(t) \/ Resume(t)
           \/ \E a \in {"value", "raise", "type", "size", "range"} : Answer(t, a)

Next == \E t \in Threads :
    \/ DropGIL(t) \/ TakeGIL(t)
    \/ \E e \in Execs : \/ Executor_init(t, e) \/ ExecuteNothing(t, e) \/ Reenter(t, e)
                        \/ \E n \in 1 .. MaxExecutions : Executor_Execute(t, e, n)
    \/ Work(t)

Spec == Init /\ [][Next]_vars

(* The interpreter passes the GIL on to whoever waits for it, a thread that *)
(* has it goes on with what it does, and the callbacks of the client return. *)
FairSpec == /\ Spec
            /\ \A t \in Threads : /\ WF_vars(DropGIL(t)) /\ SF_vars(TakeGIL(t))
                                  /\ SF_vars(Work(t))

------------------------------------------------------------------------------
TypeOK ==
    /\ gil \in Threads \cup {NoThread} /\ gExecutorLock \in Threads \cup {NoThread}
    /\ made \subseteq Execs
    /\ has_error \in [Execs -> BOOLEAN]
    /\ error \in [Execs -> {"none", "TypeError", "ValueError"}]
    /\ err \in [Threads -> Exceptions \cup {"none"}]
    /\ pc \in [Threads -> Stages]
    /\ calling \subseteq Threads /\ nested \subseteq calling
    /\ call \in [Threads -> Call]

(* CPython's calling convention: execute returns NULL exactly when an       *)
(* exception is pending, whichever callbacks failed on the way.             *)
ResultConvention ==
    \A t \in Threads :
       pc[t] = "returned" => (call[t].result = "NULL" <=> err[t] # "none")

(* "they will stack for every iteration of this loop and Python will get    *)
(* angry at us": no callback enters Python with an exception pending.       *)
CleanEntry == \A t \in calling : err[t] = "none"

(* What execute raises is the failure that ended the call: an exception of  *)
(* a callback outside of the fetch, and nothing else as the client's, or    *)
(* the refusal of a result; has_error with an exception that the fetch loop *)
(* clears never ends in True. Two things are exempt, because the code lets  *)
(* them happen. A compute_address or read_memory result of a wrong type     *)
(* does not end the call, which goes on with the default address or one     *)
(* byte less and may return True. And its TypeError stays behind in error,  *)
(* to be raised in place of the later failure of ReadFPU or of the fetch.   *)
FailuresReported ==
    \A t \in Threads :
       LET c == call[t]
           Passed == IF c.passed THEN {"TypeError"} ELSE {}
       IN  pc[t] = "returned" =>
             /\ c.raised <=> err[t] = "client"
             /\ c.refused = "ValueError" => err[t] \in {"ValueError"} \cup Passed
             /\ c.refused \in {"TypeError", "OverflowError"} => err[t] = c.refused
             /\ c.cleared => err[t] \in {"InstructionFetchError"} \cup Passed
             /\ err[t] \in Conversions => err[t] \in {c.refused} \cup Passed
             /\ err[t] # "RuntimeError"

(* A call is made while another one is in a callback.                       *)
Overlap == nested # {} \/ \E t, u \in Threads : pc[t] = "lock" /\ u \in calling

(* Every call of execute returns, unless a second call is made while it is  *)
(* in a callback, by the callback or by another thread.                     *)
CallsReturn == \A t \in Threads : pc[t] = "lock" ~> (pc[t] = "idle" \/ Overlap)

(* microx "is re-entrant": whoever waits for gExecutorLock, from another    *)
(* thread or from a callback, waits for a thread that can go on.            *)
Reentrant ==
    \A t \in Threads : t \in nested \/ (pc[t] = "lock" /\ gExecutorLock # NoThread)
                         => gExecutorLock # t /\ gil # t
==============================================================================
