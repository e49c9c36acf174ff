------------------------- MODULE PythonBindingProofs --------------------------
(***************************************************************************)
(* The conventions that execute keeps with CPython, for any threads,       *)
(* executors and failures of callbacks.                                    *)
(***************************************************************************)
EXTENDS PythonBinding, TLAPS

Looping == Stages \ {"idle", "ret", "returned"}

(* C code runs with the GIL, so that no other thread changes has_error      *)
(* between a callback and the next.                                         *)
HoldsGIL == \A t \in Threads : pc[t] # "idle" /\ t \notin calling => gil = t

CallbacksOK == \A t \in calling : pc[t] \in Callbacks /\ err[t] = "none"

LoopsOK == \A t \in Threads : pc[t] \in Looping => call[t].left # 0 /\ call[t].status = "kGood"

(* Where an exception can be pending in C code: on the way out, or where    *)
(* has_error keeps the next callback from being made.                       *)
PendingAt(t) ==
    \/ pc[t] = "returned"
    \/ pc[t] = "ret" /\ call[t].status # "kGood"
    \/ pc[t] \in {"fetch", "readmem", "writeregs"} /\ has_error[Ex(t)]
    \/ pc[t] = "run" /\ call[t].ins.mem = "agen" /\ has_error[Ex(t)]

Pending == \A t \in Threads : err[t] # "none" => PendingAt(t)

Inv == TypeOK /\ HoldsGIL /\ CallbacksOK /\ LoopsOK /\ Pending /\ ResultConvention
------------------------------------------------------------------------------
(* What an action of t changes.                                             *)

(* The bounds one by one.                                                   *)
LEMMA Bounds ==
    /\ MaxExecutions \in Nat /\ MaxExecutions >= 1 /\ FetchLength \in Nat /\ FetchLength >= 1
    /\ 0 \in 0 .. MaxExecutions /\ FetchLength \in 1 .. FetchLength
<1>1. MaxExecutions \in Nat \ {0} /\ FetchLength \in Nat \ {0}
  BY BoundsAssumption
<1> QED BY <1>1

(* Outside of its callbacks only the thread with the GIL is in execute, so  *)
(* that no other thread has an exception pending.                           *)
LEMMA OthersClean ==
    ASSUME Inv, NEW t \in Threads, gil = t, NEW u \in Threads, u # t
    PROVE  /\ err[u] = "none"
           /\ pc[u] # "idle" => u \in calling
<1>1. pc[u] = "idle" \/ u \in calling
  BY DEF Inv, HoldsGIL
<1>2. CASE u \in calling
  BY <1>2 DEF Inv, CallbacksOK
<1>3. CASE pc[u] = "idle"
  BY <1>3 DEF Inv, Pending, PendingAt
<1> QED BY <1>1, <1>2, <1>3

(* A step that changes the stage and the locals of t's call and no other's. *)
Moves(t) ==
    /\ pc' = [pc EXCEPT ![t] = pc'[t]] /\ pc'[t] \in Stages
    /\ call' = [call EXCEPT ![t] = call'[t]] /\ call'[t] \in Call
    /\ gExecutorLock' \in {gExecutorLock, t, NoThread}

(* ... from one stage of the loop to another, or out of it.                 *)
Advances(t) ==
    /\ Moves(t)
    /\ pc'[t] \notin {"idle", "lock", "returned"}
    /\ call'[t].ex = call[t].ex
    /\ pc'[t] \in Looping => /\ call'[t].left # 0 /\ call'[t].status = "kGood"
                             /\ gExecutorLock' \in {gExecutorLock, t}

(* Locals that tell the same of the callbacks that have failed.             *)
Recalls(c, d) == /\ c.raised = d.raised /\ c.refused = d.refused
                 /\ c.passed = d.passed /\ c.cleared = d.cleared

(* The locals stay within their types when the call leaves the loop.        *)
LEMMA LeaveAdvances ==
    ASSUME Inv, NEW t \in Threads, NEW status \in Statuses, NEW d \in Call,
           d.ex = call[t].ex, LeaveWith(t, status, d)
    PROVE  Advances(t) /\ pc'[t] = "ret" /\ call'[t].status = status /\ Recalls(call'[t], d)
<1> DEFINE c == [d EXCEPT !.left = 0, !.tries = FetchLength, !.ins = NoInstr, !.status = status]
<1>1. t \in DOMAIN call /\ t \in DOMAIN pc
  BY DEF Inv, TypeOK
<1>2. NoInstr \in Instr
  BY DEF NoInstr, Instr
<1>3. c \in Call /\ c.ex = call[t].ex /\ c.status = status /\ Recalls(c, d)
  BY <1>2, Bounds DEF Call, Recalls
<1>4. call' = [call EXCEPT ![t] = c]
  BY DEF LeaveWith
<1>5. pc' = [pc EXCEPT ![t] = "ret"] /\ gExecutorLock' = NoThread
  BY DEF LeaveWith, Goto
<1> QED BY <1>1, <1>3, <1>4, <1>5 DEF Advances, Moves, Looping, Stages, Callbacks, Inv, TypeOK

(* The end of an instruction: the next one, or the return.                  *)
LEMMA AfterAdvances ==
    ASSUME Inv, NEW t \in Threads, pc[t] = "writeregs", AfterInstruction(t)
    PROVE  Advances(t) /\ call'[t].status = "kGood" /\ Recalls(call'[t], call[t])
<1> DEFINE c == [call[t] EXCEPT !.left = @ - 1, !.tries = FetchLength, !.ins = NoInstr]
<1>1. call[t] \in Call /\ t \in DOMAIN call /\ t \in DOMAIN pc
  BY DEF Inv, TypeOK
<1>2. NoInstr \in Instr
  BY DEF NoInstr, Instr
<1>3. call[t].left # 0 /\ call[t].status = "kGood"
  BY DEF Inv, LoopsOK, Looping, Stages, Callbacks, Writes
<1>4. call[t].left - 1 \in 0 .. MaxExecutions
  BY <1>1, <1>3, Bounds DEF Call
<1>5. /\ c \in Call /\ c.ex = call[t].ex /\ c.status = "kGood" /\ c.left = call[t].left - 1
      /\ Recalls(c, call[t])
  BY <1>1, <1>2, <1>3, <1>4, Bounds DEF Call, Recalls
<1>6. call' = [call EXCEPT ![t] = c]
  BY <1>1 DEF AfterInstruction
<1>7. CASE call[t].left = 1
  BY <1>1, <1>5, <1>6, <1>7
  DEF AfterInstruction, Goto, Advances, Moves, Looping, Stages, Callbacks, Inv, TypeOK
<1>8. CASE call[t].left # 1
  <2>1. c.left # 0
    BY <1>1, <1>5, <1>8, Bounds DEF Call
  <2>2. pc' = [pc EXCEPT ![t] = "readpc"] /\ gExecutorLock' = gExecutorLock
    BY <1>8 DEF AfterInstruction, Goto
  <2> QED BY <1>1, <1>5, <1>6, <2>1, <2>2
          DEF Advances, Moves, Looping, Stages, Callbacks, Reads, Inv, TypeOK
<1> QED BY <1>7, <1>8

(* Every callback but the last has a stage that follows it.                 *)
LEMMA FollowingStage ==
    ASSUME NEW t \in Threads, pc[t] \in Callbacks, pc[t] # "writeregs"
    PROVE  Following(t) \in Looping \ {"lock"}
BY DEF Following, Looping, Stages, Callbacks, Reads, Writes, Addresses

(* A stage of the loop after another, with the same locals.                 *)
LEMMA GotoAdvances ==
    ASSUME Inv, NEW t \in Threads, NEW s \in Looping \ {"lock"}, pc[t] \in Looping,
           Goto(t, s), UNCHANGED <<call, gExecutorLock>>
    PROVE  Advances(t) /\ pc'[t] = s
<1>1. call[t] \in Call /\ t \in DOMAIN call /\ t \in DOMAIN pc
  BY DEF Inv, TypeOK
<1>2. call[t].left # 0 /\ call[t].status = "kGood"
  BY DEF Inv, LoopsOK
<1>3. call' = [call EXCEPT ![t] = call'[t]] /\ call'[t] = call[t]
  BY <1>1 DEF Inv, TypeOK
<1>4. pc' = [pc EXCEPT ![t] = s]
  BY DEF Goto
<1> QED BY <1>1, <1>2, <1>3, <1>4 DEF Advances, Moves, Looping

LEMMA SucceedAdvances ==
    ASSUME Inv, NEW t \in Threads, pc[t] \in Callbacks, Succeed(t)
    PROVE  Advances(t) /\ call'[t].status = "kGood" /\ Recalls(call'[t], call[t])
<1>1. CASE pc[t] = "writeregs"
  BY <1>1, AfterAdvances DEF Succeed
<1>2. CASE pc[t] # "writeregs"
  <2>1. Following(t) \in Looping \ {"lock"}
    BY <1>2, FollowingStage
  <2>2. Goto(t, Following(t)) /\ UNCHANGED <<call, gExecutorLock>>
    BY <1>2 DEF Succeed
  <2>3. pc[t] \in Looping
    BY DEF Looping, Stages, Callbacks, Reads, Writes, Addresses
  <2>4. Advances(t) /\ call' = call
    BY <2>1, <2>2, <2>3, GotoAdvances
  <2>5. call[t].status = "kGood"
    BY <2>3 DEF Inv, LoopsOK
  <2> QED BY <2>4, <2>5 DEF Recalls
<1> QED BY <1>1, <1>2

(* What is noted of a failed callback, field by field. *)
LEMMA NotedCall ==
    ASSUME NEW t \in Threads, call[t] \in Call, NEW raised \in BOOLEAN,
           NEW refusal \in Conversions \cup {"none"}
    PROVE  LET c == call[t]
               n == Noted(t, raised, refusal)
               passed == refusal = "TypeError" /\ pc[t] \in Addresses \cup {"fetch"}
               cleared == \/ refusal = "OverflowError" /\ pc[t] \in {"cs", "fetch"}
                          \/ raised /\ pc[t] = "cs"
           IN  /\ n \in Call
               /\ n.ex = c.ex /\ n.left = c.left /\ n.tries = c.tries
               /\ n.ins = c.ins /\ n.status = c.status
               /\ n.raised <=> c.raised \/ (raised /\ pc[t] \notin {"cs", "fetch"})
               /\ n.refused = IF refusal = "none" \/ passed \/ cleared THEN c.refused ELSE refusal
               /\ n.passed <=> c.passed \/ passed
               /\ n.cleared <=> c.cleared \/ cleared
<1> DEFINE c == call[t]
           passed == refusal = "TypeError" /\ pc[t] \in Addresses \cup {"fetch"}
           cleared == \/ refusal = "OverflowError" /\ pc[t] \in {"cs", "fetch"}
                      \/ raised /\ pc[t] = "cs"
           r == c.raised \/ (raised /\ ~(pc[t] \in {"cs", "fetch"}))
           f == IF refusal = "none" \/ passed \/ cleared THEN c.refused ELSE refusal
           p == c.passed \/ passed
           x == c.cleared \/ cleared
           n == Noted(t, raised, refusal)
<1>1. n = [c EXCEPT !.raised = r, !.refused = f, !.passed = p, !.cleared = x]
  BY DEF Noted
<1>2. r \in BOOLEAN /\ f \in Conversions \cup {"none"} /\ p \in BOOLEAN /\ x \in BOOLEAN
  BY DEF Call
<1>3. /\ n \in Call
      /\ n.ex = c.ex /\ n.left = c.left /\ n.tries = c.tries
      /\ n.ins = c.ins /\ n.status = c.status
      /\ n.raised = r /\ n.refused = f /\ n.passed = p /\ n.cleared = x
  <2> HIDE DEF r, f, p, x
  <2> QED BY <1>1, <1>2 DEF Call
<1> HIDE DEF n
<1> QED BY <1>3 DEF n

(* Nothing is noted of a callback that is not called. *)
LEMMA NothingNoted ==
    ASSUME NEW t \in Threads, call[t] \in Call
    PROVE  Recalls(Noted(t, FALSE, "none"), call[t])
<1> DEFINE c == call[t]
           p == c.passed \/ FALSE
           x == c.cleared \/ FALSE
           r == c.raised \/ FALSE
<1>1. Noted(t, FALSE, "none") = [c EXCEPT !.raised = r, !.refused = c.refused,
                                          !.passed = p, !.cleared = x]
  BY DEF Noted
<1>2. r = c.raised /\ p = c.passed /\ x = c.cleared
  BY DEF Call
<1> HIDE DEF p, x, r
<1> QED BY <1>1, <1>2 DEF Recalls, Call

(* Where a callback that fails leaves the call: past an address, before     *)
(* another fetch, or out of the loop with an error status.                  *)
LEMMA FailAdvances ==
    ASSUME Inv, NEW t \in Threads, pc[t] \in Callbacks, NEW raised \in BOOLEAN,
           NEW refusal \in Conversions \cup {"none"}, Fail(t, raised, refusal)
    PROVE  /\ Advances(t) /\ Recalls(call'[t], Noted(t, raised, refusal))
           /\ pc[t] = "cs" => pc'[t] = "fetch"
           /\ pc[t] = "address" => \/ pc'[t] = "readmem"
                                   \/ pc'[t] = "run" /\ call'[t].ins.mem = "agen"
           /\ pc[t] = "fetch" => \/ pc'[t] = "fetch"
                                 \/ pc'[t] = "ret" /\ call'[t].status = "kErrorReadInstMem"
           /\ pc[t] \notin Addresses \cup {"fetch"} =>
                 pc'[t] = "ret" /\ call'[t].status = "kErrorCallback"
<1> DEFINE c == Noted(t, raised, refusal)
<1>1. call[t] \in Call /\ t \in DOMAIN call /\ t \in DOMAIN pc /\ pc[t] \in Looping
  BY DEF Inv, TypeOK, Looping, Stages, Callbacks, Reads, Writes, Addresses
<1>2. call[t].left # 0 /\ call[t].status = "kGood"
  BY <1>1 DEF Inv, LoopsOK
<1>3. /\ c \in Call /\ c.ex = call[t].ex /\ c.left = call[t].left /\ c.tries = call[t].tries
      /\ c.ins = call[t].ins /\ c.status = call[t].status
  BY <1>1, NotedCall
<1>4. CASE pc[t] \in Addresses
  <2>1. Goto(t, Following(t)) /\ call' = [call EXCEPT ![t] = c] /\ UNCHANGED gExecutorLock
    BY <1>4 DEF Fail, Addresses
  <2>2. Following(t) \in Looping \ {"lock"}
    BY <1>4, FollowingStage DEF Addresses
  <2>3. pc' = [pc EXCEPT ![t] = Following(t)]
    BY <2>1 DEF Goto
  <2> HIDE DEF c
  <2>4. pc'[t] = Following(t) /\ call'[t] = c
    BY <1>1, <2>1, <2>3
  <2>5. Advances(t)
    BY <1>1, <1>2, <1>3, <2>1, <2>2, <2>3, <2>4 DEF Advances, Moves, Looping, Inv, TypeOK
  <2>6. pc[t] = "cs" => Following(t) = "fetch"
    BY DEF Following
  <2>7. pc[t] = "address" => Following(t) = IF call[t].ins.mem = "agen" THEN "run" ELSE "readmem"
    BY DEF Following
  <2> QED BY <1>3, <1>4, <2>4, <2>5, <2>6, <2>7 DEF Addresses, Recalls, c
<1>5. CASE pc[t] = "fetch" /\ call[t].tries > 1
  <2> DEFINE d == [c EXCEPT !.tries = @ - 1]
  <2>1. call' = [call EXCEPT ![t] = d] /\ UNCHANGED <<pc, gExecutorLock>>
    BY <1>5 DEF Fail, Addresses
  <2> HIDE DEF c
  <2>2. c.tries - 1 \in 1 .. FetchLength
    BY <1>1, <1>3, <1>5, Bounds DEF Call
  <2>3. d \in Call /\ d.ex = call[t].ex /\ d.left = call[t].left
        /\ d.status = call[t].status /\ Recalls(d, c)
    BY <1>3, <2>2 DEF Call, Recalls
  <2> HIDE DEF d
  <2>4. call'[t] = d
    BY <1>1, <2>1
  <2> QED BY <1>1, <1>2, <1>5, <2>1, <2>3, <2>4
          DEF Advances, Moves, Looping, Inv, TypeOK, Addresses, c
<1>6. CASE pc[t] = "fetch" /\ call[t].tries = 1
  <2>1. LeaveWith(t, "kErrorReadInstMem", c)
    BY <1>6 DEF Fail, Addresses
  <2>2. "kErrorReadInstMem" \in Statuses
    BY DEF Statuses
  <2> QED BY <1>3, <1>6, <2>1, <2>2, LeaveAdvances DEF Addresses
<1>7. CASE pc[t] \notin Addresses /\ ~(pc[t] = "fetch" /\ call[t].tries > 1)
              /\ ~(pc[t] = "fetch" /\ call[t].tries = 1)
  <2>1. LeaveWith(t, "kErrorCallback", c)
    BY <1>7 DEF Fail
  <2>2. "kErrorCallback" \in Statuses
    BY DEF Statuses
  <2>3. pc[t] \notin Addresses \cup {"fetch"}
    BY <1>1, <1>7, Bounds DEF Call
  <2>4. /\ Advances(t) /\ pc'[t] = "ret" /\ call'[t].status = "kErrorCallback"
        /\ Recalls(call'[t], c)
    BY <1>3, <2>1, <2>2, LeaveAdvances
  <2> QED BY <2>3, <2>4 DEF Addresses
<1> QED BY <1>4, <1>5, <1>6, <1>7
------------------------------------------------------------------------------
(* The steps of the loop of Execute.                                        *)

(* What is left to show of a step that advances t's call: the types of what *)
(* the callbacks fail with, and that t does not forget an exception.        *)
Records(t) ==
    /\ has_error' \in [Execs -> BOOLEAN]
    /\ error' \in [Execs -> {"none", "TypeError", "ValueError"}]
    /\ err' = [err EXCEPT ![t] = err'[t]] /\ err'[t] \in Exceptions \cup {"none"}

LEMMA AdvanceKeepsInv ==
    ASSUME Inv, NEW t \in Threads, gil = t, t \notin nested, Advances(t), Records(t),
           calling' = calling \ {t}, UNCHANGED <<gil, made, nested>>,
           err'[t] # "none" => PendingAt(t)'
    PROVE  Inv'
<1>0. t \in DOMAIN pc /\ t \in DOMAIN call /\ t \in DOMAIN err
  BY DEF Inv, TypeOK
<1>1. ASSUME NEW u \in Threads, u # t
      PROVE  pc'[u] = pc[u] /\ call'[u] = call[u] /\ err'[u] = err[u] /\ err[u] = "none"
             /\ (u \in calling' <=> u \in calling) /\ (pc[u] # "idle" => u \in calling)
  BY <1>1, OthersClean DEF Advances, Moves, Records, Inv, TypeOK
<1>2. TypeOK'
  BY DEF Inv, TypeOK, Advances, Moves, Records
<1>3. HoldsGIL'
  BY <1>1 DEF HoldsGIL
<1>4. CallbacksOK'
  BY <1>1 DEF Inv, CallbacksOK, TypeOK
<1>5. LoopsOK'
  BY <1>1 DEF Inv, LoopsOK, Advances
<1>6. Pending'
  BY <1>1 DEF Pending
<1>7. ResultConvention'
  BY <1>1 DEF Inv, ResultConvention, Advances
<1> QED BY <1>2, <1>3, <1>4, <1>5, <1>6, <1>7 DEF Inv

LEMMA LockKeepsInv ==
    ASSUME Inv, NEW t \in Threads, Lock(t)
    PROVE  Inv'
<1>1. /\ gil = t /\ t \notin calling /\ t \notin nested /\ pc[t] = "lock"
      /\ calling' = calling \ {t} /\ t \in DOMAIN pc /\ err[t] = "none"
  BY DEF Lock, RunsC, Inv, TypeOK, Pending, PendingAt
<1>2. "readpc" \in Looping /\ "lock" \in Looping
  BY DEF Looping, Stages, Callbacks, Reads
<1>3. pc' = [pc EXCEPT ![t] = "readpc"] /\ call' = call
  BY DEF Lock, Goto
<1>4. call'[t].left # 0 /\ call'[t].status = "kGood"
  BY <1>1, <1>2, <1>3 DEF Inv, LoopsOK
<1>5. Advances(t)
  BY <1>1, <1>2, <1>3, <1>4 DEF Advances, Moves, Lock, Looping, Inv, TypeOK
<1>6. Records(t) /\ err'[t] = "none"
  BY <1>1 DEF Records, Lock, Inv, TypeOK
<1> QED BY <1>1, <1>5, <1>6, AdvanceKeepsInv DEF Lock

(* Decode starts the instruction, or leaves with a status that has an       *)
(* exception of its own.                                                    *)
LEMMA DecodeAdvances ==
    ASSUME Inv, NEW t \in Threads, Decode(t)
    PROVE  /\ Advances(t) /\ Recalls(call'[t], call[t])
           /\ pc'[t] # "ret" \/ call'[t].status # "kErrorCallback"
<1>1. pc[t] = "decode" /\ t \in DOMAIN pc /\ t \in DOMAIN call
  BY DEF Decode, Inv, TypeOK
<1>2. call[t] \in Call
  BY DEF Inv, TypeOK
<1>3. CASE \E s \in {"kErrorDecode", "kErrorUnsupported"} : LeaveWith(t, s, call[t])
  <2>1. PICK s \in {"kErrorDecode", "kErrorUnsupported"} : LeaveWith(t, s, call[t])
    BY <1>3
  <2>2. s \in Statuses /\ s # "kErrorCallback"
    BY DEF Statuses, OwnError
  <2> QED BY <1>2, <2>1, <2>2, LeaveAdvances
<1>4. CASE \E i \in Instr : /\ Goto(t, "readregs")
                            /\ call' = [call EXCEPT ![t].ins = i]
                            /\ UNCHANGED gExecutorLock
  <2>1. PICK i \in Instr : /\ Goto(t, "readregs")
                           /\ call' = [call EXCEPT ![t].ins = i]
                           /\ UNCHANGED gExecutorLock
    BY <1>4
  <2> DEFINE c == [call[t] EXCEPT !.ins = i]
  <2>2. /\ c \in Call /\ c.ex = call[t].ex /\ c.left = call[t].left
        /\ c.status = call[t].status /\ Recalls(c, call[t])
    BY <1>2, <2>1 DEF Call, Recalls
  <2>3. call[t].left # 0 /\ call[t].status = "kGood"
    BY <1>1 DEF Inv, LoopsOK, Looping, Stages
  <2> QED BY <1>1, <2>1, <2>2, <2>3
          DEF Goto, Advances, Moves, Stages, Callbacks, Reads, Inv, TypeOK
<1> QED BY <1>3, <1>4 DEF Decode

LEMMA DecodeKeepsInv ==
    ASSUME Inv, NEW t \in Threads, Decode(t)
    PROVE  Inv'
<1>1. /\ gil = t /\ t \notin calling /\ t \notin nested
      /\ calling' = calling \ {t} /\ err[t] = "none" /\ t \in DOMAIN err
  BY DEF Decode, RunsC, Inv, TypeOK, Pending, PendingAt
<1>2. Records(t) /\ err'[t] = "none"
  BY <1>1 DEF Records, Decode, Inv, TypeOK
<1> QED BY <1>1, <1>2, DecodeAdvances, AdvanceKeepsInv DEF Decode

(* Emulate and the JIT refuse only instructions without an AGEN operand.    *)
LEMMA RunAdvances ==
    ASSUME Inv, NEW t \in Threads, Run(t)
    PROVE  /\ Advances(t) /\ Recalls(call'[t], call[t])
           /\ pc'[t] # "ret" \/ call'[t].status # "kErrorCallback"
           /\ call[t].ins.mem = "agen" => pc'[t] = "writeregs"
<1>1. pc[t] = "run" /\ t \in DOMAIN pc /\ t \in DOMAIN call
  BY DEF Run, Inv, TypeOK
<1>2. call[t] \in Call /\ call[t].ins \in Instr
  BY DEF Inv, TypeOK, Call
<1>3. CASE /\ call[t].ins.mem # "agen"
           /\ \E s \in Refusals : LeaveWith(t, s, call[t])
  <2>1. PICK s \in Refusals : LeaveWith(t, s, call[t])
    BY <1>3
  <2>2. s \in Statuses /\ s # "kErrorCallback"
    BY DEF Statuses, OwnError, Refusals
  <2> QED BY <1>2, <1>3, <2>1, <2>2, LeaveAdvances
<1>4. CASE /\ Goto(t, IF call[t].ins.mem = "store" THEN "writemem"
                      ELSE IF call[t].ins.fpu THEN "writefpu" ELSE "writeregs")
           /\ UNCHANGED <<gExecutorLock, call>>
  <2> DEFINE s == IF call[t].ins.mem = "store" THEN "writemem"
                  ELSE IF call[t].ins.fpu THEN "writefpu" ELSE "writeregs"
  <2>1. s \in Looping \ {"lock"} /\ pc[t] \in Looping /\ s # "ret"
    BY <1>1 DEF Looping, Stages, Callbacks, Writes
  <2>2. Goto(t, s) /\ UNCHANGED <<call, gExecutorLock>>
    BY <1>4
  <2>3. call[t].ins.mem = "agen" => s = "writeregs"
    BY <1>2 DEF Instr
  <2> HIDE DEF s
  <2>4. Advances(t) /\ pc'[t] = s
    BY <2>1, <2>2, GotoAdvances
  <2> QED BY <1>4, <2>1, <2>3, <2>4 DEF Recalls
<1> QED BY <1>3, <1>4 DEF Run

LEMMA RunKeepsInv ==
    ASSUME Inv, NEW t \in Threads, Run(t)
    PROVE  Inv'
<1>1. /\ gil = t /\ t \notin calling /\ t \notin nested /\ pc[t] = "run"
      /\ calling' = calling \ {t} /\ t \in DOMAIN err
  BY DEF Run, RunsC, Inv, TypeOK
<1>2. Records(t) /\ err'[t] = err[t]
  BY <1>1 DEF Records, Run, Inv, TypeOK
<1>3. Advances(t) /\ (call[t].ins.mem = "agen" => pc'[t] = "writeregs")
  BY RunAdvances
<1>4. ASSUME err'[t] # "none"
      PROVE  PendingAt(t)'
  <2>1. call[t].ins.mem = "agen" /\ has_error[Ex(t)]
    BY <1>1, <1>2, <1>4 DEF Inv, Pending, PendingAt
  <2>2. has_error' = has_error /\ Ex(t)' = Ex(t)
    BY <1>3 DEF Run, Ex, Advances
  <2> QED BY <1>3, <2>1, <2>2 DEF PendingAt
<1> QED BY <1>1, <1>2, <1>3, <1>4, AdvanceKeepsInv DEF Run

------------------------------------------------------------------------------
(* The callbacks.                                                           *)

LEMMA InvokeKeepsInv ==
    ASSUME Inv, NEW t \in Threads, Invoke(t)
    PROVE  Inv'
<1>1. /\ gil = t /\ t \notin calling /\ pc[t] \in Callbacks /\ ~Guarded(t)
      /\ calling' = calling \cup {t}
  BY DEF Invoke, RunsC
<1>2. err[t] = "none"
  BY <1>1 DEF Guarded, Inv, Pending, PendingAt, Callbacks, Reads, Writes, Addresses
<1>3. TypeOK'
  BY <1>1 DEF Invoke, Inv, TypeOK
<1>4. HoldsGIL' /\ LoopsOK' /\ ResultConvention'
  BY <1>1 DEF Invoke, Inv, HoldsGIL, LoopsOK, ResultConvention
<1>5. CallbacksOK'
  BY <1>1, <1>2 DEF Invoke, Inv, CallbacksOK
<1>6. Pending'
  BY DEF Invoke, Inv, Pending, PendingAt, Ex
<1> QED BY <1>3, <1>4, <1>5, <1>6 DEF Inv

(* With has_error set a callback fails without an answer, and the exception *)
(* that may be pending stays so up to the return.                           *)
LEMMA SkipKeepsInv ==
    ASSUME Inv, NEW t \in Threads, Skip(t)
    PROVE  Inv'
<1>1. /\ gil = t /\ t \notin calling /\ t \notin nested /\ pc[t] \in Callbacks
      /\ calling' = calling \ {t} /\ t \in DOMAIN pc /\ t \in DOMAIN err
  BY DEF Skip, RunsC, Inv, TypeOK
<1>2. /\ Advances(t)
      /\ pc[t] \notin Addresses \cup {"fetch"} => pc'[t] = "ret" /\ call'[t].status # "kGood"
  BY <1>1, FailAdvances DEF Skip
<1>3. Records(t)
  BY <1>1 DEF Records, Skip, Inv, TypeOK
<1>4. ASSUME err'[t] # "none"
      PROVE  PendingAt(t)'
  <2>1. err'[t] = (IF pc[t] = "fetch" THEN "none" ELSE err[t])
    BY <1>1 DEF Skip
  <2>2. pc[t] # "fetch" /\ err[t] # "none"
    BY <1>4, <2>1
  <2>3. pc[t] \in {"readmem", "writeregs"}
    BY <1>1, <2>2 DEF Inv, Pending, PendingAt, Callbacks, Reads, Writes, Addresses
  <2>4. pc'[t] = "ret" /\ call'[t].status # "kGood"
    BY <1>2, <2>3 DEF Addresses
  <2> QED BY <2>4 DEF PendingAt
<1> QED BY <1>1, <1>2, <1>3, <1>4, AdvanceKeepsInv DEF Skip

(* The answers that the binding refuses. *)
LEMMA RefusalKeepsInv ==
    ASSUME Inv, NEW t \in Threads, gil = t, t \in calling, t \notin nested,
           NEW raised \in BOOLEAN, NEW refusal \in Conversions \cup {"none"},
           Fail(t, raised, refusal), Records(t), calling' = calling \ {t}, UNCHANGED <<gil, made, nested>>,
           err'[t] # "none" => pc[t] # "fetch" /\ (pc[t] \in Addresses => has_error'[Ex(t)])
    PROVE  Inv'
<1>1. pc[t] \in Callbacks
  BY DEF Inv, CallbacksOK
<1>2. /\ Advances(t)
      /\ pc[t] = "cs" => pc'[t] = "fetch"
      /\ pc[t] = "address" => \/ pc'[t] = "readmem"
                              \/ pc'[t] = "run" /\ call'[t].ins.mem = "agen"
      /\ pc[t] \notin Addresses \cup {"fetch"} => pc'[t] = "ret" /\ call'[t].status # "kGood"
  BY <1>1, FailAdvances
<1>3. Ex(t)' = Ex(t)
  BY <1>2 DEF Ex, Advances
<1>4. ASSUME err'[t] # "none"
      PROVE  PendingAt(t)'
  <2>1. CASE pc[t] \in Addresses
    BY <1>2, <1>3, <1>4, <2>1 DEF PendingAt, Addresses
  <2>2. CASE pc[t] \notin Addresses
    BY <1>2, <1>4, <2>2 DEF PendingAt
  <2> QED BY <2>1, <2>2
<1> QED BY <1>2, <1>4, AdvanceKeepsInv

LEMMA AnswerKeepsInv ==
    ASSUME Inv, NEW t \in Threads, NEW a \in {"value", "raise", "type", "size", "range"},
           Answer(t, a)
    PROVE  Inv'
<1>1. /\ gil = t /\ t \in calling /\ t \notin nested /\ calling' = calling \ {t}
      /\ pc[t] \in Callbacks /\ err[t] = "none" /\ a \in Answers(pc[t])
      /\ t \in DOMAIN err /\ UNCHANGED <<gil, made, nested>>
  BY DEF Answer, RunsPython, InPython, Inv, CallbacksOK, TypeOK
<1>2. Ex(t) \in Execs
  BY DEF Ex, Inv, TypeOK, Call
<1>3. CASE a = "value"
  <2>1. Succeed(t) /\ UNCHANGED <<err, has_error, error>>
    BY <1>3 DEF Answer
  <2>2. Advances(t)
    BY <1>1, <2>1, SucceedAdvances
  <2>3. Records(t) /\ err'[t] = "none"
    BY <1>1, <2>1 DEF Records, Inv, TypeOK
  <2> QED BY <1>1, <2>2, <2>3, AdvanceKeepsInv
<1>4. CASE a = "raise"
  <2>1. Raised(t) /\ Fail(t, TRUE, "none")
    BY <1>4 DEF Answer
  <2>2. Records(t)
    BY <1>1, <1>2, <2>1 DEF Raised, Records, Exceptions, Inv, TypeOK
  <2>3. err'[t] # "none" => pc[t] # "fetch" /\ (pc[t] \in Addresses => has_error'[Ex(t)])
    BY <1>1, <1>2, <2>1 DEF Raised, Inv, TypeOK
  <2> QED BY <1>1, <2>1, <2>2, <2>3, RefusalKeepsInv DEF Conversions
<1>5. CASE a = "type"
  <2> DEFINE f == IF pc[t] = "readfpu" THEN "ValueError" ELSE "TypeError"
  <2>1. WrongType(t) /\ Fail(t, FALSE, f)
    BY <1>5 DEF Answer
  <2>2. Records(t) /\ err'[t] = "none"
    BY <1>1, <1>2, <2>1 DEF WrongType, Records, Inv, TypeOK
  <2> QED BY <1>1, <2>1, <2>2, RefusalKeepsInv DEF Conversions
<1>6. CASE a = "size"
  <2>1. WrongSize(t) /\ Fail(t, FALSE, "ValueError")
    BY <1>6 DEF Answer
  <2>2. Records(t) /\ err'[t] = "none"
    BY <1>1, <1>2, <2>1 DEF WrongSize, Records, Inv, TypeOK
  <2> QED BY <1>1, <2>1, <2>2, RefusalKeepsInv DEF Conversions
<1>7. CASE a = "range"
  <2>1. OutOfRange(t) /\ Fail(t, FALSE, "OverflowError")
    BY <1>7 DEF Answer
  <2>2. Records(t)
    BY <1>1, <1>2, <2>1 DEF OutOfRange, Records, Exceptions, Conversions, Inv, TypeOK
  <2>3. err'[t] # "none" => pc[t] # "fetch" /\ (pc[t] \in Addresses => has_error'[Ex(t)])
    BY <1>1, <1>2, <2>1 DEF OutOfRange, Inv, TypeOK
  <2> QED BY <1>1, <2>1, <2>2, <2>3, RefusalKeepsInv DEF Conversions
<1> QED BY <1>3, <1>4, <1>5, <1>6, <1>7
------------------------------------------------------------------------------
(* The other actions.                                                       *)

LEMMA GILKeepsInv ==
    ASSUME Inv, NEW t \in Threads, DropGIL(t) \/ TakeGIL(t)
    PROVE  Inv'
<1>1. UNCHANGED <<gExecutorLock, made, has_error, error, err, pc, calling, nested, call>>
      /\ gil' \in Threads \cup {NoThread}
  BY DEF DropGIL, TakeGIL
<1>2. TypeOK'
  BY <1>1 DEF Inv, TypeOK
<1>3. CallbacksOK' /\ LoopsOK' /\ ResultConvention'
  BY <1>1 DEF Inv, CallbacksOK, LoopsOK, ResultConvention
<1>4. Pending'
  BY <1>1 DEF Inv, Pending, PendingAt, Ex
<1>5. HoldsGIL'
  BY <1>1, ThreadsAssumption
  DEF DropGIL, TakeGIL, RunsPython, InPython, Inv, HoldsGIL, TypeOK
<1> QED BY <1>2, <1>3, <1>4, <1>5 DEF Inv

(* Python code that changes has_error and error of any executor finds no    *)
(* exception pending in another thread's call.                              *)
LEMMA ClearKeepsInv ==
    ASSUME Inv, NEW t \in Threads, RunsPython(t), NEW e \in Execs,
           has_error' = [has_error EXCEPT ![e] = FALSE],
           error' = [error EXCEPT ![e] = "none"],
           made' \in SUBSET Execs, nested' = nested \/ (nested' = nested \cup {t} /\ t \in calling),
           UNCHANGED <<gil, gExecutorLock, err, pc, calling, call>>
    PROVE  Inv'
<1>1. TypeOK'
  BY DEF Inv, TypeOK
<1>2. HoldsGIL' /\ CallbacksOK' /\ LoopsOK' /\ ResultConvention'
  BY DEF Inv, HoldsGIL, CallbacksOK, LoopsOK, ResultConvention
<1>3. Pending'
  <2>1. ASSUME NEW u \in Threads, err[u] # "none"
        PROVE  FALSE
    <3>1. u = t
      BY <2>1, OthersClean DEF RunsPython
    <3> QED BY <2>1, <3>1 DEF RunsPython, InPython, Inv, CallbacksOK, Pending, PendingAt
  <2> QED BY <2>1 DEF Pending
<1> QED BY <1>1, <1>2, <1>3 DEF Inv

LEMMA ExecuteKeepsInv ==
    ASSUME Inv, NEW t \in Threads, NEW e \in Execs, NEW n \in 1 .. MaxExecutions,
           Executor_Execute(t, e, n)
    PROVE  Inv'
<1>1. gil = t /\ pc[t] = "idle" /\ t \in DOMAIN pc /\ t \in DOMAIN call /\ err[t] = "none"
      /\ t \notin calling
  BY DEF Executor_Execute, RunsPython, InPython, Inv, TypeOK, Pending, PendingAt,
         CallbacksOK, Callbacks, Reads, Writes, Addresses
<1>2. pc' = [pc EXCEPT ![t] = "lock"] /\ call' = [call EXCEPT ![t] = NewCall(e, n)]
      /\ UNCHANGED <<gil, gExecutorLock, made, err, calling, nested>>
  BY DEF Executor_Execute
<1>3. NoInstr \in Instr
  BY DEF NoInstr, Instr
<1>4. NewCall(e, n) \in Call /\ NewCall(e, n).left # 0 /\ NewCall(e, n).status = "kGood"
  BY <1>3, Bounds DEF NewCall, Call, Statuses
<1>5. TypeOK'
  BY <1>2, <1>4 DEF Executor_Execute, ClearErrors, Inv, TypeOK, Stages
<1>6. HoldsGIL' /\ ResultConvention'
  BY <1>1, <1>2 DEF Inv, HoldsGIL, ResultConvention
<1>7. CallbacksOK'
  BY <1>1, <1>2 DEF Inv, CallbacksOK, TypeOK
<1>8. LoopsOK'
  BY <1>1, <1>2, <1>4 DEF Inv, LoopsOK
<1>9. Pending'
  BY <1>1, <1>2, OthersClean DEF Pending
<1> QED BY <1>5, <1>6, <1>7, <1>8, <1>9 DEF Inv

(* What Executor_Execute ends with matches the status that Execute ended    *)
(* with.                                                                    *)
LEMMA ReturnKeepsInv ==
    ASSUME Inv, NEW t \in Threads, Return(t)
    PROVE  Inv'
<1>1. gil = t /\ pc[t] = "ret" /\ t \in DOMAIN pc /\ t \in DOMAIN call /\ t \in DOMAIN err
      /\ t \notin calling /\ Ex(t) \in Execs /\ call[t] \in Call
  BY DEF Return, RunsC, Ex, Inv, TypeOK, Call
<1> DEFINE r == IF call[t].status = "kGood" THEN "True" ELSE "NULL"
           c == [call[t] EXCEPT !.result = r]
<1>2. pc' = [pc EXCEPT ![t] = "returned"] /\ call' = [call EXCEPT ![t] = c]
      /\ err' = [err EXCEPT ![t] = Thrown(t)]
      /\ UNCHANGED <<gil, gExecutorLock, made, has_error, calling, nested>>
  BY <1>1 DEF Return, Goto
<1>3. c \in Call /\ c.result = r
  BY <1>1 DEF Call
<1>4. Thrown(t) \in Exceptions \cup {"none"}
  BY <1>1 DEF Thrown, Exceptions, Conversions, OwnError, Inv, TypeOK
<1>5. Thrown(t) = "none" <=> call[t].status = "kGood"
  <2>1. call[t].status = "kGood" => err[t] = "none"
    BY <1>1 DEF Inv, Pending, PendingAt
  <2> QED BY <2>1 DEF Thrown, OwnError
<1>6. TypeOK'
  <2>1. error' \in [Execs -> {"none", "TypeError", "ValueError"}]
    BY DEF Return, Inv, TypeOK
  <2> QED BY <1>2, <1>3, <1>4, <2>1 DEF Inv, TypeOK, Stages
<1>7. HoldsGIL'
  BY <1>1, <1>2 DEF Inv, HoldsGIL
<1>8. CallbacksOK'
  BY <1>1, <1>2 DEF Inv, CallbacksOK, TypeOK
<1>9. LoopsOK'
  BY <1>1, <1>2 DEF Inv, LoopsOK, Looping
<1>10. Pending'
  BY <1>1, <1>2, OthersClean DEF Pending, PendingAt
<1>11. ResultConvention'
  BY <1>1, <1>2, <1>3, <1>5 DEF Inv, ResultConvention
<1> QED BY <1>6, <1>7, <1>8, <1>9, <1>10, <1>11 DEF Inv

LEMMA ResumeKeepsInv ==
    ASSUME Inv, NEW t \in Threads, Resume(t)
    PROVE  Inv'
<1>1. gil = t /\ t \in DOMAIN pc /\ t \in DOMAIN call /\ t \in DOMAIN err /\ t \notin calling
      /\ pc' = [pc EXCEPT ![t] = "idle"] /\ err' = [err EXCEPT ![t] = "none"]
      /\ call' = [call EXCEPT ![t] = NoCall]
      /\ UNCHANGED <<gil, gExecutorLock, made, has_error, error, calling, nested>>
  BY DEF Resume, RunsC, Inv, TypeOK
<1>2. NoInstr \in Instr
  BY DEF NoInstr, Instr
<1>3. NoCall \in Call
  BY <1>2, Bounds, ThreadsAssumption DEF NoCall, NewCall, Call, Statuses
<1>4. TypeOK'
  BY <1>1, <1>3 DEF Inv, TypeOK, Stages
<1>5. HoldsGIL' /\ ResultConvention'
  BY <1>1 DEF Inv, HoldsGIL, ResultConvention
<1>6. CallbacksOK'
  BY <1>1 DEF Inv, CallbacksOK, TypeOK
<1>7. LoopsOK'
  BY <1>1 DEF Inv, LoopsOK, Looping
<1>8. Pending'
  BY <1>1, OthersClean DEF Pending, PendingAt
<1> QED BY <1>4, <1>5, <1>6, <1>7, <1>8 DEF Inv

------------------------------------------------------------------------------
LEMMA InitInv == Init => Inv
<1> SUFFICES ASSUME Init PROVE Inv
  OBVIOUS
<1>1. NoInstr \in Instr
  BY DEF NoInstr, Instr
<1>2. NoCall \in Call
  BY <1>1, Bounds, ThreadsAssumption DEF NoCall, NewCall, Call, Statuses
<1>3. TypeOK
  BY <1>2 DEF Init, TypeOK, Stages
<1>4. HoldsGIL /\ CallbacksOK /\ LoopsOK /\ Pending /\ ResultConvention
  BY DEF Init, HoldsGIL, CallbacksOK, LoopsOK, Looping, Pending, ResultConvention
<1> QED BY <1>3, <1>4 DEF Inv

LEMMA NextInv == Inv /\ [Next]_vars => Inv'
<1> SUFFICES ASSUME Inv, [Next]_vars PROVE Inv'
  OBVIOUS
<1>1. ASSUME NEW t \in Threads, DropGIL(t) \/ TakeGIL(t)
      PROVE  Inv'
  BY <1>1, GILKeepsInv
<1>2. ASSUME NEW t \in Threads, NEW e \in Execs,
             Executor_init(t, e) \/ ExecuteNothing(t, e) \/ Reenter(t, e)
      PROVE  Inv'
  <2>1. /\ has_error' = [has_error EXCEPT ![e] = FALSE]
        /\ error' = [error EXCEPT ![e] = "none"]
        /\ UNCHANGED <<gil, gExecutorLock, err, pc, calling, call>>
    BY <1>2 DEF Executor_init, ExecuteNothing, Reenter, ClearErrors
  <2>2. RunsPython(t) /\ made' \in SUBSET Execs
    BY <1>2 DEF Executor_init, ExecuteNothing, Reenter, Inv, TypeOK
  <2>3. nested' = nested \/ (nested' = nested \cup {t} /\ t \in calling)
    BY <1>2 DEF Executor_init, ExecuteNothing, Reenter
  <2> QED BY <2>1, <2>2, <2>3, ClearKeepsInv
<1>3. ASSUME NEW t \in Threads, NEW e \in Execs, NEW n \in 1 .. MaxExecutions,
             Executor_Execute(t, e, n)
      PROVE  Inv'
  BY <1>3, ExecuteKeepsInv
<1>4. ASSUME NEW t \in Threads, Work(t)
      PROVE  Inv'
  BY <1>4, LockKeepsInv, InvokeKeepsInv, SkipKeepsInv, DecodeKeepsInv, RunKeepsInv,
     ReturnKeepsInv, ResumeKeepsInv, AnswerKeepsInv DEF Work
<1>5. CASE UNCHANGED vars
  BY <1>5 DEF vars, Inv, TypeOK, HoldsGIL, CallbacksOK, LoopsOK, Pending, PendingAt, Ex,
              ResultConvention
<1> QED BY <1>1, <1>2, <1>3, <1>4, <1>5 DEF Next

------------------------------------------------------------------------------
(* What execute reports in the end needs to know where a failure is         *)
(* remembered meanwhile.                                                    *)

(* The loop runs under the lock, so that no other call on the same executor *)
(* sets has_error.                                                         *)
OwnsLock == \A t \in Threads : pc[t] \in Looping \ {"lock"} => gExecutorLock = t

(* has_error is set only where no callback will be made before execute      *)
(* returns, and after the fetch there is something to report.               *)
MarkedAt(t) ==
    \/ pc[t] = "fetch"
    \/ /\ pc[t] \in {"readmem", "writeregs"} \/ (pc[t] = "run" /\ call[t].ins.mem = "agen")
       /\ err[t] # "none" \/ error[Ex(t)] # "none"

(* What a call in the loop knows of its callbacks that failed: whatever is  *)
(* to end the call is remembered by has_error, and what is in error is the  *)
(* refusal that ends it or a TypeError that it has passed ...               *)
LoopReports(t) ==
    LET c == call[t]
    IN  pc[t] \in Looping =>
          /\ has_error[Ex(t)] => t \notin calling /\ MarkedAt(t)
          /\ c.refused # "none" \/ c.cleared => has_error[Ex(t)]
          /\ c.raised => err[t] = "client" /\ pc[t] # "fetch"
          /\ c.cleared => pc[t] = "fetch" /\ c.refused = "none"
          /\ c.refused # "TypeError"
          /\ c.refused = "ValueError" => err[t] = "none" /\ error[Ex(t)] = "ValueError"
          /\ c.refused = "OverflowError" => err[t] = "OverflowError" /\ pc[t] # "fetch"
          /\ err[t] = "client" => c.raised \/ pc[t] = "fetch"
          /\ err[t] = "OverflowError" => c.refused = "OverflowError" \/ pc[t] = "fetch"
          /\ err[t] \in {"none", "client", "OverflowError"}
          /\ error[Ex(t)] = "ValueError" => c.refused = "ValueError"
          /\ error[Ex(t)] = "TypeError" => c.passed

(* ... and when it is out of it.                                            *)
ExitReports(t) ==
    LET c == call[t]
    IN  pc[t] = "ret" =>
          /\ c.raised => err[t] = "client" /\ c.status = "kErrorCallback"
          /\ c.cleared => /\ c.status = "kErrorReadInstMem"
                          /\ c.refused = "none" /\ err[t] = "none"
          /\ c.refused # "none" => c.status \in {"kErrorCallback", "kErrorReadInstMem"}
          /\ c.refused = "TypeError" => err[t] = "none" /\ error[Ex(t)] = "TypeError"
          /\ c.refused = "ValueError" =>
                /\ err[t] = "none"
                /\ error[Ex(t)] = "ValueError" \/ (error[Ex(t)] = "TypeError" /\ c.passed)
          /\ c.refused = "OverflowError" => err[t] = "OverflowError"
          /\ c.status = "kErrorCallback" => err[t] # "none" \/ error[Ex(t)] # "none"
          /\ err[t] = "client" => c.raised
          /\ err[t] = "OverflowError" => c.refused = "OverflowError"
          /\ err[t] \in {"none", "client", "OverflowError"}
          /\ error[Ex(t)] = "ValueError" => c.refused = "ValueError"
          /\ error[Ex(t)] = "TypeError" => c.passed \/ c.refused = "TypeError"

ReturnReports(t) ==
    LET c == call[t]
        Passed == IF c.passed THEN {"TypeError"} ELSE {}
    IN  pc[t] = "returned" =>
          /\ c.raised <=> err[t] = "client"
          /\ c.refused = "ValueError" => err[t] \in {"ValueError"} \cup Passed
          /\ c.refused \in {"TypeError", "OverflowError"} => err[t] = c.refused
          /\ c.cleared => err[t] \in {"InstructionFetchError"} \cup Passed
          /\ err[t] \in Conversions => err[t] \in {c.refused} \cup Passed
          /\ err[t] # "RuntimeError"

Reports(t) == LoopReports(t) /\ ExitReports(t) /\ ReturnReports(t)

ReportInv == Inv /\ OwnsLock /\ \A t \in Threads : Reports(t)

(* A step of t does not disturb what another thread has to report.          *)
LEMMA OthersReport ==
    ASSUME ReportInv, NEW t \in Threads, gil = t, NEW u \in Threads, u # t,
           pc'[u] = pc[u], call'[u] = call[u], err'[u] = err[u],
           \/ pc[t] \in Looping \ {"lock"}
           \/ /\ has_error'[Ex(u)] => has_error[Ex(u)]
              /\ error'[Ex(u)] \in {error[Ex(u)], "none"}
    PROVE  Reports(u)'
<1>1. CASE u \notin calling
  <2>1. pc'[u] = "idle"
    BY <1>1, OthersClean DEF ReportInv
  <2> QED BY <2>1 DEF Reports, LoopReports, ExitReports, ReturnReports, Looping
<1>2. CASE u \in calling
  <2>1. pc[u] \in Looping \ {"lock"} /\ pc[u] # "ret" /\ pc[u] # "returned"
    BY <1>2 DEF ReportInv, Inv, CallbacksOK, Looping, Stages, Callbacks, Reads, Writes, Addresses
  <2>2. (has_error'[Ex(u)] => has_error[Ex(u)]) /\ error'[Ex(u)] \in {error[Ex(u)], "none"}
    BY <2>1 DEF ReportInv, OwnsLock
  <2>3. ~has_error'[Ex(u)]
    BY <1>2, <2>1, <2>2 DEF ReportInv, Reports, LoopReports
  <2>4. Ex(u)' = Ex(u)
    BY DEF Ex
  <2>5. call[u].refused = "none" /\ ~call[u].cleared
    BY <1>2, <2>1 DEF ReportInv, Reports, LoopReports
  <2>6. LoopReports(u)'
    BY <2>1, <2>2, <2>3, <2>4, <2>5 DEF ReportInv, Reports, LoopReports
  <2> QED BY <2>1, <2>6 DEF Reports, ExitReports, ReturnReports
<1> QED BY <1>1, <1>2

(* The lock is taken from nobody.                                           *)
LEMMA LockKept ==
    ASSUME ReportInv, NEW t \in Threads, pc' = [pc EXCEPT ![t] = pc'[t]],
           pc'[t] \in Looping \ {"lock"} => gExecutorLock' = t,
           \/ pc[t] \in Looping \ {"lock"}
           \/ gExecutorLock = NoThread
           \/ gExecutorLock' = gExecutorLock
    PROVE  OwnsLock'
<1>1. ASSUME NEW u \in Threads, u # t, pc'[u] \in Looping \ {"lock"}
      PROVE  gExecutorLock' = u
  BY <1>1, ThreadsAssumption DEF ReportInv, OwnsLock, Inv, TypeOK
<1> QED BY <1>1 DEF OwnsLock

LEMMA AdvanceKeepsReports ==
    ASSUME ReportInv, Inv', NEW t \in Threads, gil = t, pc[t] \in Looping \ {"lock"}, Advances(t),
           \A u \in Threads : u # t => err'[u] = err[u], Reports(t)'
    PROVE  ReportInv'
<1>1. pc' = [pc EXCEPT ![t] = pc'[t]] /\ call' = [call EXCEPT ![t] = call'[t]]
  BY DEF Advances, Moves
<1>2. gExecutorLock = t
  BY DEF ReportInv, OwnsLock
<1>3. OwnsLock'
  BY <1>1, <1>2, LockKept DEF Advances
<1>4. ASSUME NEW u \in Threads, u # t
      PROVE  Reports(u)'
  BY <1>1, <1>4, OthersReport DEF ReportInv, Inv, TypeOK
<1> QED BY <1>3, <1>4 DEF ReportInv

(* Nothing has failed so far that would end the call.                       *)
Unfailed(c) == ~c.raised /\ c.refused = "none" /\ ~c.cleared

LEMMA NothingToReport ==
    ASSUME NEW t \in Threads, err'[t] = "none", Unfailed(call'[t]), ~has_error'[call'[t].ex],
           error'[call'[t].ex] # "ValueError",
           error'[call'[t].ex] = "TypeError" => call'[t].passed,
           pc'[t] # "returned", pc'[t] # "ret" \/ call'[t].status # "kErrorCallback"
    PROVE  Reports(t)'
BY DEF Reports, LoopReports, ExitReports, ReturnReports, Ex, Unfailed

(* In a callback, and wherever has_error is not used, nothing has failed.   *)
LEMMA NothingFailed ==
    ASSUME ReportInv, NEW t \in Threads, pc[t] \in Looping,
           \/ t \in calling
           \/ pc[t] \notin {"fetch", "readmem", "writeregs", "run"}
           \/ pc[t] = "run" /\ call[t].ins.mem # "agen"
    PROVE  /\ err[t] = "none" /\ Unfailed(call[t]) /\ ~has_error[call[t].ex]
           /\ error[call[t].ex] # "ValueError"
           /\ error[call[t].ex] = "TypeError" => call[t].passed
<1>1. LoopReports(t)
  BY DEF ReportInv, Reports
<1>2. ~has_error[Ex(t)]
  BY <1>1 DEF LoopReports, MarkedAt
<1>3. err[t] = "none"
  BY <1>2 DEF ReportInv, Inv, Pending, PendingAt, CallbacksOK, Looping
<1> QED BY <1>1, <1>2, <1>3 DEF Ex, LoopReports, Unfailed

LEMMA LockKeepsReports ==
    ASSUME ReportInv, NEW t \in Threads, Lock(t)
    PROVE  ReportInv'
<1>1. gil = t /\ pc[t] = "lock" /\ pc[t] \in Looping /\ gExecutorLock = NoThread
      /\ gExecutorLock' = t /\ pc' = [pc EXCEPT ![t] = "readpc"]
      /\ UNCHANGED <<has_error, error, err, calling, call>>
  BY DEF Lock, RunsC, Goto, Looping, Stages
<1>2. Inv'
  BY LockKeepsInv DEF ReportInv
<1>3. pc'[t] = "readpc"
  BY <1>1 DEF ReportInv, Inv, TypeOK
<1>4. OwnsLock'
  BY <1>1, <1>3, LockKept
<1>5. Reports(t)'
  BY <1>1, <1>3, NothingFailed, NothingToReport
<1>6. ASSUME NEW u \in Threads, u # t
      PROVE  Reports(u)'
  BY <1>1, <1>6, OthersReport DEF ReportInv, Inv, TypeOK
<1> QED BY <1>2, <1>4, <1>5, <1>6 DEF ReportInv

LEMMA DecodeKeepsReports ==
    ASSUME ReportInv, NEW t \in Threads, Decode(t)
    PROVE  ReportInv'
<1>1. gil = t /\ pc[t] = "decode" /\ pc[t] \in Looping \ {"lock"} /\ call[t] \in Call
      /\ UNCHANGED <<has_error, error, err, calling>> /\ t \in DOMAIN err /\ t \in DOMAIN call
  BY DEF Decode, RunsC, Looping, Stages, ReportInv, Inv, TypeOK
<1>2. Inv'
  BY DecodeKeepsInv DEF ReportInv
<1>3. /\ Advances(t)
      /\ Recalls(call'[t], call[t])
      /\ pc'[t] # "ret" \/ call'[t].status # "kErrorCallback"
  BY <1>1, DecodeAdvances DEF ReportInv
<1>4. Reports(t)'
  BY <1>1, <1>3, NothingFailed, NothingToReport DEF Advances, Unfailed, Recalls
<1> QED BY <1>1, <1>2, <1>3, <1>4, AdvanceKeepsReports

LEMMA RunKeepsReports ==
    ASSUME ReportInv, NEW t \in Threads, Run(t)
    PROVE  ReportInv'
<1>1. gil = t /\ pc[t] = "run" /\ pc[t] \in Looping \ {"lock"} /\ call[t] \in Call
      /\ UNCHANGED <<has_error, error, err, calling>> /\ t \in DOMAIN err
  BY DEF Run, RunsC, Looping, Stages, ReportInv, Inv, TypeOK
<1>2. Inv'
  BY RunKeepsInv DEF ReportInv
<1>3. /\ Advances(t)
      /\ Recalls(call'[t], call[t])
      /\ pc'[t] # "ret" \/ call'[t].status # "kErrorCallback"
      /\ call[t].ins.mem = "agen" => pc'[t] = "writeregs"
  BY <1>1, RunAdvances DEF ReportInv
<1>4. CASE call[t].ins.mem # "agen"
  <2>1. Reports(t)'
    BY <1>1, <1>3, <1>4, NothingFailed, NothingToReport DEF Advances, Unfailed, Recalls
  <2> QED BY <1>1, <1>2, <1>3, <2>1, AdvanceKeepsReports
<1>5. CASE call[t].ins.mem = "agen"
  <2>1. pc'[t] = "writeregs" /\ Ex(t)' = Ex(t)
    BY <1>3, <1>5 DEF Ex, Advances
  <2>2. LoopReports(t)'
    BY <1>1, <1>3, <2>1 DEF ReportInv, Reports, LoopReports, MarkedAt, Recalls
  <2>3. Reports(t)'
    BY <2>1, <2>2 DEF Reports, ExitReports, ReturnReports
  <2> QED BY <1>1, <1>2, <1>3, <2>3, AdvanceKeepsReports
<1> QED BY <1>4, <1>5

(* has_error stops the next callback that matters, with the exception or    *)
(* the recorded error still there.                                          *)
LEMMA SkipKeepsReports ==
    ASSUME ReportInv, NEW t \in Threads, Skip(t)
    PROVE  ReportInv'
<1>1. gil = t /\ t \notin calling /\ pc[t] \in Callbacks /\ pc[t] \in Looping \ {"lock"}
      /\ has_error[Ex(t)] /\ Fail(t, FALSE, "none") /\ t \in DOMAIN err
      /\ err' = [err EXCEPT ![t] = IF pc[t] = "fetch" THEN "none" ELSE @]
      /\ UNCHANGED <<has_error, error, calling>> /\ call[t] \in Call
  BY DEF Skip, RunsC, Guarded, Looping, Stages, Callbacks, Reads, Writes, Addresses,
         ReportInv, Inv, TypeOK
<1>2. Inv'
  BY SkipKeepsInv DEF ReportInv
<1>3. pc[t] \in {"fetch", "readmem", "writeregs"} /\ LoopReports(t) /\ MarkedAt(t)
  BY <1>1 DEF ReportInv, Reports, LoopReports, MarkedAt, Callbacks, Reads, Writes, Addresses
<1>4. Advances(t) /\ Ex(t)' = Ex(t)
  BY <1>1, FailAdvances DEF ReportInv, Advances, Ex
<1>5. Recalls(call'[t], call[t])
  <2>1. Recalls(call'[t], Noted(t, FALSE, "none"))
    BY <1>1, FailAdvances DEF ReportInv
  <2> QED BY <1>1, <2>1, NothingNoted DEF Recalls
<1>6. CASE pc[t] = "fetch"
  <2>1. \/ pc'[t] = "fetch"
        \/ pc'[t] = "ret" /\ call'[t].status = "kErrorReadInstMem"
    BY <1>1, <1>6, FailAdvances DEF ReportInv
  <2>2. t \notin calling' /\ err'[t] = "none" /\ has_error'[Ex(t)] /\ error' = error
    BY <1>1, <1>6
  <2>3. LoopReports(t)'
    BY <1>3, <1>4, <1>5, <1>6, <2>1, <2>2 DEF LoopReports, MarkedAt, Looping, Recalls
  <2>4. ExitReports(t)' /\ ReturnReports(t)'
    BY <1>1, <1>3, <1>4, <1>5, <1>6, <2>1, <2>2
    DEF LoopReports, ExitReports, ReturnReports, Recalls
  <2>5. Reports(t)'
    BY <2>3, <2>4 DEF Reports
  <2> QED BY <1>1, <1>2, <1>4, <2>5, AdvanceKeepsReports
<1>7. CASE pc[t] \in {"readmem", "writeregs"}
  <2>1. pc'[t] = "ret" /\ call'[t].status = "kErrorCallback"
    BY <1>1, <1>7, FailAdvances DEF ReportInv, Addresses
  <2>2. err'[t] = err[t] /\ error' = error
    BY <1>1, <1>7
  <2>3. ExitReports(t)'
    BY <1>1, <1>3, <1>4, <1>5, <1>7, <2>1, <2>2
    DEF LoopReports, MarkedAt, ExitReports, Recalls
  <2>4. Reports(t)'
    BY <2>1, <2>3 DEF Reports, LoopReports, ReturnReports, Looping
  <2> QED BY <1>1, <1>2, <1>4, <2>4, AdvanceKeepsReports
<1> QED BY <1>3, <1>6, <1>7

(* How a callback that raises, or whose result is refused, is remembered:   *)
(* by the pending exception, by error, where ReadFPU keeps one that is      *)
(* already there, and by has_error.                                         *)
Remembers(t, raised, refusal) ==
    LET e == Ex(t)
    IN  /\ err'[t] = IF pc[t] = "fetch" THEN "none"
                     ELSE IF raised THEN "client"
                     ELSE IF refusal = "OverflowError" THEN refusal ELSE "none"
        /\ refusal = "TypeError" => error'[e] = "TypeError"
        /\ refusal = "ValueError" => \/ error'[e] = "ValueError"
                                     \/ /\ pc[t] = "readfpu" /\ error[e] # "none"
                                        /\ error'[e] = error[e]
        /\ refusal \in {"none", "OverflowError"} => error'[e] = error[e]
        /\ pc[t] \in Addresses \cup {"fetch"} =>
              (has_error'[e] <=> \/ refusal \in {"ValueError", "OverflowError"}
                                 \/ raised /\ pc[t] \in Addresses)

(* Which is enough to report it in the end.                                 *)
LEMMA FailReports ==
    ASSUME ReportInv, NEW t \in Threads, t \in calling, calling' = calling \ {t},
           NEW raised \in BOOLEAN, NEW refusal \in Conversions \cup {"none"},
           raised <=> refusal = "none", Fail(t, raised, refusal),
           Remembers(t, raised, refusal)
    PROVE  Reports(t)'
<1> DEFINE n == Noted(t, raised, refusal)
<1>1. pc[t] \in Callbacks /\ pc[t] \in Looping /\ t \notin calling' /\ Inv /\ call[t] \in Call
  BY DEF ReportInv, Inv, TypeOK, CallbacksOK,
         Looping, Stages, Callbacks, Reads, Writes, Addresses
<1>2. /\ Unfailed(call[t]) /\ error[Ex(t)] # "ValueError"
      /\ error[Ex(t)] = "TypeError" => call[t].passed
  BY <1>1, NothingFailed DEF Ex
<1>3. Ex(t)' = Ex(t) /\ Recalls(call'[t], n)
  BY <1>1, FailAdvances DEF Advances, Ex
<1>4. refusal \in {"none", "TypeError", "ValueError", "OverflowError"}
  BY DEF Conversions
<1>5. error[Ex(t)] \in {"none", "TypeError", "ValueError"}
  BY <1>1 DEF Inv, TypeOK, Ex, Call
<1>6. /\ call'[t].raised <=> raised /\ pc[t] \notin {"cs", "fetch"}
      /\ call'[t].passed <=> \/ call[t].passed
                             \/ refusal = "TypeError" /\ pc[t] \in Addresses \cup {"fetch"}
      /\ call'[t].cleared <=> \/ refusal = "OverflowError" /\ pc[t] \in {"cs", "fetch"}
                              \/ raised /\ pc[t] = "cs"
      /\ call'[t].refused = IF \/ refusal = "TypeError" /\ pc[t] \in Addresses \cup {"fetch"}
                               \/ refusal = "OverflowError" /\ pc[t] \in {"cs", "fetch"}
                            THEN "none" ELSE refusal
  BY <1>1, <1>2, <1>3, NotedCall DEF Recalls, Unfailed
<1> HIDE DEF n
<1>7. CASE pc[t] = "cs"
  <2>1. pc'[t] = "fetch"
    BY <1>1, <1>7, FailAdvances
  <2>2. LoopReports(t)'
    BY <1>1, <1>2, <1>3, <1>4, <1>5, <1>6, <1>7, <2>1
    DEF LoopReports, MarkedAt, Remembers, Addresses
  <2> QED BY <2>1, <2>2 DEF Reports, ExitReports, ReturnReports
<1>8. CASE pc[t] = "address"
  <2>1. pc'[t] = "readmem" \/ (pc'[t] = "run" /\ call'[t].ins.mem = "agen")
    BY <1>1, <1>8, FailAdvances
  <2>2. LoopReports(t)'
    BY <1>1, <1>2, <1>3, <1>4, <1>5, <1>6, <1>8, <2>1
    DEF LoopReports, MarkedAt, Remembers, Addresses
  <2>3. pc'[t] # "ret" /\ pc'[t] # "returned"
    BY <2>1
  <2> QED BY <2>2, <2>3 DEF Reports, ExitReports, ReturnReports
<1>9. CASE pc[t] = "fetch"
  <2>1. pc'[t] = "fetch" \/ (pc'[t] = "ret" /\ call'[t].status = "kErrorReadInstMem")
    BY <1>1, <1>9, FailAdvances
  <2>2. LoopReports(t)'
    BY <1>1, <1>2, <1>3, <1>4, <1>5, <1>6, <1>9, <2>1
    DEF LoopReports, MarkedAt, Remembers, Looping
  <2>3. ExitReports(t)' /\ ReturnReports(t)'
    BY <1>2, <1>3, <1>4, <1>5, <1>6, <1>9, <2>1 DEF ExitReports, ReturnReports, Remembers
  <2> QED BY <2>2, <2>3 DEF Reports
<1>10. CASE pc[t] \notin Addresses \cup {"fetch"}
  <2>1. pc'[t] = "ret" /\ call'[t].status = "kErrorCallback" /\ pc[t] \notin {"cs", "fetch"}
    BY <1>1, <1>10, FailAdvances DEF Addresses
  <2>2. ExitReports(t)'
    BY <1>2, <1>3, <1>4, <1>5, <1>6, <1>10, <2>1 DEF ExitReports, Remembers
  <2> QED BY <2>1, <2>2 DEF Reports, LoopReports, ReturnReports, Looping
<1> QED BY <1>7, <1>8, <1>9, <1>10 DEF Addresses

LEMMA AnswerKeepsReports ==
    ASSUME ReportInv, NEW t \in Threads, NEW a \in {"value", "raise", "type", "size", "range"},
           Answer(t, a)
    PROVE  ReportInv'
<1>1. /\ gil = t /\ t \in calling /\ calling' = calling \ {t}
      /\ pc[t] \in Callbacks /\ pc[t] \in Looping \ {"lock"} /\ err[t] = "none"
      /\ a \in Answers(pc[t]) /\ Inv
  BY DEF Answer, RunsPython, InPython, ReportInv, Inv, CallbacksOK,
         Looping, Stages, Callbacks, Reads, Writes, Addresses
<1>2. /\ Ex(t) \in Execs /\ has_error \in [Execs -> BOOLEAN]
      /\ err \in [Threads -> Exceptions \cup {"none"}]
      /\ error \in [Execs -> {"none", "TypeError", "ValueError"}]
  BY <1>1 DEF Ex, Inv, TypeOK, Call
<1>3. Inv'
  BY <1>1, AnswerKeepsInv
<1>4. ~has_error[Ex(t)]
  BY <1>1, NothingFailed DEF Ex
<1>5. CASE a = "value"
  <2>1. Succeed(t) /\ UNCHANGED <<err, has_error, error>>
    BY <1>5 DEF Answer
  <2>2. Advances(t) /\ call'[t].status = "kGood" /\ Recalls(call'[t], call[t])
    BY <1>1, <2>1, SucceedAdvances
  <2>3. Reports(t)'
    BY <1>1, <2>1, <2>2, NothingFailed, NothingToReport DEF Advances, Unfailed, Recalls
  <2> QED BY <1>1, <1>3, <2>1, <2>2, <2>3, AdvanceKeepsReports
<1>6. {"TypeError", "ValueError", "OverflowError"} = Conversions
  BY DEF Conversions
<1>7. CASE a = "raise"
  <2>1. Raised(t) /\ Fail(t, TRUE, "none")
    BY <1>7 DEF Answer
  <2>2. Remembers(t, TRUE, "none") /\ \A u \in Threads : u # t => err'[u] = err[u]
    BY <1>1, <1>2, <1>4, <2>1 DEF Raised, Remembers, Addresses
  <2>3. Reports(t)'
    BY <1>1, <2>1, <2>2, FailReports
  <2> QED BY <1>1, <1>3, <2>1, <2>2, <2>3, FailAdvances, AdvanceKeepsReports
<1>8. CASE a = "type"
  <2> DEFINE f == IF pc[t] = "readfpu" THEN "ValueError" ELSE "TypeError"
  <2>1. WrongType(t) /\ Fail(t, FALSE, f)
    BY <1>8 DEF Answer
  <2>2. Remembers(t, FALSE, f) /\ err' = err
    BY <1>1, <1>2, <1>4, <2>1 DEF WrongType, Remembers, Addresses
  <2>3. f \in Conversions \cup {"none"} /\ f # "none"
    BY <1>6
  <2> HIDE DEF f
  <2>4. Reports(t)'
    BY <1>1, <2>1, <2>2, <2>3, FailReports
  <2> QED BY <1>1, <1>3, <2>1, <2>2, <2>3, <2>4, FailAdvances, AdvanceKeepsReports
<1>9. CASE a = "size"
  <2>1. WrongSize(t) /\ Fail(t, FALSE, "ValueError")
    BY <1>9 DEF Answer
  <2>2. Remembers(t, FALSE, "ValueError") /\ err' = err
    BY <1>1, <1>2, <1>4, <2>1 DEF WrongSize, Remembers, Addresses
  <2>3. Reports(t)'
    BY <1>1, <1>6, <2>1, <2>2, FailReports
  <2> QED BY <1>1, <1>3, <1>6, <2>1, <2>2, <2>3, FailAdvances, AdvanceKeepsReports
<1>10. CASE a = "range"
  <2>1. OutOfRange(t) /\ Fail(t, FALSE, "OverflowError")
    BY <1>10 DEF Answer
  <2>2. /\ Remembers(t, FALSE, "OverflowError")
        /\ \A u \in Threads : u # t => err'[u] = err[u]
    BY <1>1, <1>2, <1>4, <2>1 DEF OutOfRange, Remembers, Addresses
  <2>3. Reports(t)'
    BY <1>1, <1>6, <2>1, <2>2, FailReports
  <2> QED BY <1>1, <1>3, <1>6, <2>1, <2>2, <2>3, FailAdvances, AdvanceKeepsReports
<1> QED BY <1>5, <1>7, <1>8, <1>9, <1>10

LEMMA InvokeKeepsReports ==
    ASSUME ReportInv, NEW t \in Threads, Invoke(t)
    PROVE  ReportInv'
<1>1. /\ pc[t] \in Callbacks /\ pc[t] \in Looping /\ ~Guarded(t)
      /\ calling' = calling \cup {t}
      /\ UNCHANGED <<gExecutorLock, has_error, error, err, pc, call>>
  BY DEF Invoke, Looping, Stages, Callbacks, Reads, Writes, Addresses
<1>2. Inv'
  BY InvokeKeepsInv DEF ReportInv
<1>3. OwnsLock'
  BY <1>1 DEF ReportInv, OwnsLock
<1>4. ~has_error[Ex(t)]
  BY <1>1 DEF Guarded, ReportInv, Reports, LoopReports, MarkedAt
<1>5. ASSUME NEW u \in Threads
      PROVE  Reports(u)'
  <2>1. Reports(u) /\ Ex(u)' = Ex(u)
    BY <1>1 DEF ReportInv, Ex
  <2>2. LoopReports(u)'
    BY <1>1, <1>4, <2>1 DEF Reports, LoopReports, MarkedAt
  <2>3. ExitReports(u)' /\ ReturnReports(u)'
    BY <1>1, <2>1 DEF Reports, ExitReports, ReturnReports
  <2> QED BY <2>2, <2>3 DEF Reports
<1> QED BY <1>2, <1>3, <1>5 DEF ReportInv

LEMMA GILKeepsReports ==
    ASSUME ReportInv, NEW t \in Threads, DropGIL(t) \/ TakeGIL(t)
    PROVE  ReportInv'
<1>1. UNCHANGED <<gExecutorLock, has_error, error, err, pc, calling, call>>
  BY DEF DropGIL, TakeGIL
<1>2. Inv'
  BY GILKeepsInv DEF ReportInv
<1>3. OwnsLock'
  BY <1>1 DEF ReportInv, OwnsLock
<1>4. ASSUME NEW u \in Threads
      PROVE  Reports(u)'
  BY <1>1 DEF ReportInv, Reports, LoopReports, ExitReports, ReturnReports, MarkedAt, Ex
<1> QED BY <1>2, <1>3, <1>4 DEF ReportInv

(* A thread in Python may clear has_error of any executor: whoever is in    *)
(* execute meanwhile is in a callback and has nothing recorded there.       *)
LEMMA ClearKeepsReports ==
    ASSUME ReportInv, Inv', NEW t \in Threads, RunsPython(t), NEW e \in Execs,
           has_error' = [has_error EXCEPT ![e] = FALSE],
           error' = [error EXCEPT ![e] = "none"],
           UNCHANGED <<gExecutorLock, err, pc, calling, call>>
    PROVE  ReportInv'
<1>1. OwnsLock'
  BY DEF ReportInv, OwnsLock
<1>2. ASSUME NEW u \in Threads
      PROVE  Reports(u)'
  <2>1. CASE pc[u] = "idle"
    BY <2>1 DEF Reports, LoopReports, ExitReports, ReturnReports, Looping
  <2>2. CASE u \in calling
    <3>1. /\ pc[u] \in Looping /\ pc[u] # "ret" /\ pc[u] # "returned"
          /\ Ex(u) \in Execs /\ Ex(u)' = Ex(u)
      BY <2>2 DEF ReportInv, Inv, TypeOK, Call, Ex, CallbacksOK,
                  Looping, Stages, Callbacks, Reads, Writes, Addresses
    <3>2. ~has_error'[Ex(u)]
      BY <2>2, <3>1 DEF ReportInv, Inv, TypeOK, Reports, LoopReports
    <3>3. Unfailed(call[u]) /\ error'[Ex(u)] \in {error[Ex(u)], "none"}
      BY <2>2, <3>1, NothingFailed DEF ReportInv, Inv, TypeOK
    <3>4. LoopReports(u)'
      BY <3>1, <3>2, <3>3 DEF ReportInv, Reports, LoopReports, Unfailed
    <3> QED BY <3>1, <3>4 DEF Reports, ExitReports, ReturnReports
  <2>3. pc[u] = "idle" \/ u \in calling
    BY OthersClean DEF RunsPython, InPython, ReportInv
  <2> QED BY <2>1, <2>2, <2>3
<1> QED BY <1>1, <1>2 DEF ReportInv

LEMMA ExecuteKeepsReports ==
    ASSUME ReportInv, NEW t \in Threads, NEW e \in Execs, NEW n \in 1 .. MaxExecutions,
           Executor_Execute(t, e, n)
    PROVE  ReportInv'
<1>1. gil = t /\ pc[t] = "idle" /\ pc \in [Threads -> Stages] /\ call \in [Threads -> Call]
      /\ has_error \in [Execs -> BOOLEAN] /\ err[t] = "none"
      /\ error \in [Execs -> {"none", "TypeError", "ValueError"}]
      /\ has_error' = [has_error EXCEPT ![e] = FALSE]
      /\ error' = [error EXCEPT ![e] = "none"]
      /\ pc' = [pc EXCEPT ![t] = "lock"] /\ call' = [call EXCEPT ![t] = NewCall(e, n)]
      /\ UNCHANGED <<gExecutorLock, err, calling>>
  BY DEF Executor_Execute, ClearErrors, RunsPython, ReportInv, Inv, TypeOK, Pending, PendingAt
<1>2. Inv'
  BY ExecuteKeepsInv DEF ReportInv
<1>3. pc'[t] = "lock" /\ call'[t] = NewCall(e, n)
  BY <1>1
<1>4. OwnsLock'
  BY <1>1, <1>3, LockKept
<1>5. Unfailed(call'[t]) /\ call'[t].ex = e
  BY <1>3 DEF NewCall, Unfailed
<1>6. Reports(t)'
  BY <1>1, <1>3, <1>5, NothingToReport
<1>7. ASSUME NEW u \in Threads, u # t
      PROVE  Reports(u)'
  <2>1. (has_error'[Ex(u)] => has_error[Ex(u)]) /\ error'[Ex(u)] \in {error[Ex(u)], "none"}
    BY <1>1 DEF Ex, Call
  <2> QED BY <1>1, <1>7, <2>1, OthersReport
<1> QED BY <1>2, <1>4, <1>6, <1>7 DEF ReportInv

(* What execute raises is what is remembered of the failure.                *)
LEMMA ReturnKeepsReports ==
    ASSUME ReportInv, NEW t \in Threads, Return(t)
    PROVE  ReportInv'
<1>1. gil = t /\ pc[t] = "ret" /\ pc \in [Threads -> Stages] /\ call \in [Threads -> Call]
      /\ err \in [Threads -> Exceptions \cup {"none"}]
      /\ error \in [Execs -> {"none", "TypeError", "ValueError"}] /\ Ex(t) \in Execs
  BY DEF Return, RunsC, ReportInv, Inv, TypeOK, Ex, Call
<1>2. /\ pc' = [pc EXCEPT ![t] = "returned"] /\ err' = [err EXCEPT ![t] = Thrown(t)]
      /\ call' = [call EXCEPT ![t].result = IF call[t].status = "kGood" THEN "True" ELSE "NULL"]
      /\ UNCHANGED <<gExecutorLock, has_error, calling>>
  BY DEF Return, Goto
<1>3. Inv'
  BY ReturnKeepsInv DEF ReportInv
<1>4. pc'[t] = "returned" /\ err'[t] = Thrown(t) /\ Recalls(call'[t], call[t])
  BY <1>1, <1>2 DEF Call, Recalls
<1>5. OwnsLock'
  BY <1>2, <1>4, LockKept DEF Looping
<1>6. ExitReports(t)
  BY DEF ReportInv, Reports
<1>7. ReturnReports(t)'
  <2>1. CASE call[t].status = "kGood"
    <3>1. Thrown(t) = "none"
      BY <1>1, <2>1 DEF Thrown, OwnError, ReportInv, Inv, Pending, PendingAt
    <3>2. ~call[t].raised /\ call[t].refused = "none" /\ ~call[t].cleared
      BY <1>1, <1>6, <2>1 DEF ExitReports
    <3>3. "none" \notin Conversions \cup {"client", "RuntimeError"}
      BY DEF Conversions
    <3> QED BY <1>4, <3>1, <3>2, <3>3 DEF ReturnReports, Recalls
  <2>2. CASE call[t].status \in DOMAIN OwnError
    <3>1. Thrown(t) \in {OwnError[x] : x \in DOMAIN OwnError}
      BY <2>2 DEF Thrown, OwnError
    <3>2. Thrown(t) \notin Conversions \cup {"client", "RuntimeError"}
      BY <3>1 DEF OwnError, Conversions
    <3>3. ~call[t].raised /\ call[t].refused = "none" /\ ~call[t].cleared
      BY <1>1, <1>6, <2>2 DEF ExitReports, OwnError
    <3> QED BY <1>4, <3>2, <3>3 DEF ReturnReports, Recalls
  <2>3. CASE call[t].status \in {"kErrorReadInstMem", "kErrorCallback"}
    <3>1. Thrown(t) = IF err[t] # "none" THEN err[t]
                      ELSE IF error[Ex(t)] # "none" THEN error[Ex(t)]
                      ELSE IF call[t].status = "kErrorReadInstMem" THEN "InstructionFetchError"
                      ELSE "RuntimeError"
      BY <2>3 DEF Thrown, OwnError
    <3>2. call[t].refused \in {"none", "TypeError", "ValueError", "OverflowError"}
      BY <1>1 DEF Call, Conversions
    <3> QED BY <1>1, <1>4, <1>6, <2>3, <3>1, <3>2
            DEF ExitReports, ReturnReports, Recalls, Conversions
  <2>4. call[t].status \in Statuses
    BY <1>1 DEF Call
  <2> QED BY <2>1, <2>2, <2>3, <2>4 DEF Statuses
<1>8. Reports(t)'
  BY <1>4, <1>7 DEF Reports, LoopReports, ExitReports, Looping
<1>9. ASSUME NEW u \in Threads, u # t
      PROVE  Reports(u)'
  <2>1. error'[Ex(u)] \in {error[Ex(u)], "none"}
    BY <1>1 DEF Return, Ex, Call
  <2> QED BY <1>1, <1>2, <1>9, <2>1, OthersReport
<1> QED BY <1>3, <1>5, <1>8, <1>9 DEF ReportInv

LEMMA ResumeKeepsReports ==
    ASSUME ReportInv, NEW t \in Threads, Resume(t)
    PROVE  ReportInv'
<1>1. gil = t /\ pc \in [Threads -> Stages] /\ call \in [Threads -> Call]
      /\ err \in [Threads -> Exceptions \cup {"none"}]
      /\ pc' = [pc EXCEPT ![t] = "idle"] /\ err' = [err EXCEPT ![t] = "none"]
      /\ call' = [call EXCEPT ![t] = NoCall]
      /\ UNCHANGED <<gExecutorLock, has_error, error, calling>>
  BY DEF Resume, RunsC, ReportInv, Inv, TypeOK
<1>2. Inv'
  BY ResumeKeepsInv DEF ReportInv
<1>3. pc'[t] = "idle"
  BY <1>1
<1>4. OwnsLock'
  BY <1>1, <1>3, LockKept DEF Looping
<1>5. Reports(t)'
  BY <1>3 DEF Reports, LoopReports, ExitReports, ReturnReports, Looping
<1>6. ASSUME NEW u \in Threads, u # t
      PROVE  Reports(u)'
  BY <1>1, <1>6, OthersReport
<1> QED BY <1>2, <1>4, <1>5, <1>6 DEF ReportInv

LEMMA InitReports == Init => ReportInv
BY InitInv DEF Init, ReportInv, OwnsLock, Reports, LoopReports, ExitReports, ReturnReports, Looping

LEMMA NextReports == ReportInv /\ [Next]_vars => ReportInv'
<1> SUFFICES ASSUME ReportInv, [Next]_vars PROVE ReportInv'
  OBVIOUS
<1>1. Inv'
  BY NextInv DEF ReportInv
<1>2. ASSUME NEW t \in Threads, DropGIL(t) \/ TakeGIL(t)
      PROVE  ReportInv'
  BY <1>2, GILKeepsReports
<1>3. ASSUME NEW t \in Threads, NEW e \in Execs,
             Executor_init(t, e) \/ ExecuteNothing(t, e) \/ Reenter(t, e)
      PROVE  ReportInv'
  BY <1>1, <1>3, ClearKeepsReports DEF Executor_init, ExecuteNothing, Reenter, ClearErrors
<1>4. ASSUME NEW t \in Threads, NEW e \in Execs, NEW n \in 1 .. MaxExecutions,
             Executor_Execute(t, e, n)
      PROVE  ReportInv'
  BY <1>4, ExecuteKeepsReports
<1>5. ASSUME NEW t \in Threads, Work(t)
      PROVE  ReportInv'
  BY <1>5, LockKeepsReports, InvokeKeepsReports, SkipKeepsReports, DecodeKeepsReports,
     RunKeepsReports, ReturnKeepsReports, ResumeKeepsReports, AnswerKeepsReports DEF Work
<1>6. CASE UNCHANGED vars
  <2>1. OwnsLock'
    BY <1>6 DEF vars, ReportInv, OwnsLock
  <2>2. \A t \in Threads : Reports(t)'
    BY <1>6 DEF vars, ReportInv, Reports, LoopReports, ExitReports, ReturnReports, MarkedAt, Ex
  <2> QED BY <1>1, <2>1, <2>2 DEF ReportInv
<1> QED BY <1>2, <1>3, <1>4, <1>5, <1>6 DEF Next

------------------------------------------------------------------------------
(* No execution leaves the types; in particular the bounded counters of     *)
(* left and tries of each call do not go below zero.                        *)
THEOREM TypeCorrect == Spec => []TypeOK
<1>1. Inv => TypeOK
  BY DEF Inv
<1> QED BY <1>1, InitInv, NextInv, PTL DEF Spec

(* No callback enters Python with an exception pending (Python.cpp, the     *)
(* fetch loop's PyErr_Clear and the has_error test of each callback), for   *)
(* any threads, executors, number of instructions and failures.             *)
THEOREM CallbacksClean == Spec => []CleanEntry
<1>1. Inv => CleanEntry
  BY DEF Inv, CallbacksOK, CleanEntry
<1> QED BY <1>1, InitInv, NextInv, PTL DEF Spec

(* execute returns NULL exactly when an exception is pending, for any       *)
(* threads, executors, number of instructions and failures.                 *)
THEOREM ReturnsByConvention == Spec => []ResultConvention
<1>1. Inv => ResultConvention
  BY DEF Inv
<1> QED BY <1>1, InitInv, NextInv, PTL DEF Spec

(* What Executor_Execute raises is the failure that ended the call,         *)
(* whichever callbacks fail on the way and whatever other threads do        *)
(* meanwhile: it is remembered by the exception that is pending or by       *)
(* has_error and error. An address or a fetch of a wrong type does not end  *)
(* the call, and nothing is claimed of it but that its TypeError is all     *)
(* that can be raised in place of a later failure, of ReadFPU or the fetch. *)
THEOREM EndingFailureReported == Spec => []FailuresReported
<1>1. ReportInv => FailuresReported
  BY DEF ReportInv, Reports, ReturnReports, FailuresReported
<1> QED BY <1>1, InitReports, NextReports, PTL DEF Spec
===============================================================================
