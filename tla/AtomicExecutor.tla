---------------------------- MODULE AtomicExecutor ----------------------------
(***************************************************************************)
(* What Execute promises its clients, whatever threads call it: the        *)
(* machine of each client goes from one state to another as if the         *)
(* processor itself ran one instruction at a time on it, or as if it was   *)
(* stopped while it stored the results of one.                             *)
(***************************************************************************)
EXTENDS Instruction

CONSTANTS Execs, UserStates

VARIABLE machine

Init == machine \in [Execs -> UserStates]

(* An instruction retires. *)
Retire(e) ==
    \E i \in Instrs : i.ok /\ machine' = [machine EXCEPT ![e] = ISA(i, @)]

(* Of an instruction whose results are refused half way some may be in      *)
(* place already, but it has not retired: its PC is still the current one.  *)
Between(s, a, b) ==
    /\ \A r \in Regs : s.reg[r] \in {a.reg[r], b.reg[r]}
    /\ \A f \in Flags : s.flag[f] \in {a.flag[f], b.flag[f]}
    /\ \A v \in Val : s.mem[v] \in {a.mem[v], b.mem[v]}
    /\ s.fpu \in {a.fpu, b.fpu}

Tear(e) ==
    /\ \A f \in Execs \ {e} : machine'[f] = machine[f]
    /\ machine'[e].reg[IP] = machine[e].reg[IP]
    /\ \E i \in Instrs : i.ok /\ Between(machine'[e], machine[e], ISA(i, machine[e]))

Next == \E e \in Execs : Retire(e) \/ Tear(e)

Spec == Init /\ [][Next]_machine
==============================================================================
