----------------------------- MODULE MCExecutor -----------------------------
(***************************************************************************)
(* Instances of Executor: seven registers, two flags, words of one bit,    *)
(* and one instruction for each way through Execute.                       *)
(***************************************************************************)
EXTENDS ExecutorRefinement, ExecutorValues

MCVal == {0, 1}
mcFL == 0
mcAX == 1
mcCX == 2
mcSP == 3
mcDI == 4
mcIP == 5
mcMM == 6
MCRegs == 0 .. 6
MCMMXRegs == {mcMM}
MCAliasRegs == {mcAX, mcCX}
MCNativeRegs == {mcAX, mcCX, mcDI}
CF == 1
DF == 2
MCFlags == {CF, DF}

NoMem  == [has |-> FALSE, written |-> FALSE, agen |-> FALSE]
Source == [NoMem EXCEPT !.has = TRUE]
Target == [Source EXCEPT !.written = TRUE]
Agen   == [Source EXCEPT !.agen = TRUE]

Plain == [kind |-> "native", ok |-> TRUE, rflags |-> FALSE, fread |-> {}, fwrite |-> {},
          may |-> FALSE, addr |-> <<>>, rd |-> <<>>, wr |-> <<>>, inc |-> {}, rep |-> FALSE,
          x87 |-> FALSE, mem |-> [s \in {0, 1} |-> NoMem]]
Arith == [Plain EXCEPT !.rflags = TRUE, !.fwrite = {CF}]

NOP     == [Plain EXCEPT !.kind = "nop", !.rd = <<mcAX>>]
SYSCALL == [Plain EXCEPT !.ok = FALSE]
CALLFAR == [Plain EXCEPT !.kind = "cfi", !.wr = <<mcSP, mcIP>>]
PUSHA   == [Plain EXCEPT !.kind = "stack", !.wr = <<mcSP>>]
\* ADD RSP, RAX
ADDSP   == [Arith EXCEPT !.rd = <<mcAX>>, !.wr = <<mcSP, mcFL>>]
\* ADC [RDI], RAX
ADCMEM  == [Arith EXCEPT !.fread = {CF}, !.addr = <<mcDI>>, !.rd = <<mcAX>>,
                         !.wr = <<mcFL>>, !.mem[0] = Target]
\* SHL RAX, CL: no flag changes when CL is zero
SHL     == [Arith EXCEPT !.may = TRUE, !.rd = <<mcCX>>, !.wr = <<mcAX, mcFL>>]
\* DIV RCX: faults when RCX is zero
DIV     == [Arith EXCEPT !.rd = <<mcCX>>, !.wr = <<mcAX, mcFL>>]
\* MOVQ MM0, [RDI] and FSTP [RDI]
MOVQ    == [Plain EXCEPT !.addr = <<mcDI>>, !.wr = <<mcMM>>, !.mem[0] = Source]
FSTP    == [Plain EXCEPT !.addr = <<mcDI>>, !.x87 = TRUE, !.mem[0] = Target]
JB      == [Plain EXCEPT !.kind = "emulated", !.rflags = TRUE, !.fread = {CF},
                         !.rd = <<mcFL>>, !.wr = <<mcIP>>]
\* PUSH [RDI]
PUSHMEM == [Plain EXCEPT !.kind = "emulated", !.addr = <<mcDI, mcSP>>, !.wr = <<mcSP>>,
                         !.mem[0] = Source, !.mem[1] = Target]
\* LEA RAX, [RDI]
LEA     == [Plain EXCEPT !.kind = "emulated", !.addr = <<mcDI>>, !.wr = <<mcAX>>,
                         !.mem[0] = Agen]
REPSTOS == [Plain EXCEPT !.kind = "emulated", !.rflags = TRUE, !.fread = {DF},
                         !.addr = <<mcDI>>, !.rd = <<mcAX, mcFL>>, !.wr = <<mcCX>>,
                         !.inc = {mcDI}, !.rep = TRUE, !.mem[0] = Target]

NativeInstrs   == {ADDSP, ADCMEM, SHL, DIV}
FPUInstrs      == {MOVQ, FSTP, SHL}
EmulatedInstrs == {NOP, JB, PUSHMEM, LEA, REPSTOS}
RefusedInstrs  == {SYSCALL, CALLFAR, PUSHA}

AllInstrs == NativeInstrs \cup FPUInstrs \cup EmulatedInstrs \cup RefusedInstrs

MixedInstrs == {DIV, MOVQ}

MCFall(p) == 1 - p

(* The first slot is addressed by RDI, the second by RSP after the push.    *)
MCAddress(i, s, reg) == IF s = 0 THEN reg[mcDI] ELSE 1 - reg[mcSP]

(* An effect in which every operand counts: the outputs depend on the sum   *)
(* of the inputs. *)
Sum(in) == in.reg[mcAX] + in.reg[mcCX] + in.reg[mcSP] + in.reg[mcDI] + in.flag[CF]
           + in.flag[DF] + in.slot[0] + in.adr[0]
MCSem(i, in) ==
    LET n   == (Sum(in) + in.fpu.st + in.fpu.mm[mcMM]) % 2
        new == [reg  |-> [r \in Regs |-> (n + r) % 2],
                flag |-> [f \in MCFlags |-> (n + f) % 2],
                slot |-> [s \in {0, 1} |-> 1 - in.slot[0]],
                fpu  |-> [st |-> 1 - in.fpu.st, mm |-> [m \in MCMMXRegs |-> 1 - n]],
                pc   |-> IF i.rep \/ (i.kind = "emulated" /\ n = 1) THEN in.pc
                                                                   ELSE 1 - in.pc,
                sig  |-> IF i = DIV /\ in.reg[mcCX] = 0 THEN "SIGFPE"
                         ELSE IF i = FSTP /\ in.fpu.mm[mcMM] = 1 THEN "SIGSEGV" ELSE "none"]
        old == [reg |-> in.reg, flag |-> in.flag, slot |-> in.slot, fpu |-> in.fpu,
                pc |-> 1 - in.pc, sig |-> "none"]
    IN  IF i.rep /\ in.reg[mcCX] = 0 THEN old
        ELSE IF i.may /\ in.reg[mcCX] = 0 THEN [new EXCEPT !.flag = in.flag] ELSE new

AllOnes == [reg  |-> [r \in Regs |-> 1], flag |-> [f \in MCFlags |-> 1],
            mem  |-> [v \in MCVal |-> v],
            fpu  |-> [st |-> 1, mm |-> [m \in MCMMXRegs |-> 0]]]
Mixed   == [reg  |-> [r \in Regs |-> IF r \in {mcFL, mcDI, mcSP} THEN 1 ELSE 0],
            flag |-> [f \in MCFlags |-> 0],
            mem  |-> [v \in MCVal |-> 1],
            fpu  |-> [st |-> 0, mm |-> [m \in MCMMXRegs |-> 1]]]

MCUserStates == {AllOnes, Mixed}
MCHostFPU == [t \in Threads |-> [st |-> 0, mm |-> [m \in MCMMXRegs |-> 1]]]
MCHostFlags == {[f \in MCFlags |-> 1]}

(* The hypothesis of the theorems about values. *)
ASSUME MCExchanged == AllExchanged
==============================================================================
