SPECIFICATION Spec
INVARIANTS TypeOK IterationBound StepCorrect ValueInv
PROPERTIES FailureAtomic TornWriteBack FaultsReported
CONSTANTS
    Val <- MCVal
    Zero = 0
    Regs <- MCRegs
    FL <- mcFL
    IP <- mcIP
    SP <- mcSP
    CountReg <- mcCX
    MMXRegs <- MCMMXRegs
    AliasRegs <- MCAliasRegs
    NativeRegs <- MCNativeRegs
    Flags <- MCFlags
    Fall <- MCFall
    Address <- MCAddress
    Sem <- MCSem
    HostFPU <- MCHostFPU
    HostFlags <- MCHostFlags
    HostVals = {1}
    NoThread = NoThread
    NoReg = NoReg
    Threads = {t1}
    Execs = {e1}
    HasAVX = {}
    Instrs <- AllInstrs
    UserStates <- MCUserStates
    MaxExecutions = 2
    MaxCalls = 2
