SPECIFICATION FairSpec
INVARIANTS MutualExclusion HostRestored
PROPERTIES ImplementsAtomic CallsReturn
CONSTANTS
    Val <- MCVal
    Zero = 0
    Regs <- MCRegs
    FL <- mcFL
    IP <- mcIP
    SP <- mcSP
    CountReg <- mcCX
    MMXRegs <- MCMMXRegs
    AliasRegs <- MCAliasRegs
    NativeRegs <- MCNativeRegs
    Flags <- MCFlags
    Fall <- MCFall
    Address <- MCAddress
    Sem <- MCSem
    HostFPU <- MCHostFPU
    HostFlags <- MCHostFlags
    HostVals = {1}
    NoThread = NoThread
    NoReg = NoReg
    Threads = {t1, t2}
    Execs = {e1, e2}
    HasAVX = {e2}
    Instrs <- MixedInstrs
    UserStates <- MCUserStates
    MaxExecutions = 1
    MaxCalls = 2
