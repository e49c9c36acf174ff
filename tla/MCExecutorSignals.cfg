SPECIFICATION SignalSpec
INVARIANT RecoversFromJIT
CONSTANTS
    Val <- MCVal
    Zero = 0
    Regs <- MCRegs
    FL <- mcFL
    IP <- mcIP
    SP <- mcSP
    CountReg <- mcCX
    MMXRegs <- MCMMXRegs
    AliasRegs <- MCAliasRegs
    NativeRegs <- MCNativeRegs
    Flags <- MCFlags
    Fall <- MCFall
    Address <- MCAddress
    Sem <- MCSem
    HostFPU <- MCHostFPU
    HostFlags <- MCHostFlags
    HostVals = {1}
    NoThread = NoThread
    NoReg = NoReg
    Refused <- MCRefused
    Threads = {t1}
    Execs = {e1}
    HasAVX = {}
    Instrs <- FPUInstrs
    UserStates <- MCUserStates
    MaxExecutions = 1
    MaxCalls = 1
