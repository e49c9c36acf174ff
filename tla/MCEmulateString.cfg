SPECIFICATION Spec
INVARIANT Resumable
PROPERTIES StoresElement Terminates
CONSTANTS
    Bytes = {0, 1}
    AddrMod = 4
    PageSize = 2
    Counts = {0, 1, 2, 3}
    Sources = {0}
    AXs <- MCAXs
    Present <- MCPresent
