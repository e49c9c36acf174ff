SPECIFICATION Spec
CONSTANTS
    PageSize = 4
    NumPages = 8
    MinPage = 1
    MaxPage = 7
    Layouts <- MCLayouts
    OtherNames = {".text", ".rodata", ".data"}
    InputSpaceSize = 8
    PointerIncrement = 2
    AddressBytes = 2
    ByteSize = 16
    StoredBytes = {1, 2}
    RandomBytes = {3}
    Addresses = {9}
    Sizes = {1, 2, 4}
    MaxAccesses = 1
INVARIANT InputSpaceIsFree
CHECK_DEADLOCK FALSE
