SPECIFICATION Spec
PROPERTY ImplementsStack
CONSTANTS
    Radix = 4
    WordUnits = 2
    Base = 12
    MaxDepth = 4
    Sizes = {1, 2}
    BranchSizes = {1, 2}
    Imms <- MCImms
    Targets = {9}
    FlagMod = 2
    HostFlags = {5}
    Words = {6}
    Segs = {1}
    MaxSteps = 4
