SPECIFICATION Spec
INVARIANT SubtractionFlags
CONSTANTS
    Size = 8
    Words <- MCWords
    CountMod = 8
    ECXMod = 4
    CXMod = 2
