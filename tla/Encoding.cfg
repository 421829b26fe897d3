SPECIFICATION Spec
CONSTANTS
    LowRegs = {0, 3, 6}
    HighRegs = {8, 12, 15}
    Bases = {0, 4, 5, 8, 12}
    Distances = {0, 1, 120, 121, 122, 123, 124, 125, 126, 127, 128, 129}
    Units <- MCUnits
INVARIANTS
    ReadBack
    JumpsLand
CHECK_DEADLOCK FALSE
