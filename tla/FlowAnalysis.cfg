CONSTANTS
    a = a
    b = b
    MaxLen = 3
    Targets = {1, 2, 3, 4}
    Reg <- MCReg
    Programs <- MCPrograms
SPECIFICATION FairSpec
INVARIANTS
    TypeOK
    Sound
    LiveExact
    Least
PROPERTIES
    Grows
    Terminates
CHECK_DEADLOCK FALSE
