CONSTANTS
    a = a
    b = b
    MaxLen = 3
    Targets = {1, 2, 3, 4}
    Reg <- MCReg
    Programs <- TablePrograms
SPECIFICATION Spec
INVARIANTS
    TablesAnywhere
CHECK_DEADLOCK FALSE
