CONSTANTS
    W = 8
    I = 5
    B = 4
    Reg <- MCReg
    RImm = "si"
    Programs <- Everything
    Slots <- MCSlots
    GpRegs <- MCGpRegs
    CalleeSaved = {"bx"}
SPECIFICATION Spec
INVARIANTS
    SameEffect
    AsDocumented
    Balanced
    OwnWords
CHECK_DEADLOCK FALSE
