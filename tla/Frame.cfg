CONSTANTS
    GpArgRegCnt = 1
    FpArgRegCnt = 1
    Units <- FrameUnits
SPECIFICATION Spec
INVARIANTS
    CallsAligned
    ArgumentsArrive
    ReadsBack
    RegistersRestored
CHECK_DEADLOCK FALSE
