CONSTANTS
    vx = vx
    vu = vu
    vv = vv
    vw = vw
    f = f
    g = g
    ax = ax
    bx = bx
    di = di
    si = si
    xmm0 = xmm0
    xmm1 = xmm1
    NoReg = NoReg
    RetReg = ax
    FpRetReg = xmm0
    VReg <- LocalVReg
    HReg <- TwoHReg
    Fp <- MCFp
    GpArgRegs <- NoArgRegs
    FpArgRegs <- NoArgRegs
    CalleeSaved <- Saved
    Programs <- FlowPrograms
SPECIFICATION SystemSpec
INVARIANTS
    OperandsStay
    ReadsCurrent
    NoValueLost
    MovesCurrent
CHECK_DEADLOCK FALSE
