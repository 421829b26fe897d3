CONSTANTS
    vx = vx
    vu = vu
    vv = vv
    vw = vw
    f = f
    g = g
    ax = ax
    bx = bx
    di = di
    si = si
    xmm0 = xmm0
    xmm1 = xmm1
    NoReg = NoReg
    RetReg = ax
    FpRetReg = xmm0
    VReg <- CallVReg
    HReg <- AllHReg
    Fp <- MCFp
    GpArgRegs <- ArgDiSi
    FpArgRegs <- ArgXmm0
    CalleeSaved <- Saved
    Programs <- CallPrograms
SPECIFICATION SystemSpec
INVARIANTS
    TypeOK
    RunTypeOK
    OneOwner
    ReadsCurrent
    CallsReadCurrent
    NoValueLost
CHECK_DEADLOCK FALSE
