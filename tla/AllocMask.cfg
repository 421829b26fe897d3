CONSTANTS
    vx = vx
    vu = vu
    vv = vv
    vw = vw
    f = f
    g = g
    ax = ax
    bx = bx
    di = di
    si = si
    xmm0 = xmm0
    xmm1 = xmm1
    NoReg = NoReg
    RetReg = ax
    FpRetReg = xmm0
    VReg <- LocalVReg
    HReg <- TwoHReg
    Fp <- MCFp
    GpArgRegs <- NoArgRegs
    FpArgRegs <- NoArgRegs
    CalleeSaved <- Saved
    Programs <- MaskPrograms
SPECIFICATION SystemSpec
INVARIANTS
    BranchMapsAgree
CHECK_DEADLOCK FALSE
