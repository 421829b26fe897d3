--------------------------- MODULE MCAllocatedCode ---------------------------
(* Families of small functions for the register allocator.                 *)
EXTENDS AllocatedCode

CONSTANTS
    vx, vu, vv, vw,      \* an argument and locals
    f, g,            \* floating-point locals
    ax, bx, di, si,  \* return, callee-saved and two argument registers
    xmm0, xmm1       \* floating-point registers

O(k, j, a, us, d) == [kind |-> k, jmp |-> j, args |-> a, use |-> us, def |-> d]

Prolog(params) == O("PROLOG", 0, params, {}, ToSet(params))
Ret(r) == O("RET", 0, <<r>>, {r}, {})
Const(d) == O("OP", 0, <<d>>, {}, {d})
Move2(d, s) == O("OP", 0, <<d, s>>, {s}, {d})
Update(d, s) == O("OP", 0, <<d, s>>, {d, s}, {d})
Test(a) == O("OP", 0, <<a>>, {a}, {})
Label == O("OP", 0, <<>>, {}, {})
GetArg(d) == O("GETARG", 0, <<d>>, {vx}, {d})
GetArgConv(d) == O("GETARG_CONV", 0, <<d>>, {vx}, {d})
Prepare == O("PREPARE", 0, <<>>, {}, {})
PutArg(r) == O("PUTARG", 0, <<r>>, {r}, {})
FpPutArg(r) == O("FPUTARG", 0, <<r>>, {r}, {})
FpPutArgImm == O("FPUTARG", 0, <<>>, {}, {})
Call == O("CALL", 0, <<>>, {}, {})
CallReg(r) == O("CALL", 0, <<r>>, {r}, {})
RetVal(d) == O("RETVAL", 0, <<d>>, {}, {d})
FpRetVal(d) == O("FRETVAL", 0, <<d>>, {}, {d})
Branch(r, t) == O("BRANCH", t, <<r>>, {r}, {})
Overflow(r, t) == O("OVERFLOW", t, <<r>>, {r}, {})
BranchMask(r, t) == O("BMS", t, <<r>>, {r}, {})
Jmp(t) == O("JMPI", t, <<>>, {}, {})
JmpReg(r) == O("JMPR", 0, <<r>>, {r}, {})
RefCode(d, t) == O("REF_CODE", t, <<d>>, {}, {d})
FullSpill == O("FULL_SPILL", 0, <<>>, {}, {})
ForceSpill(r) == O("FORCE_SPILL", 0, <<r>>, {r}, {})

-----------------------------------------------------------------------------
(* Straight-line functions with calls: three pieces between the PROLOG and *)
(* a last use of two locals.                                               *)
CallPieces ==
    {<<GetArg(vu)>>, <<GetArgConv(vv)>>, <<Move2(vv, vu)>>, <<Update(vu, vv)>>,
     <<Prepare, Call>>,
     <<Prepare, PutArg(vv), Call, RetVal(vu)>>,
     <<Prepare, PutArg(vu), PutArg(vv), Call, RetVal(vv)>>,
     <<Prepare, PutArg(vv), CallReg(vu), RetVal(vv)>>}

IntegerPrograms ==
    {<<Prolog(<<vx>>)>> \o s[1] \o s[2] \o s[3] \o <<Update(vv, vu), Ret(vv)>> :
       s \in [1 .. 3 -> CallPieces]}

(* Floating-point and integer arguments and results side by side.          *)
FpPieces ==
    {<<Const(f)>>, <<Const(g)>>, <<Update(f, g)>>, <<Move2(vu, g)>>,
     <<Prepare, FpPutArg(f), PutArg(vu), Call, FpRetVal(g)>>,
     <<Prepare, FpPutArg(g), FpPutArg(f), Call, RetVal(vu)>>,
     <<Prepare, Call, FpRetVal(f)>>}

FpPrograms ==
    {<<Prolog(<<>>)>> \o s[1] \o s[2] \o s[3] \o <<Update(f, g), Test(f), Ret(vu)>> :
       s \in [1 .. 3 -> FpPieces]}

CallPrograms == IntegerPrograms \cup FpPrograms

-----------------------------------------------------------------------------
(* Three locals and two registers; one loop and one branch or jump out.    *)
Pieces == {Const(vu), Const(vv), Update(vw, vu), Update(vv, vw)}

(*  1 prolog; 3: s2 s3 branch 3 or 9; s4; branch or jump 9; s5; 9: s6 ret  *)
LoopPrograms ==
    {<<Prolog(<<>>), s[1], Label, s[2], b, s[3], c, s[4], Label,
       Update(vu, vv), Test(vw), Ret(vu)>> :
       s \in [1 .. 4 -> Pieces],
       b \in {Branch(vw, 3), Overflow(vv, 3), Overflow(vv, 9)},
       c \in {Branch(vu, 9), Jmp(9), Jmp(3)}}

(* A jump through a register to one of two labels, a loop around it.       *)
JumpTablePrograms ==
    {<<Prolog(<<>>), RefCode(vw, t), s[1], FullSpill, Label, s[2], c,
       FullSpill, Label, s[3], JmpReg(vw), Ret(vu)>> :
       s \in [1 .. 3 -> Pieces \cup {Label, ForceSpill(vw)}], t \in {5, 9},
       c \in {Label, RefCode(vw, 9), Jmp(9)}}

FlowPrograms == LoopPrograms \cup JumpTablePrograms

(* The same loop, closed by a branch on a bit mask.                        *)
MaskPrograms ==
    {<<Prolog(<<>>), s[1], Label, s[2], BranchMask(vw, 3), Update(vu, vv), Ret(vu)>> :
       s \in [1 .. 2 -> Pieces]}

(* Every callee-saved register is in use when an integer argument that may *)
(* be in the return register is passed before a floating-point immediate.  *)
ImmediatePrograms ==
    {<<Prolog(<<>>), Const(vu), Const(vv), Prepare, PutArg(a), FpPutArgImm, Call,
       Update(vv, vu), Ret(vv)>> : a \in {vu, vv}}

CallVReg == {vx, vu, vv, f, g}
LocalVReg == {vu, vv, vw}
MCFp == {f, g, xmm0, xmm1}
AllHReg == {ax, bx, di, si, xmm0, xmm1}
TwoHReg == {ax, bx, xmm0}
FpHReg == {ax, bx, xmm0, xmm1}
Saved == {bx}
ArgDiSi == <<di, si>>
ArgXmm0 == <<xmm0>>
NoArgRegs == <<>>
=============================================================================
