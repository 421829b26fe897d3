CONSTANTS
    W = 14
    I = 13
    Reg <- MCInt
    ByteBits = 6
    HalfBits = 10
    Result <- MCResult
    FResult = 22
    Printf = 1240
    Programs <- Everything
    Base = 64
    Heap = 4088
    SP0 = 7936
    StackEnd = 6200
    Home = 8
    ZeroPoint5 = 3500
SPECIFICATION Spec
INVARIANTS
    AsDocumented
    Listed
CHECK_DEADLOCK FALSE
