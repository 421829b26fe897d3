CONSTANTS
    Length = 4
    Programs <- MCPrograms
SPECIFICATION FairSpec
INVARIANTS
    TypeOK
    ExactlyReachable
    NothingSkipped
    DepthBounded
PROPERTIES
    Terminates
CHECK_DEADLOCK FALSE
