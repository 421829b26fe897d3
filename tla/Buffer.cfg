CONSTANTS
    Programs <- MCPrograms
    Ids <- MCIds
    Heap <- MCHeap
    Pages <- MCPages
    BUF_SIZE = 8
    MINIMAL_BUF_SPACE = 4
    PrologAlign = 2
SPECIFICATION Spec
INVARIANTS
    TypeOK
    ListWhole
    InBuffer
    PatchesItsOwn
PROPERTIES
    Implements
