CONSTANTS
    Names = {m1, m2}
    Bindings <- MCBindings
SYMMETRY NameSymmetry
SPECIFICATION Spec
INVARIANTS
    Balanced
PROPERTIES
    Implements
