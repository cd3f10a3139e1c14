SPECIFICATION Spec
CONSTANTS
    BASE = 3
    MAX_DIGITS = 7
    LANES = 2
    Word = 96
    Inputs <- MCInputs
INVARIANTS
    TypeOK
    PartialProduct
    Normalised
    WithinProduct
    NeverWraps
CHECK_DEADLOCK FALSE
