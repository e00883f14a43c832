SPECIFICATION Spec
CONSTANTS
    Inputs <- AllInputs
    Energies = {0, 1}
    relax_nmax = 7
INVARIANTS
    TypeOK
    BfgsPoint
    ConjugateWithinCell
    SdLowest
    Nested
PROPERTIES
    BfgsDescends
CHECK_DEADLOCK FALSE
