SPECIFICATION Spec
CONSTANTS
    Inputs <- AllInputs
    n_band = 3
    david_ndim = 3
    iter_nmax = 6
INVARIANTS
    TypeOK
    SubspaceOfBasis
    ResidualOfBand
    ResultOfBands
CHECK_DEADLOCK FALSE
