SPECIFICATION Spec
CONSTANTS
    Inputs <- BfgsInCells
    Energies = {0, 1}
    relax_nmax = 4
INVARIANT PosOfStructure
CHECK_DEADLOCK FALSE
