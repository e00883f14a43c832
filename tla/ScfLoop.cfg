SPECIFICATION Spec
CONSTANTS
    Inputs <- AllInputs
    MaxIon = 2
INVARIANTS
    TypeOK
    RestartBound
    ExxMixingValid
    ConvergedWithHybrid
    WfcOfLastIteration
    ResidualOfPotential
PROPERTIES
    RestartFromOutput
    ConvergedOnMixedInput
    DmrMixedAlike
    Termination
