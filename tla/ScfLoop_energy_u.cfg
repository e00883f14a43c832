SPECIFICATION Spec
CONSTANTS
    Inputs <- UWithEnergy
    MaxIon = 2
INVARIANTS ConvergedAtTargetU
