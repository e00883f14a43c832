SPECIFICATION Spec
CONSTANTS
    mixing_ndim = 3
    MaxVector = 10
INVARIANTS
    TypeOK
    DsysvFresh
PROPERTIES
    ImplementsAnderson
