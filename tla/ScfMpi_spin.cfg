SPECIFICATION Spec
CONSTANTS
    Cases <- TwoSpinsWithoutSymmetry
    NKSTOT = 3
    PoolsAgree = TRUE
INVARIANTS SameDensity
CHECK_DEADLOCK FALSE
