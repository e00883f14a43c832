SPECIFICATION Spec
CONSTANTS
    Cases <- TwoSpins
    NKSTOT = 3
    PoolsAgree = TRUE
PROPERTIES AllLeave
CHECK_DEADLOCK FALSE
