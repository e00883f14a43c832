SPECIFICATION Spec
CONSTANTS
    Cases <- AllCases
    NKSTOT = 3
    PoolsAgree = TRUE
INVARIANTS
    TypeOK
    CollectivesMatch
    SameDensity
PROPERTIES
    AllLeave
CHECK_DEADLOCK FALSE
