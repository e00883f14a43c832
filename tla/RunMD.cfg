SPECIFICATION Spec
CONSTANTS
    Inputs <- AllInputs
    Nstep = 4
    MaxLaunches = 2
INVARIANTS
    TypeOK
    Restartable
    ContinuesRun
    FramesKept
    WorkLost
PROPERTIES
    RunEnds
    ImplementsTrajectory
CHECK_DEADLOCK FALSE
