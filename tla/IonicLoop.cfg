SPECIFICATION Spec
CONSTANTS
    Inputs <- AllInputs
    Moves <- SmallMoves
    MaxSteps = 5
INVARIANTS
    TypeOK
    GuessOfThisStructure
    ExtrapolatedPositionsClosest
    UniformMotionFollowed
CHECK_DEADLOCK FALSE
