SPECIFICATION CMSpec
CONSTANTS
    MaxProc = 6
    MaxNz = 4
    ncxy = 2
INVARIANTS CMTypeOK RhoSummed
CHECK_DEADLOCK FALSE
