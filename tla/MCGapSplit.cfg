CONSTANTS
    U64Max = 5
    MaxLen = 4
    Inputs <- MCInputs
SPECIFICATION Spec
INVARIANTS
    NothingMissed
    ComputesGapRanges
CHECK_DEADLOCK FALSE
