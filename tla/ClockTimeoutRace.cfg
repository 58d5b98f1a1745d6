SPECIFICATION Spec
CONSTANTS
    Timeouts <- MCReprogram
    Intervals <- MCIntervals
    TrapModes <- MCTrapModes
    ProgramsEarly = FALSE
    MaxOps = 2
    MaxSpurious = 0
INVARIANTS SleepsForTheLatest
