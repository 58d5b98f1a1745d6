SPECIFICATION FairSpec
CONSTANTS
    Timeouts <- MCTimeouts
    Intervals <- MCIntervals
    TrapModes <- MCTrapModes
    ProgramsEarly = FALSE
    MaxOps = 2
    MaxSpurious = 1
INVARIANTS TypeOK SleepsForWhatIsOwed WaitIsForRequest
PROPERTIES SignalsAreTaken TimerFires
