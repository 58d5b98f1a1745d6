SPECIFICATION Spec
CONSTANTS
    cmd = cmd
    disk = disk
    mbin = mbin
    nullHandler = nullHandler
    null = null
    NSignals = 2
    Command = cmd
    Disks <- MCDisks
    Mbins <- MCMbins
    NullSignalHandler = nullHandler
    NULL = null
    ResetWhileAttached = FALSE
    MaxOps = 3
    MaxLaters = 1
INVARIANTS TypeOK SignalsAreServed NoPrematureRun CallsAFunction
