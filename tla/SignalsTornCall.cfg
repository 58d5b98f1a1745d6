SPECIFICATION Spec
CONSTANTS
    cmd = cmd
    disk = disk
    mbin = mbin
    nullHandler = nullHandler
    null = null
    NSignals = 3
    Command = cmd
    Disks <- MCDisks
    Mbins <- MCMbins
    NullSignalHandler = nullHandler
    NULL = null
    ResetWhileAttached = FALSE
    MaxOps = 4
    MaxLaters = 1
INVARIANTS CallsAreProper
