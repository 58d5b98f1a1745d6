SPECIFICATION FairSpec
CONSTANTS
    cmd = cmd
    disk = disk
    mbin = mbin
    nullHandler = nullHandler
    null = null
    NSignals = 2
    Command = cmd
    Disks <- MCDisks
    Mbins <- NoMbins
    NullSignalHandler = nullHandler
    NULL = null
    ResetWhileAttached = FALSE
    MaxOps = 2
    MaxLaters = 1
PROPERTIES QueueIsServed ResetIsProcessed
