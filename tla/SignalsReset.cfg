SPECIFICATION FairSpec
CONSTANTS
    cmd = cmd
    disk = disk
    mbin = mbin
    nullHandler = nullHandler
    null = null
    NSignals = 2
    Command = cmd
    Disks <- MCDisks
    Mbins <- NoMbins
    NullSignalHandler = nullHandler
    NULL = null
    ResetWhileAttached = TRUE
    MaxOps = 2
    MaxLaters = 1
PROPERTIES ResetIsProcessed
\* the reset that is asked for while a disk is attached stops the polling
\* thread for good, and with it everyone who needs the lock
CHECK_DEADLOCK FALSE
