SPECIFICATION FairSpec
CONSTANTS
    a = a
    b = b
    none = none
    QueueSize <- MCQueueSize
    Elements <- MCElements
    NoElement = none
    MemoryModels <- MCBothMemories
INVARIANTS TypeOK RingOrder TakeNeverEmpty OrderedWakes
PROPERTIES IsFifoChannel HeadIsTaken PutReturns
\* with weak memory the putter may wait for ever on a full ring once a wake-up
\* is lost: see EmbQueueLostWakeup.cfg
CHECK_DEADLOCK FALSE
