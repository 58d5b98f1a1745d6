SPECIFICATION Spec
CONSTANTS
    a = a
    b = b
    none = none
    QueueSize <- MCQueueSize
    Elements <- MCElements
    NoElement = none
    MemoryModels <- MCWeakMemory
INVARIANTS NoLostWakeup
