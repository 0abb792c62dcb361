SPECIFICATION FairSpec
CONSTANTS
    w1 = w1
    w2 = w2
    Worker <- MCWorker
    MaxEvents = 2
    BatchSize = 2
    CleanBatchSize = 1
    ProcessingTimeout = 1
    MaxFaults = 2
INVARIANTS
    TypeOK
    NoLostEvent
    BoundedDuplicates
    ExclusiveClaim
    DuplicatesNeedFaults
PROPERTIES
    SentIsFinal
    EventuallyDrained
    DeliversAtLeastOnce
CHECK_DEADLOCK FALSE
