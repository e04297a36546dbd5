\* The in-memory queue as in MCQueues, for the count of deliveries.
CONSTANTS
    work = work
    failed = failed
    NoQueue = NoQueue
    Queues <- MCQueues
    DeadLetterQueue <- MCDeadLetterQueue
    MaxAttempts = 2
    VisibilityTimeout = 2
    MaxBufferSize = 1
    Second = 2
    Delays = {0, 1, 3}
    MaxIds = 2
    MaxTime = 4
    MaxLateNacks = 1
    MaxBatch = 2
SPECIFICATION Spec
CHECK_DEADLOCK FALSE
INVARIANT AttemptCountsDeliveries
