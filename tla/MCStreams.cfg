\* Four items of up to two outputs and two handlers; two branches with a buffer of
\* one; up to four results for an operator, chunks of two; two results for a side of
\* merge and zip; a calendar of 96 seconds; three messages in batches of two.
CONSTANTS
    NumItems = 4
    MaxConcurrency = 2
    MaxBufferSize = 2
    MaxOutputs = 2
    Infinity = Infinity
    NumBranches = 2
    BufferSize = 1
    MaxItems = 4
    ChunkSize = 2
    Limit = 2
    MaxResults = 2
    Second = 2
    Minute = 2
    Hour = 2
    Date = 3
    Month = 2
    Weekday = 2
    Horizon = 96
    MaxDelay = 99
    MaxTime = 30
    MaxMessages = 3
    Count = 2
    MaxSends = 2
SPECIFICATION MCSpec
CHECK_DEADLOCK FALSE
INVARIANTS WithinLimits ConcurrencyIsBounded OutputsDeliveredOnce SleepersHaveAReason
    BranchesAreFaithful  CombinedInOrder TicksFollowTheSchedule
    MessagesAreStreamed
PROPERTIES NothingStartsAfterCancel StreamsEnd
