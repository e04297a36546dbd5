\* In memory: two messages, or one and its dead letter; a second is two units of time.
\* Redis: two consumers of one message; RabbitMQ: two messages, the channel closes once.
CONSTANTS
    work = work
    failed = failed
    NoQueue = NoQueue
    Queues <- MCQueues
    DeadLetterQueue <- MCDeadLetterQueue
    MaxAttempts = 2
    VisibilityTimeout = 2
    MaxBufferSize = 1
    Second = 2
    Delays = {0, 1, 3}
    MaxIds = 2
    MaxTime = 4
    MaxLateNacks = 1
    MaxBatch = 2
    Consumers = {c1, c2}
    RedisIds = {m1}
    RedisCount = 1
    Visibility = 1
    RedisMaxTime = 2
    RabbitIds = {m1, m2}
    RabbitCount = 2
    Prefetch = 1
    MaxCloses = 1
SPECIFICATION MCSpec
CHECK_DEADLOCK FALSE
INVARIANTS MessagesAreKept 
PROPERTIES HeldMessagesAreHidden 
