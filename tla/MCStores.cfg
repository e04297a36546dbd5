\* Kafka: three messages of a partition, two consumers one after the other; two calls
\* of each: withConnection, with batches of two rows, listen, and of a cache and of a
\* storage with two keys in pages of one.
CONSTANTS
    BatchSize = 2
    Infinity = Infinity
    Partitions = {0}
    MaxOffset = 3
    MaxStarts = 2
    Chain = 4
    Turns = 3
    Conns = {c1, c2}
    None = None
    Listeners = {s1, s2}
    MaxNotes = 2
    Callers = {c1, c2}
    MaxTime = 1
    MaxValues = 2
    Keys = {1, 2}
    PageSize = 1
    MaxPuts = 3
SPECIFICATION MCSpec
CHECK_DEADLOCK FALSE
INVARIANTS  CursorsAreHonest   ListenersAreTold
    NothingStaleIsReturned
  
