\* Two sends compete for each slot of a buffer of two; the second consumer may
\* break.  CompactAt = 1: the array is spliced every few items.
CONSTANTS
    s1 = s1
    s2 = s2
    s3 = s3
    p1 = p1
    c1 = c1
    c2 = c2
    Senders = {s1, s2, s3}
    Pollers = {p1}
    Consumers = {c1, c2}
    Quitters = {c2}
    BufferSize = 2
    Infinity = Infinity
    CompactAt = 1
    MaxOps = 5
SYMMETRY Symmetry
SPECIFICATION Spec
CHECK_DEADLOCK FALSE
INVARIANTS TypeOK DeliveredInOrder SleepersHaveNothingToTake
    FreeSlotsAreClaimed UnstartedIsPristine
PROPERTIES ImplementsBoundedChannel
