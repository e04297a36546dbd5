\* Liveness: no consumer breaks, every resumed continuation runs.
CONSTANTS
    s1 = s1
    s2 = s2
    c1 = c1
    c2 = c2
    Senders = {s1, s2}
    p1 = p1
    Pollers = {p1}
    Consumers = {c1, c2}
    Quitters = {}
    BufferSize = 1
    Infinity = Infinity
    CompactAt = 1
    MaxOps = 4
SPECIFICATION FairSpec
CHECK_DEADLOCK FALSE
PROPERTY CallersReturn
