\* Three events in batches of up to two, two consumers of one group, one handling two
\* batches at a time.
CONSTANTS
    Consumers = {c1, c2}
    BatchSize = 2
    Options <- MCOptions
    Infinity = Infinity
    MaxEvents = 3
SPECIFICATION Spec
SYMMETRY Symmetry
CHECK_DEADLOCK FALSE
INVARIANT EventsAreOrdered
