\* Two calls of withConnection, one after the other or overlapping.
CONSTANTS
    Conns = {c1, c2}
    BatchSize = 2
    None = None
SPECIFICATION Spec
CHECK_DEADLOCK FALSE
INVARIANT AdaptersHaveTheirDatabase
