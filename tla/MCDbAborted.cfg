\* One nested call, aborted with its caller, and two transactions after it.
CONSTANTS
    None = None
    t1 = t1
    t2 = t2
    t3 = t3
    t4 = t4
    Txns <- MCTxns
    Parent <- Row
SPECIFICATION Spec
CHECK_DEADLOCK FALSE
INVARIANT SuccessIsDurable
