\* A year of 48 seconds, and a setTimeout that holds no more than ten of them.
CONSTANTS
    Second = 2
    Minute = 2
    Hour = 2
    Date = 3
    Month = 2
    Weekday = 2
    Horizon = 96
    MaxDelay = 10
    MaxTime = 30
    Expressions <- MCExpressions
SPECIFICATION Spec
CHECK_DEADLOCK FALSE
INVARIANT TicksAreNotEarly
