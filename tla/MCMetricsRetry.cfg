SPECIFICATION Spec
CONSTANTS
    c1 = c1
    c2 = c2
    Conductor <- MCConductor
    Horizon = 4
    Lag = 2
    MaxBackfill = 6
    CommitLag = 1
    CursorOverlap = 2
    RowBound = 1
    UndoneBound = 1
    None = None
INVARIANTS NoHoles
CHECK_DEADLOCK FALSE
