SPECIFICATION FairSpec
CONSTANTS
    c1 = c1
    c2 = c2
    Conductor <- MCConductor
    Horizon = 4
    Lag = 2
    MaxBackfill = 2
    CommitLag = 1
    CursorOverlap = 2
    RowBound = 1
    UndoneBound = 1
    None = None
INVARIANTS TypeOK CountersExact FailoverLeavesNoHole 
PROPERTIES ChartAdvances
CHECK_DEADLOCK FALSE
