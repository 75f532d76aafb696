SPECIFICATION FairSpec
CONSTANTS
    w = w
    c = c
    Worker <- MCWorker
    Conductor <- MCConductor
    BootBound = 3
    Window = 1
    PruneAge = 2
    Late = 1
    Grace = 1
    MishapBound = 2
INVARIANTS TypeOK RegisteredWhileUp LeftForGood
PROPERTIES KillHonoured ComesUp BadgeFades
