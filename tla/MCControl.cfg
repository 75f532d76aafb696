SPECIFICATION Spec
CONSTANTS
    Client = {c1, c2}
    Poster = {p1}
    Speed <- MCSpeed
    ScriptEnd = 2
    Backstop = 3
    MaxCatchup = 1
    Horizon = 2
    RequestBound = 3
    BacklogBound = 1
    Unset = Unset
SYMMETRY MCSymmetry
INVARIANTS TypeOK NoReplay
PROPERTIES ShiftWithinOverlap
CHECK_DEADLOCK FALSE
