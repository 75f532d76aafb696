SPECIFICATION Spec
CONSTANTS
    Client = {c1, c2}
    Poster = {}
    Speed <- MCSpeed
    ScriptEnd = 2
    Backstop = 3
    MaxCatchup = 1
    Horizon = 3
    RequestBound = 3
    BacklogBound = 1
    Unset = Unset
SYMMETRY MCSymmetry
INVARIANTS ZeroIsStable
CHECK_DEADLOCK FALSE
