SPECIFICATION Spec
CONSTANTS
    Settlements = {}
    Events = {e1, e2}
    Subject <- ByKind
    None = none
    Window = 3
    MaxRound = 2
    MaxRewinds = 1
    MaxAborts = 0
    MaxSwiped = 0
    MaxFaults = 0
INVARIANTS NoGhostMemory
CHECK_DEADLOCK FALSE
