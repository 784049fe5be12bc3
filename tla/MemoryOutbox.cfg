SPECIFICATION FairSpec
CONSTANTS
    Settlements = {s1}
    Events = {e1}
    Subject <- ByKind
    None = none
    Window = 1
    MaxRound = 3
    MaxRewinds = 1
    MaxAborts = 1
    MaxSwiped = 2
    MaxFaults = 1
INVARIANTS SettledIsRemembered ReversalsAreVerifiable
PROPERTIES OutboxClears
CHECK_DEADLOCK FALSE
