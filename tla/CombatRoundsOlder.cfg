SPECIFICATION Spec
CONSTANTS
    p1 = p1
    p2 = p2
    t1 = t1
    n1 = n1
    n2 = n2
    Palms = {p1, p2}
    Talismans = {t1}
    Npcs = {n1, n2}
    Target <- Targets
    None = none
    Plenty = 4
    MaxRound = 4
    MaxBuys = 0
    MaxFailures = 0
    MaxRewinds = 1
    SwipeBack = 2
    MidJudgment = FALSE
INVARIANTS PaidOnce
CHECK_DEADLOCK FALSE
