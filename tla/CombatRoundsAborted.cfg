SPECIFICATION Spec
CONSTANTS
    p1 = p1
    p2 = p2
    t1 = t1
    n1 = n1
    n2 = n2
    Palms = {p1, p2}
    Talismans = {t1}
    Npcs = {n1, n2}
    Target <- Targets
    None = none
    Plenty = 4
    MaxRound = 4
    MaxBuys = 0
    MaxFailures = 1
    MaxRewinds = 0
    SwipeBack = 1
    MidJudgment = FALSE
INVARIANTS HitOnce
CHECK_DEADLOCK FALSE
