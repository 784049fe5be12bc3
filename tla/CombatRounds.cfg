SPECIFICATION Spec
CONSTANTS
    p1 = p1
    p2 = p2
    t1 = t1
    n1 = n1
    n2 = n2
    Palms = {p1, p2}
    Talismans = {t1}
    Npcs = {n1, n2}
    Target <- Targets
    None = none
    Plenty = 4
    MaxRound = 3
    MaxBuys = 1
    MaxFailures = 1
    MaxRewinds = 3
    SwipeBack = 1
    MidJudgment = TRUE
INVARIANTS PaidOnce HitUnlessFailed ToldOnce
CHECK_DEADLOCK FALSE
