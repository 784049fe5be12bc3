SPECIFICATION Spec
CONSTANTS
    p1 = p1
    p2 = p2
    t1 = t1
    n1 = n1
    n2 = n2
    Palms = {p1, p2}
    Talismans = {}
    Npcs = {n1, n2}
    Target <- Targets
    None = none
    Plenty = 5
    MaxRound = 3
    MaxBuys = 2
    MaxFailures = 0
    MaxRewinds = 2
    SwipeBack = 1
    MidJudgment = FALSE
INVARIANTS GoodsAddUp
CHECK_DEADLOCK FALSE
