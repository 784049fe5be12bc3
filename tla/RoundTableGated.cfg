SPECIFICATION TableSpec
CONSTANTS
    Players = {a, b}
    GM = gm
    Offers = {o1}
    Groups = {g1}
    None = none
    Purse = 2
    HasOpening = TRUE
    MaxRound = 3
    MaxRewinds = 1
    MaxAborts = 1
    MaxSwipes = 2
    Terms <- TableTerms
    Tasks = {t1, t2}
    Gated <- AllTasks
PROPERTIES RoundsAreAtomic RolledBackStoryIsDropped
CHECK_DEADLOCK FALSE
