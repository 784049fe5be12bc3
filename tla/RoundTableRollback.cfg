SPECIFICATION TableSpec
CONSTANTS
    Players = {a, b}
    GM = gm
    Offers = {o1}
    Groups = {g1}
    None = none
    Purse = 2
    HasOpening = FALSE
    MaxRound = 3
    MaxRewinds = 1
    MaxAborts = 1
    MaxSwipes = 1
    Terms <- TableTerms
    Tasks = {t1}
    Gated <- NoTasks
PROPERTIES RolledBackStoryIsDropped
CHECK_DEADLOCK FALSE
