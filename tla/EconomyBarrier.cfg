SPECIFICATION Spec
CONSTANTS
    Players = {a, b}
    GM = gm
    Offers = {o1, o2}
    Groups = {g1}
    None = none
    Purse = 2
    HasOpening = FALSE
    MaxRound = 3
    MaxRewinds = 1
    MaxAborts = 0
    Terms <- InstalmentTerms
INVARIANT RefusalDiscardsEffects
CHECK_DEADLOCK FALSE
