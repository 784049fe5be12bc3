SPECIFICATION Spec
CONSTANTS
    Players = {a, b}
    GM = gm
    Offers = {o1, o2}
    Groups = {g1}
    None = none
    Purse = 2
    HasOpening = TRUE
    MaxRound = 2
    MaxRewinds = 1
    MaxAborts = 0
    Terms <- InstalmentTerms
PROPERTY RewindPreservesBooks
CHECK_DEADLOCK FALSE
