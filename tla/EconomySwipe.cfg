SPECIFICATION Spec
CONSTANTS
    Players = {a, b}
    GM = gm
    Offers = {o1}
    Groups = {g1}
    None = none
    Purse = 2
    HasOpening = FALSE
    MaxRound = 3
    MaxRewinds = 2
    MaxAborts = 0
    Terms <- InstalmentTerms
PROPERTY RewindPreservesBooks
CHECK_DEADLOCK FALSE
