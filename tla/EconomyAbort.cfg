SPECIFICATION Spec
CONSTANTS
    Players = {a, b}
    GM = gm
    Offers = {o1, o2}
    Groups = {g1}
    None = none
    Purse = 2
    HasOpening = FALSE
    MaxRound = 3
    MaxRewinds = 0
    MaxAborts = 1
    Terms <- InstalmentTerms
PROPERTY AbortPreservesBooks
CHECK_DEADLOCK FALSE
