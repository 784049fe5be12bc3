SPECIFICATION FairTableSpec
CONSTANTS
    Players = {a, b}
    GM = gm
    Offers = {o1}
    Groups = {g1}
    None = none
    Purse = 2
    HasOpening = FALSE
    MaxRound = 2
    MaxRewinds = 1
    MaxAborts = 1
    MaxSwipes = 1
    Terms <- TableTerms
    Tasks = {t1, t2}
    Gated <- NoTasks
INVARIANTS TableTypeOK LedgerMatchesProposals
PROPERTIES JudgmentEnds
CHECK_DEADLOCK FALSE
