SPECIFICATION Spec
CONSTANTS
    Players = {a, b}
    GM = gm
    Offers = {o1}
    Groups = {}
    None = none
    Purse = 2
    HasOpening = TRUE
    MaxRound = 3
    MaxRewinds = 2
    MaxAborts = 1
    Terms <- InstalmentTerms
INVARIANTS LedgerMatchesProposals SettledOnce
PROPERTIES TerminalIsFinal
CHECK_DEADLOCK FALSE
