SPECIFICATION LSpec
CONSTANTS
    Players = {1, 3}
    Npcs = {2}
    Configs <- Fights
    BaseSpeed <- Speeds
    Threshold = 4
    Effects = {"strike", "modify"}
    Modifiers <- Quicken
    MaxBuffs = 1
    Mortal = {1}
    MaxClock = 3
    MaxTurns = 2
INVARIANTS TurnsAreEarned FirstComeFirstServed EvenTurns
CHECK_DEADLOCK FALSE
