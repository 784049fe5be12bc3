SPECIFICATION FairSpec
CONSTANTS
    Players = {1, 3}
    Npcs = {2}
    Configs <- Fights
    BaseSpeed <- Speeds
    Threshold = 4
    Effects = {"strike", "mend", "modify"}
    Modifiers <- Quicken
    MaxBuffs = 1
    Mortal = {2}
INVARIANTS ReadyIffCharged
PROPERTIES EveryoneGetsATurn
CHECK_DEADLOCK FALSE
