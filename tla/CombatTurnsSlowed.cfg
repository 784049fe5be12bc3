SPECIFICATION FairSpec
CONSTANTS
    Players = {1, 3}
    Npcs = {2}
    Configs <- Default
    BaseSpeed <- Speeds
    Threshold = 4
    Effects = {"modify"}
    Modifiers <- Slow
    MaxBuffs = 1
    Mortal = {}
PROPERTIES SomebodyGetsReady
CHECK_DEADLOCK FALSE
