SPECIFICATION ForcedSpec
CONSTANTS
    Seats = {s1, s2}
    Web = web
    Ungated = {agent}
    None = none
    MaxRound = 2
    MaxChanges = 0
    MaxTries = 0
PROPERTIES AITableGoesOn
CHECK_DEADLOCK FALSE
