SPECIFICATION Spec
CONSTANTS
    Seats = {s1, s2}
    Web = web
    Ungated = {agent}
    None = none
    MaxRound = 2
    MaxChanges = 2
    MaxTries = 1
PROPERTIES EveryAttemptWaits
SYMMETRY SeatSymmetry
CHECK_DEADLOCK FALSE
