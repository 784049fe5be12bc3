SPECIFICATION Spec
CONSTANTS
    Seats = {s1, s2}
    Web = web
    Ungated = {agent}
    None = none
    MaxRound = 1
    MaxChanges = 4
    MaxTries = 1
PROPERTIES HumanActionStands
SYMMETRY SeatSymmetry
CHECK_DEADLOCK FALSE
