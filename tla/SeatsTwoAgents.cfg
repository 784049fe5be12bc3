SPECIFICATION Spec
CONSTANTS
    Seats = {s1, s2}
    Web = web
    Ungated = {a1, a2}
    None = none
    MaxRound = 2
    MaxChanges = 1
    MaxTries = 1
PROPERTIES HumanActionStands
SYMMETRY SeatSymmetry
CHECK_DEADLOCK FALSE
