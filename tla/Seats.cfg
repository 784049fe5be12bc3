SPECIFICATION Spec
CONSTANTS
    Seats = {s1, s2}
    Web = web
    Ungated = {agent}
    None = none
    MaxRound = 2
    MaxChanges = 3
    MaxTries = 1
INVARIANTS SeatsTypeOK OneAIAction
PROPERTIES HumanActionStands AIActsLast FirstAttemptWaits
SYMMETRY SeatSymmetry
CHECK_DEADLOCK FALSE
