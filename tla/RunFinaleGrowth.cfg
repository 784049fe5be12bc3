SPECIFICATION Spec
CONSTANTS
    Windows = {w1}
    Intermissions = {i1}
    Deliveries = {d1}
    MaxRound = 2
    MaxChecks = 1
    MaxSeeds = 2
    MaxJobs = 0
    MaxEdits = 0
    MaxPictures = 0
    MaxRewinds = 0
    MaxMishaps = 3
INVARIANT NoSecondMark
CHECK_DEADLOCK FALSE
