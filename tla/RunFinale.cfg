SPECIFICATION Spec
CONSTANTS
    Windows = {w1, w2}
    Intermissions = {i1}
    Deliveries = {d1}
    MaxRound = 2
    MaxChecks = 2
    MaxSeeds = 2
    MaxJobs = 1
    MaxEdits = 1
    MaxPictures = 1
    MaxRewinds = 1
    MaxMishaps = 2
INVARIANTS FinaleTypeOK FrozenRunStands ReviewedIsArchived GrowthSettledOnce NoRerolls DeliveredIsDurable
PROPERTIES ArchiveStands CarryKeepsProgress
SYMMETRY WindowSymmetry
CHECK_DEADLOCK FALSE
