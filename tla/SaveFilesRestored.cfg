SPECIFICATION Spec
CONSTANTS
    Torn = Torn
    Garbled = Garbled
    Window = 2
    MaxRun = 1
    MaxLog = 3
    MaxEdits = 1
    MaxFaults = 0
    MaxCrashes = 0
INVARIANT RestoredAsSaved
CHECK_DEADLOCK FALSE
