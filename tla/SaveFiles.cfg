SPECIFICATION Spec
CONSTANTS
    Torn = Torn
    Garbled = Garbled
    Window = 2
    MaxRun = 2
    MaxLog = 3
    MaxEdits = 1
    MaxFaults = 1
    MaxCrashes = 2
INVARIANTS AckedIsDurable NoRunReturns
PROPERTY SavesAreDurable
CHECK_DEADLOCK FALSE
