SPECIFICATION MCSpec
CONSTANTS
    r1 = r1
    r2 = r2
    r3 = r3
    Runs <- MCRuns
    Keep = 1
    Names <- MCNames
    MaxEvents = 2
SYMMETRY Symmetry
INVARIANTS LogsBounded LogTellsTheRun
PROPERTY PrunesOnlyOldLogs
CHECK_DEADLOCK FALSE
