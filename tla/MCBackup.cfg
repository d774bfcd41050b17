SPECIFICATION Spec
CONSTANTS
    o1 = o1
    o2 = o2
    x1 = x1
    x2 = x2
    NoOne = NoOne
    Operations <- MCOperations
    Sums <- MCSums
    Crashes = TRUE
INVARIANTS ValidatedMeansPaired FailureLeavesNothingPublished NothingLeftBehind
PROPERTIES NeverReplaced Terminates
CHECK_DEADLOCK FALSE
