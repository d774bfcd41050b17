SPECIFICATION Spec
CONSTANTS
    Services <- MCServices
    MaxGen = 3
    MaxDisturbances = 1
    MaxCompletions = 2
INVARIANTS
    LeaseMeansQuiet
    VerifiedMeansServing
PROPERTIES
    StartsOnlyWhatItStopped
    CallsReturn
    ImplementsLease
CHECK_DEADLOCK FALSE
