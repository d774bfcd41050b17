SPECIFICATION Spec
CONSTANTS
    Platforms <- MCPlatforms
    DestinationTrailingSlash = FALSE
    PsListsStopped = TRUE
INVARIANTS
    BeforeCutoverMeansUntouched
    SuccessMeansLegacyServed
    RollbackVerdictIsTrue
    NothingDroppedUnarchived
    UncancelledFailureServesAgain
PROPERTIES
    QuietCutover
    BackupPreserved
    Terminates
    ImplementsCutover
CHECK_DEADLOCK FALSE
