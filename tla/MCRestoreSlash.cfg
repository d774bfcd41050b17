SPECIFICATION Spec
CONSTANTS
    Platforms <- MCPlatforms
    DestinationTrailingSlash = TRUE
    PsListsStopped = FALSE
INVARIANT
    TargetBackupRefusedOnlyOnFault
CHECK_DEADLOCK FALSE
