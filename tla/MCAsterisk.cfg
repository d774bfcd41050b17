SPECIFICATION Spec
CONSTANTS
    QueriesFail = FALSE
    MaxRuns = 2
    MaxLines = 4
CHECK_DEADLOCK FALSE
INVARIANTS RollbackRestoresHost SuccessMeansConfigured
