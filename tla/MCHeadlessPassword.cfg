SPECIFICATION Spec
CONSTANTS
    database = database
    backend = backend
    Services <- MCServices
    Database = database
    MaxRuns = 3
    MaxPolls = 2
CHECK_DEADLOCK FALSE
INVARIANT PasswordMatchesDatabase
