SPECIFICATION MCSpec
CONSTANTS
    media = media
    daemon = daemon
    Fixes <- MCFixes
    MaxHasty = 2
    MaxPolls = 2
INVARIANT QuitAbandonsMigration
