\* Scheduled runs, one at a time: one statement fails.
SPECIFICATION Spec
CONSTANTS
    Runs = {r1, r2}
    Slots = {e1}
    NoRun = NoRun
    LastDay = 4
    ChunkDays = 2
    LookbackDays = 1
    BackfillDays = 4
    MaxAttempts = 2
    Failures = {"timeout"}
    Explicit = FALSE
    Overlap = TRUE
    MaxCrashes = 0
    MaxFaults = 1
CHECK_DEADLOCK FALSE
INVARIANT CursorIsStored
