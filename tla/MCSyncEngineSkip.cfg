\* Scheduled runs, one at a time, a lookback as long as a window (the defaults are
\* 7 and 7): a window the provider rejects.
SPECIFICATION Spec
CONSTANTS
    Runs = {r1, r2}
    Slots = {e1}
    NoRun = NoRun
    LastDay = 4
    ChunkDays = 2
    LookbackDays = 2
    BackfillDays = 4
    MaxAttempts = 2
    Failures = {"invalid_request"}
    Explicit = FALSE
    Overlap = TRUE
    MaxCrashes = 0
    MaxFaults = 0
CHECK_DEADLOCK FALSE
INVARIANT FailedWindowsAreReplanned
