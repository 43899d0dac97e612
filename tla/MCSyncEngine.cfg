\* One execution at a time, with any window and a failing statement.
SPECIFICATION Spec
CONSTANTS
    Runs = {r1, r2}
    Slots = {e1}
    NoRun = NoRun
    LastDay = 3
    ChunkDays = 2
    LookbackDays = 1
    BackfillDays = 3
    MaxAttempts = 2
    Failures = {"timeout", "invalid_request"}
    Explicit = TRUE
    Overlap = TRUE
    MaxCrashes = 0
    MaxFaults = 1
SYMMETRY MCSymmetry
CHECK_DEADLOCK FALSE
INVARIANTS
    TypeOK
    StatusIsHonest
    
    
