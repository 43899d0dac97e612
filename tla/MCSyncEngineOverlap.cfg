\* Two executions of one stream at once; only failures that
\* stop a run, and a dying worker.
SPECIFICATION Spec
CONSTANTS
    Runs = {r1, r2}
    Slots = {e1, e2}
    NoRun = NoRun
    LastDay = 3
    ChunkDays = 2
    LookbackDays = 1
    BackfillDays = 3
    MaxAttempts = 2
    Failures = {"timeout", "authentication_error"}
    Explicit = FALSE
    Overlap = TRUE
    MaxCrashes = 1
    MaxFaults = 0
SYMMETRY MCSymmetry
CHECK_DEADLOCK FALSE
INVARIANTS
    ResolvedWithProof
    
    DatesAreStored
    FailedWindowsAreReplanned
PROPERTIES
    ImplementsLifecycle
