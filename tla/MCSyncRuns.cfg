\* Two worker replicas and an API request over one stream: retries, a crash
\* and two failing statements.
SPECIFICATION Spec
CONSTANTS
    Streams = {s1}
    Runs = {r1, r2}
    Workers = {w1, w2}
    Clients = {c1}
    NoStream = NoStream
    MaxAttempts = 2
    Concurrency = 2
    JobBatch = 1
    MaxCrashes = 1
    MaxFaults = 2
SYMMETRY MCSymmetry
INVARIANTS
    TypeOK
    ExclusiveExecution
    OneExecutionPerAttempt
    RunningIsHeld
PROPERTIES
    ImplementsLifecycle
