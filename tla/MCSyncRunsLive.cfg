\* Progress of every queued run with one worker, one failing statement and one
\* death: no symmetry, which liveness checking does not allow.
SPECIFICATION FairSpec
CONSTANTS
    Streams = {s1}
    Runs = {r1, r2}
    Workers = {w1}
    Clients = {c1}
    NoStream = NoStream
    MaxAttempts = 2
    Concurrency = 1
    JobBatch = 1
    MaxCrashes = 1
    MaxFaults = 1
PROPERTIES
    QueuedRunsSettle
    QueuedRunsAreClaimed
