\* Two clicks at once: both check, then both enqueue.
SPECIFICATION Spec
CONSTANTS
    Streams = {s1}
    Runs = {r1, r2}
    Workers = {w1}
    Clients = {c1, c2}
    NoStream = NoStream
    MaxAttempts = 1
    Concurrency = 1
    JobBatch = 1
    MaxCrashes = 0
    MaxFaults = 0
INVARIANT OneActiveRun
