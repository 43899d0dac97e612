---------------------------- MODULE SyncWindows -----------------------------
(***************************************************************************)
(* The pure decisions of a sync: how a range is cut into windows, which    *)
(* range the planner asks for, how a run's windows decide its status and   *)
(* its freshness, which failures stop it and which earlier failures it     *)
(* closes.  A day is a natural number, 0 where the code has null.          *)
(***************************************************************************)
EXTENDS Integers

NoDay == 0

Lesser(m, n) == IF m < n THEN m ELSE n
Later(m, n) == IF m > n THEN m ELSE n

Window(from, to) == [from |-> from, to |-> to]
DaysOf(w) == w.from .. w.to

\* chunkDateRange: contiguous windows of at most `size` days, the last clamped.
Chunks(from, to, size) ==
    {Window(a, Lesser(a + size - 1, to)) :
        a \in {d \in from .. to : (d - from) % size = 0}}

\* The window the engine's loop takes next.
Earliest(windows) == CHOOSE w \in windows : \A v \in windows : w.from <= v.from

\* resolveWindow without an explicit start.  Bound: the calendar starts at day
\* 1, so a range reaching before it starts there.
BackfillWindow(to, backfill) == Window(Later(1, to - (backfill - 1)), to)

IncrementalWindow(cursor, to, lookback, backfill) ==
    IF cursor = NoDay THEN BackfillWindow(to, backfill)
    ELSE Window(Later(1, Lesser(cursor - lookback, to)), to)

-----------------------------------------------------------------------------
\* classify, RETRYABLE_ERROR_CLASSES and the worker's isRetryable.
Retryable(class) ==
    class \in {"rate_limited", "provider_unavailable", "timeout", "database_error"}

CredentialRejected(class) == class \in {"authentication_error", "expired_credential"}

\* Faulty variant: a retryable failure does not stop the loop.
FatalIfRejected(class) == CredentialRejected(class)

\* A window's failure ends the run's loop.
Fatal(class) == Retryable(class) \/ CredentialRejected(class)

\* Faulty variant: one completed window is enough for 'completed'.
RunStatusLenient(someCompleted, someFailed, supported) ==
    IF someFailed /\ ~someCompleted THEN "failed"
    ELSE IF supported THEN "completed" ELSE "not_implemented"

\* runSync's status from whether some window completed and some failed.
RunStatus(someCompleted, someFailed, supported) ==
    IF someFailed
    THEN IF someCompleted THEN "partially_completed" ELSE "failed"
    ELSE IF supported THEN "completed" ELSE "not_implemented"

\* computeFreshnessStatus as runSync calls it, at the moment of success: only
\* the age of the newest date is left to decide.
FreshnessOf(succeeded, newest, today, supported) ==
    IF ~supported THEN "not_implemented"
    ELSE IF ~succeeded THEN "error"
    ELSE IF newest # NoDay /\ today - newest >= 3 THEN "stale"
    ELSE IF newest # NoDay /\ today - newest = 2 THEN "delayed"
    ELSE "fresh"

\* The CASE of resolveSupersededSyncErrors: a retryable failure is superseded
\* by a completed window that contains its own, any other only by the same one.
Supersedes(covered, class, failed) ==
    IF Retryable(class)
    THEN covered.from <= failed.from /\ failed.to <= covered.to
    ELSE covered = failed

=============================================================================
