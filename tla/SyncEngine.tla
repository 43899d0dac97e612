----------------------------- MODULE SyncEngine -----------------------------
(***************************************************************************)
(* What the executions of one stream's runs do to its data: windows,       *)
(* checkpoints, stored days, error rows and their closing, the incremental *)
(* cursor, the freshness row and the connection's status.  A slot is one   *)
(* in-flight runSync of some worker; one step is one statement (or one     *)
(* provider call) of it, so slots, planning, failing statements and dying  *)
(* workers interleave.  SyncRuns has the queue itself: here a queued run   *)
(* is claimed by any free slot, and the binding never disappears.          *)
(***************************************************************************)
EXTENDS SyncWindows, FiniteSets

CONSTANTS
    Runs,          \* rows of sync_runs this stream can have
    Slots,         \* executions that may be in flight at once
    NoRun,         \* "no run": a null
    LastDay,       \* bound on the calendar
    ChunkDays, LookbackDays, BackfillDays, MaxAttempts,   \* SYNC_* settings
    Failures,      \* error classes a provider call can end with
    Explicit,      \* whether requests name their own window
    Overlap,       \* whether a run can be enqueued beside an active one
    MaxCrashes,    \* bound on executions lost with their worker
    MaxFaults      \* bound on failing statements

ASSUME EngineAssumption ==
    /\ LastDay \in Nat \ {0} /\ ChunkDays \in Nat \ {0}
    /\ BackfillDays \in Nat \ {0} /\ MaxAttempts \in Nat \ {0}
    /\ LookbackDays \in Nat /\ MaxCrashes \in Nat /\ MaxFaults \in Nat
    /\ Explicit \in BOOLEAN /\ Overlap \in BOOLEAN
    /\ NoRun \notin Runs

VARIABLES
    today,       \* the day a plan without an end runs to
    supported,   \* whether the adapter implements this stream
    run,         \* sync_runs: status, window, attempt, error_class, checkpoint
    stored,      \* days of windows whose rows were all persisted
    errors,      \* sync_errors rows
    cursor,      \* sync_cursors.last_synced_date, or NoDay
    fresh,       \* data_freshness: status and latest_provider_data_date
    connection,  \* integration_connections.status, as runs leave it
    slot,        \* the executions in flight
    crashes, faults

rows == <<stored, errors, cursor, fresh, connection>>
vars == <<today, supported, run, stored, errors, cursor, fresh, connection,
          slot, crashes, faults>>

Days == 1 .. LastDay
Windows == {w \in [from : Days, to : Days] : w.from <= w.to}
Classes == Failures \cup {"database_error", "authentication_error", "unknown_error"}

Succeeded == {"completed", "partially_completed", "not_implemented"}
Settled == Succeeded \cup {"failed"}
Active == {"queued", "running"}
Controls == {"idle", "start", "loop", "persist", "checkpoint", "record",
             "resolve", "cursor", "freshness", "connection", "requeue", "catch"}

NewRun == [status |-> "absent", window |-> Window(1, 1), attempt |-> 0,
           class |-> "none", done |-> {}]

\* left: windows not yet taken; covered: windows this execution completed;
\* some, bad: a window completed, one failed; why: the class of the failure at
\* hand, then of the one that stopped the run; refused: no window was tried.
IdleSlot == [at |-> "idle", run |-> NoRun, left |-> {}, covered |-> {},
             some |-> FALSE, bad |-> FALSE, latest |-> NoDay, why |-> "none",
             refused |-> FALSE]

TypeOK ==
    /\ today \in Days /\ supported \in BOOLEAN
    /\ run \in [Runs -> [status : Settled \cup Active \cup {"absent"},
                         window : Windows, attempt : 0 .. MaxAttempts,
                         class : Classes \cup {"none"}, done : SUBSET Windows]]
    /\ stored \subseteq Days
    /\ \A e \in errors :
          /\ e.run \in Runs /\ e.attempt \in 1 .. MaxAttempts /\ e.window \in Windows
          /\ e.class \in Classes /\ e.by \in Runs \cup {NoRun}
          /\ e.seen \subseteq Runs \X Windows
    /\ cursor \in Days \cup {NoDay}
    /\ fresh.status \in {"absent", "unknown", "fresh", "delayed", "stale", "error",
                         "not_implemented"}
    /\ fresh.latest \in Days \cup {NoDay}
    /\ connection \in {"connected", "invalid_credentials"}
    /\ slot \in [Slots -> [at : Controls, run : Runs \cup {NoRun},
                           left : SUBSET Windows, covered : SUBSET Windows,
                           some : BOOLEAN, bad : BOOLEAN, latest : Days \cup {NoDay},
                           why : Classes \cup {"none"}, refused : BOOLEAN]]
    /\ crashes \in 0 .. MaxCrashes /\ faults \in 0 .. MaxFaults

Init ==
    /\ today = 1
    /\ supported \in BOOLEAN
    /\ run = [r \in Runs |-> NewRun]
    /\ stored = {} /\ errors = {} /\ cursor = NoDay
    /\ fresh = [status |-> "absent", latest |-> NoDay]
    /\ connection = "connected"
    /\ slot = [s \in Slots |-> IdleSlot]
    /\ crashes = 0 /\ faults = 0

-----------------------------------------------------------------------------
\* Planning and enqueueing (planSyncs, hasActiveRun, enqueueSync).

Enqueue(w) ==
    /\ Overlap \/ \A r \in Runs : run[r].status \notin Active
    /\ \E r \in Runs :
          /\ run[r].status = "absent"
          /\ run' = [run EXCEPT ![r] = [NewRun EXCEPT !.status = "queued",
                                        !.window = w, !.attempt = 1]]
    /\ UNCHANGED <<today, supported, rows, slot, crashes, faults>>

EnqueueScheduled ==
    Enqueue(IncrementalWindow(cursor, today, LookbackDays, BackfillDays))

EnqueueBackfill == Enqueue(BackfillWindow(today, BackfillDays))

\* A window may end ahead of today; the table's CHECK refuses a reversed one.
EnqueueExplicit == Explicit /\ \E w \in Windows : Enqueue(w)

NextDay ==
    /\ today < LastDay
    /\ today' = today + 1
    /\ UNCHANGED <<supported, run, rows, slot, crashes, faults>>

-----------------------------------------------------------------------------
\* One execution.

Row(s) == run[slot[s].run]

\* Faulty variant: the claim also takes 'running' rows.
ClaimRunStale(s, r) ==
    /\ slot[s].at = "idle" /\ run[r].status \in Active
    /\ run' = [run EXCEPT ![r].status = "running"]
    /\ slot' = [slot EXCEPT ![s] = [IdleSlot EXCEPT !.at = "start", !.run = r]]
    /\ UNCHANGED <<today, supported, rows, crashes, faults>>

\* claimQueuedRuns takes the run, then runSync writes 'running'.
ClaimRun(s, r) ==
    /\ slot[s].at = "idle" /\ run[r].status = "queued"
    /\ run' = [run EXCEPT ![r].status = "running"]
    /\ slot' = [slot EXCEPT ![s] = [IdleSlot EXCEPT !.at = "start", !.run = r]]
    /\ UNCHANGED <<today, supported, rows, crashes, faults>>

\* The freshness row shows an attempt; the credential is read and the provider
\* created, or that fails and the whole window is the failure's.
StartRun(s) ==
    /\ slot[s].at = "start"
    /\ fresh' = [fresh EXCEPT !.status = "unknown"]
    /\ \/ /\ slot' = [slot EXCEPT ![s].at = "loop",
                         ![s].left = Chunks(Row(s).window.from, Row(s).window.to, ChunkDays)]
          /\ UNCHANGED faults
       \/ \E k \in {"authentication_error", "unknown_error", "database_error"} :
             /\ slot' = [slot EXCEPT ![s].at = "record", ![s].why = k,
                            ![s].refused = TRUE]
             /\ IF k = "database_error"
                THEN faults < MaxFaults /\ faults' = faults + 1 ELSE UNCHANGED faults
    /\ UNCHANGED <<today, supported, run, stored, errors, cursor, connection, crashes>>

\* Take the next window: skip it if an earlier attempt checkpointed it, or ask
\* the provider.  The newest date of the answer is noted before its rows are
\* stored.
FetchWindow(s) ==
    /\ slot[s].at = "loop" /\ slot[s].left # {}
    /\ LET w == Earliest(slot[s].left) IN
       IF w \in Row(s).done
       THEN slot' = [slot EXCEPT ![s].left = @ \ {w}, ![s].some = TRUE]
       ELSE \/ \E d \in IF supported THEN {NoDay} \cup DaysOf(w) ELSE {NoDay} :
                  slot' = [slot EXCEPT ![s].at = "persist",
                                       ![s].latest = Later(@, d)]
            \/ /\ supported
               /\ \E k \in Failures :
                     slot' = [slot EXCEPT ![s].at = "record", ![s].why = k]
    /\ UNCHANGED <<today, supported, run, rows, crashes, faults>>

PersistWindow(s) ==
    /\ slot[s].at = "persist"
    /\ stored' = IF supported THEN stored \cup DaysOf(Earliest(slot[s].left)) ELSE stored
    /\ slot' = [slot EXCEPT ![s].at = "checkpoint"]
    /\ UNCHANGED <<today, supported, run, errors, cursor, fresh, connection,
                   crashes, faults>>

CheckpointWindow(s) ==
    /\ slot[s].at = "checkpoint"
    /\ LET w == Earliest(slot[s].left) IN
       /\ run' = [run EXCEPT ![slot[s].run].done = @ \cup {w}]
       /\ slot' = [slot EXCEPT ![s].at = "loop", ![s].left = @ \ {w},
                      ![s].covered = @ \cup {w}, ![s].some = TRUE]
    /\ UNCHANGED <<today, supported, rows, crashes, faults>>

\* A statement of the window's try fails; classify reads database_error or
\* unknown_error from its message.  A stream without an adapter stores nothing.
WindowThrows(s) ==
    /\ \/ slot[s].at = "checkpoint"
       \/ supported /\ slot[s].at = "persist"
       \/ supported /\ slot[s].at = "loop" /\ slot[s].left # {}
    /\ faults < MaxFaults
    /\ faults' = faults + 1
    /\ \E k \in {"database_error", "unknown_error"} :
          slot' = [slot EXCEPT ![s].at = "record", ![s].why = k]
    /\ UNCHANGED <<today, supported, run, rows, crashes>>

\* The error row of the failed window (of the run's whole window when it was
\* refused); a retryable class or a rejected credential ends the loop.
RecordFailure(s) ==
    /\ slot[s].at = "record"
    /\ LET w == IF slot[s].refused THEN Row(s).window ELSE Earliest(slot[s].left)
           stop == slot[s].refused \/ Fatal(slot[s].why)
       IN  /\ errors' = errors \cup
                 {[run |-> slot[s].run, attempt |-> Row(s).attempt, window |-> w,
                   class |-> slot[s].why, by |-> NoRun,
                   seen |-> UNION {{r} \X run[r].done : r \in Runs}]}
           /\ slot' = [slot EXCEPT ![s].at = "loop", ![s].bad = TRUE,
                          ![s].left = IF stop THEN {} ELSE @ \ {w},
                          ![s].why = IF stop THEN @ ELSE "none"]
    /\ UNCHANGED <<today, supported, run, stored, cursor, fresh, connection,
                   crashes, faults>>

Outcome(s) == RunStatus(slot[s].some, slot[s].bad, supported)

CompleteSyncRun(s) ==
    /\ slot[s].at = "loop" /\ slot[s].left = {}
    /\ run' = [run EXCEPT ![slot[s].run].status = Outcome(s),
                          ![slot[s].run].class = slot[s].why]
    /\ slot' = [slot EXCEPT ![s].at = IF Outcome(s) = "failed" THEN "freshness"
                                      ELSE IF supported /\ slot[s].some THEN "resolve"
                                      ELSE "cursor"]
    /\ UNCHANGED <<today, supported, rows, crashes, faults>>

\* Faulty variant: errors are closed by the run's requested window instead of
\* the windows it completed.
ResolveErrorsByRequest(s) ==
    /\ slot[s].at = "resolve"
    /\ errors' = {IF /\ e.by = NoRun /\ e.run # slot[s].run
                     /\ Supersedes(Row(s).window, e.class, e.window)
                  THEN [e EXCEPT !.by = slot[s].run] ELSE e : e \in errors}
    /\ slot' = [slot EXCEPT ![s].at = "cursor"]
    /\ UNCHANGED <<today, supported, run, stored, cursor, fresh, connection,
                   crashes, faults>>

\* Every open error of the stream, of another run, that a window of this
\* execution supersedes.
ResolveErrors(s) ==
    /\ slot[s].at = "resolve"
    /\ errors' = {IF /\ e.by = NoRun /\ e.run # slot[s].run
                     /\ \E w \in slot[s].covered : Supersedes(w, e.class, e.window)
                  THEN [e EXCEPT !.by = slot[s].run] ELSE e : e \in errors}
    /\ slot' = [slot EXCEPT ![s].at = "cursor"]
    /\ UNCHANGED <<today, supported, run, stored, cursor, fresh, connection,
                   crashes, faults>>

\* Faulty variant: the cursor moves to the end of the requested window.
SetCursorToRequested(s) ==
    /\ slot[s].at = "cursor"
    /\ cursor' = IF slot[s].some THEN Row(s).window.to ELSE cursor
    /\ slot' = [slot EXCEPT ![s].at = "freshness"]
    /\ UNCHANGED <<today, supported, run, stored, errors, fresh, connection,
                   crashes, faults>>

SetCursor(s) ==
    /\ slot[s].at = "cursor"
    /\ cursor' = IF slot[s].latest # NoDay THEN slot[s].latest ELSE cursor
    /\ slot' = [slot EXCEPT ![s].at = "freshness"]
    /\ UNCHANGED <<today, supported, run, stored, errors, fresh, connection,
                   crashes, faults>>

\* The newest date never goes back; the status is this execution's.  A refused
\* run brings no date and always shows an error.
WriteFreshness(s) ==
    /\ slot[s].at = "freshness"
    /\ fresh' = [status |-> IF slot[s].refused THEN "error"
                            ELSE FreshnessOf(Outcome(s) # "failed", slot[s].latest,
                                             today, supported),
                 latest |-> Later(fresh.latest, slot[s].latest)]
    /\ slot' = [slot EXCEPT ![s].at = "connection"]
    /\ UNCHANGED <<today, supported, run, stored, errors, cursor, connection,
                   crashes, faults>>

\* Faulty variant: a partial run that a retryable failure stopped is requeued.
MarkConnectionRetriesPartial(s) ==
    /\ slot[s].at = "connection"
    /\ connection' = IF slot[s].refused THEN connection
                     ELSE IF CredentialRejected(slot[s].why) THEN "invalid_credentials"
                     ELSE IF Outcome(s) # "failed" THEN "connected"
                     ELSE connection
    /\ slot' = [slot EXCEPT ![s] =
                   IF Retryable(slot[s].why) THEN [@ EXCEPT !.at = "requeue"] ELSE IdleSlot]
    /\ UNCHANGED <<today, supported, run, stored, errors, cursor, fresh,
                   crashes, faults>>

\* The connection's status follows the run, unless it was refused; then the
\* worker looks at the summary.
MarkConnection(s) ==
    /\ slot[s].at = "connection"
    /\ connection' = IF slot[s].refused THEN connection
                     ELSE IF CredentialRejected(slot[s].why) THEN "invalid_credentials"
                     ELSE IF Outcome(s) # "failed" THEN "connected"
                     ELSE connection
    /\ slot' = [slot EXCEPT ![s] =
                   IF Outcome(s) = "failed" /\ Retryable(slot[s].why)
                   THEN [@ EXCEPT !.at = "requeue"] ELSE IdleSlot]
    /\ UNCHANGED <<today, supported, run, stored, errors, cursor, fresh,
                   crashes, faults>>

\* Faulty variant: requeueRun without its bound on the attempts.
RequeueRunUnbounded(s) ==
    /\ slot[s].at = "requeue"
    /\ run' = [run EXCEPT ![slot[s].run].status = "queued",
                          ![slot[s].run].attempt = @ + 1]
    /\ slot' = [slot EXCEPT ![s] = IdleSlot]
    /\ UNCHANGED <<today, supported, rows, crashes, faults>>

RequeueRun(s) ==
    /\ slot[s].at = "requeue"
    /\ run' = IF Row(s).attempt < MaxAttempts
              THEN [run EXCEPT ![slot[s].run].status = "queued",
                               ![slot[s].run].attempt = @ + 1]
              ELSE run
    /\ slot' = [slot EXCEPT ![s] = IdleSlot]
    /\ UNCHANGED <<today, supported, rows, crashes, faults>>

\* A statement outside the window's try fails, and runSync throws.
RunThrows(s) ==
    /\ \/ slot[s].at \in {"start", "record", "resolve", "cursor", "freshness", "requeue"}
       \/ slot[s].at = "connection" /\ ~slot[s].refused
       \/ slot[s].at = "loop" /\ slot[s].left = {}
    /\ faults < MaxFaults
    /\ faults' = faults + 1
    /\ slot' = [slot EXCEPT ![s].at = "catch"]
    /\ UNCHANGED <<today, supported, run, rows, crashes>>

\* The worker's catch settles the run as failed, whatever it had been.
CatchRun(s) ==
    /\ slot[s].at = "catch"
    /\ run' = [run EXCEPT ![slot[s].run].status = "failed",
                          ![slot[s].run].class = "unknown_error"]
    /\ slot' = [slot EXCEPT ![s] = IdleSlot]
    /\ UNCHANGED <<today, supported, rows, crashes, faults>>

\* The worker dies: its execution is gone and nothing is repaired.
Crash(s) ==
    /\ slot[s].at # "idle" /\ crashes < MaxCrashes
    /\ crashes' = crashes + 1
    /\ slot' = [slot EXCEPT ![s] = IdleSlot]
    /\ UNCHANGED <<today, supported, run, rows, faults>>

-----------------------------------------------------------------------------
Plan == EnqueueScheduled \/ EnqueueBackfill \/ EnqueueExplicit

Execute(s) ==
    \/ StartRun(s) \/ FetchWindow(s) \/ PersistWindow(s) \/ CheckpointWindow(s)
    \/ WindowThrows(s) \/ RecordFailure(s) \/ CompleteSyncRun(s) \/ ResolveErrors(s)
    \/ SetCursor(s) \/ WriteFreshness(s) \/ MarkConnection(s) \/ RequeueRun(s)
    \/ RunThrows(s) \/ CatchRun(s) \/ Crash(s)

Next ==
    \/ NextDay
    \/ Plan
    \/ \E s \in Slots : Execute(s) \/ \E r \in Runs : ClaimRun(s, r)

Spec == Init /\ [][Next]_vars

-----------------------------------------------------------------------------
\* A run's status says what its checkpoint and its error rows say, whatever
\* died or failed around it: 'completed' has every window and no failure in
\* that attempt, 'partially_completed' has a window and a failed one it did not
\* complete (engine.ts:322-335, 278-299).
StatusIsHonest ==
    \A r \in Runs :
        /\ run[r].status \in {"completed", "not_implemented"} =>
              /\ Chunks(run[r].window.from, run[r].window.to, ChunkDays) \subseteq run[r].done
              /\ ~\E e \in errors : e.run = r /\ e.attempt = run[r].attempt
        /\ run[r].status = "partially_completed" =>
              /\ run[r].done # {}
              /\ \E e \in errors : e.run = r /\ e.window \notin run[r].done

\* A queued run has an empty checkpoint, so the resume at engine.ts:160-169
\* never skips a window: only a run that completed none is ever requeued
\* (worker.ts:79).
RetryHasNothingToResume ==
    \A r \in Runs : run[r].status = "queued" => run[r].done = {}

\* An error is closed only by another run, and only by a window that run
\* checkpointed and that supersedes it (sync.ts:400-416, "Resolution is
\* proof-based, never a blanket clear").
ResolvedWithProof ==
    \A e \in errors : e.by # NoRun =>
        /\ e.by # e.run
        /\ \E w \in run[e.by].done : Supersedes(w, e.class, e.window)

\* ... and that window was read after the error was recorded (sync.ts:417-418:
\* what stays open includes "a window nothing has re-read since").
ResolvedByLaterRead ==
    \A e \in errors : e.by # NoRun =>
        \E w \in run[e.by].done :
            Supersedes(w, e.class, e.window) /\ <<e.by, w>> \notin e.seen

\* A run credited with closing an error is not on record as failed
\* (tests/integration/syncErrors.test.ts:194-196, "The run credited with the
\* fix is a later, successful run of that stream").
CreditedRunSucceeded ==
    \A e \in errors : e.by # NoRun => run[e.by].status # "failed"

\* The cursor never names a day whose window was not stored
\* (engine.ts:373-374, "only as far as data we actually stored").
CursorIsStored == cursor # NoDay => cursor \in stored

\* ... and neither does the date the freshness row shows, which is the greatest
\* of all runs' (upsertFreshness) while the cursor is the last run's.
DatesAreStored == CursorIsStored /\ (fresh.latest # NoDay => fresh.latest \in stored)

\* What a failed window left unstored is inside the next scheduled window
\* (engine.ts:374, "a failed window must not be skipped next time").
FailedWindowsAreReplanned ==
    LET next == IncrementalWindow(cursor, today, LookbackDays, BackfillDays)
    IN  \A e \in errors : DaysOf(e.window) \ stored \subseteq DaysOf(next)

\* Where a run is in the life RunLifecycle promises it, slots for workers.
Executing(r) == {s \in Slots : slot[s].run = r}

Place(r) ==
    IF Executing(r) # {} THEN "held"
    ELSE IF run[r].status \in {"absent", "queued"} THEN run[r].status
    ELSE IF run[r].status = "running" THEN "abandoned"
    ELSE "settled"

Lifecycle == INSTANCE RunLifecycle WITH
    Workers <- Slots,
    place <- [r \in Runs |-> Place(r)],
    holders <- [r \in Runs |-> Executing(r)],
    tries <- [r \in Runs |-> run[r].attempt]

\* The engine's own statements keep the promise the queue makes about a run.
ImplementsLifecycle == Lifecycle!LifecycleSpec

=============================================================================
