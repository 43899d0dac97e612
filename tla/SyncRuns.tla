------------------------------ MODULE SyncRuns ------------------------------
(***************************************************************************)
(* The control plane of a sync: PostgreSQL's sync_runs and sync_jobs       *)
(* tables used as a queue, the API handlers and the worker's scheduler     *)
(* that put runs into it, and the worker processes that claim, execute,    *)
(* settle and requeue them.  One step is one SQL statement of one actor,   *)
(* so every interleaving of replicas, API requests, crashes and failing    *)
(* statements is a behaviour.  What an execution does to the data is left  *)
(* to SyncEngine: here it only ends with a status and an error class.      *)
(***************************************************************************)
EXTENDS Naturals, FiniteSets

CONSTANTS
    Streams,       \* (connection, app, data type) scopes
    Runs,          \* rows the run table can hold
    Workers,       \* worker processes polling the tables
    Clients,       \* API requests that may be in progress at once
    NoStream,      \* "no stream": a null
    MaxAttempts,   \* SYNC_MAX_ATTEMPTS
    Concurrency,   \* WORKER_CONCURRENCY
    JobBatch,      \* the LIMIT scheduleDueJobs claims with
    MaxCrashes,    \* bound on process deaths
    MaxFaults      \* bound on statements of an execution that fail

ASSUME ConstantsAssumption ==
    /\ MaxAttempts \in Nat \ {0}
    /\ Concurrency \in Nat \ {0}
    /\ JobBatch \in Nat \ {0}
    /\ MaxCrashes \in Nat /\ MaxFaults \in Nat
    /\ NoStream \notin Streams
    /\ Workers \cap Clients = {}

VARIABLES
    status,      \* sync_runs.status; "absent" before the row is inserted
    streamOf,    \* the row's connection_id, app_id and data_type
    attempt,     \* sync_runs.attempt
    waiting,     \* whether sync_runs.not_before is still in the future
    job,         \* sync_jobs row of a stream: none, idle (next_run_at ahead), due
    link,        \* the stream's binding: bound, disconnected or unbound
    mode,        \* where a worker's tick or an API handler is
    todo,        \* streams its loop has still to visit
    passed,      \* stream whose hasActiveRun said no, not yet enqueued
    exec,        \* what each worker is doing with each run
    executions,  \* history: times a run was claimed
    crashes, faults

runRow == <<status, streamOf, attempt, waiting>>
actorVars == <<mode, todo, passed>>
budgets == <<crashes, faults>>
vars == <<status, streamOf, attempt, waiting, job, link, mode, todo, passed,
          exec, executions, crashes, faults>>

Actors == Workers \cup Clients
Succeeded == {"completed", "partially_completed", "not_implemented"}
Settled == Succeeded \cup {"failed", "cancelled"}
Active == {"queued", "running"}

\* claimed: before hydrateRequest; syncing: inside runSync; retry, lost and
\* done: the run row is written and the engine's last writes, then the requeue
\* or the reconciliation, are left; catch: something threw.
Phases == {"free", "claimed", "syncing", "retry", "lost", "done", "catch"}

TypeOK ==
    /\ status \in [Runs -> Settled \cup Active \cup {"absent"}]
    /\ streamOf \in [Runs -> Streams \cup {NoStream}]
    /\ attempt \in [Runs -> 0 .. MaxAttempts]
    /\ waiting \in [Runs -> BOOLEAN]
    /\ job \in [Streams -> {"none", "idle", "due"}]
    /\ link \in [Streams -> {"bound", "disconnected", "unbound"}]
    /\ mode \in [Actors -> {"idle", "enqueue", "drain", "down"}]
    /\ todo \in [Actors -> SUBSET Streams]
    /\ passed \in [Actors -> Streams \cup {NoStream}]
    /\ exec \in [Workers -> [Runs -> Phases]]
    /\ executions \in [Runs -> Nat]
    /\ crashes \in 0 .. MaxCrashes
    /\ faults \in 0 .. MaxFaults

Init ==
    /\ status = [r \in Runs |-> "absent"]
    /\ streamOf = [r \in Runs |-> NoStream]
    /\ attempt = [r \in Runs |-> 0]
    /\ waiting = [r \in Runs |-> FALSE]
    /\ job = [s \in Streams |-> "none"]
    /\ link = [s \in Streams |-> "unbound"]
    /\ mode = [a \in Actors |-> "idle"]
    /\ todo = [a \in Actors |-> {}]
    /\ passed = [a \in Actors |-> NoStream]
    /\ exec = [w \in Workers |-> [r \in Runs |-> "free"]]
    /\ executions = [r \in Runs |-> 0]
    /\ crashes = 0
    /\ faults = 0

-----------------------------------------------------------------------------
Held(r) == {w \in Workers : exec[w][r] # "free"}
InFlight(w) == {r \in Runs : exec[w][r] # "free"}
ActiveRuns(s) == {r \in Runs : streamOf[r] = s /\ status[r] \in Active}
HasActiveRun(s) == ActiveRuns(s) # {}
Least(m, n) == IF m < n THEN m ELSE n

StepExec(w, r, phase) == exec' = [exec EXCEPT ![w][r] = phase]

-----------------------------------------------------------------------------
\* The API: POST .../sync and the handlers that change a stream's binding.

\* Authorise, plan over the app's live bindings; an empty plan is refused and
\* changes nothing.
TriggerSync(c) ==
    /\ mode[c] = "idle"
    /\ \E wanted \in SUBSET {s \in Streams : link[s] = "bound"} \ {{}} :
          todo' = [todo EXCEPT ![c] = wanted]
    /\ mode' = [mode EXCEPT ![c] = "enqueue"]
    /\ UNCHANGED <<runRow, job, link, passed, exec, executions, budgets>>

\* One turn of a loop over planned requests: skip a stream with an active run,
\* or remember that it had none.  The worker plans each job here; a stream that
\* is no longer live plans nothing.
CheckActiveRun(a) ==
    /\ mode[a] = "enqueue" /\ passed[a] = NoStream
    /\ \E s \in todo[a] :
          /\ todo' = [todo EXCEPT ![a] = @ \ {s}]
          /\ passed' = [passed EXCEPT ![a] =
                IF HasActiveRun(s) \/ (a \in Workers /\ link[s] # "bound")
                THEN NoStream ELSE s]
    /\ UNCHANGED <<runRow, job, link, mode, exec, executions, budgets>>

\* The INSERT that follows, in a statement of its own.  Bound: a request that
\* finds no free row in the model's table is dropped.
EnqueueSync(a) ==
    /\ mode[a] = "enqueue" /\ passed[a] # NoStream
    /\ passed' = [passed EXCEPT ![a] = NoStream]
    /\ \/ \E r \in Runs :
             /\ status[r] = "absent"
             /\ status' = [status EXCEPT ![r] = "queued"]
             /\ streamOf' = [streamOf EXCEPT ![r] = passed[a]]
             /\ attempt' = [attempt EXCEPT ![r] = 1]
       \/ /\ \A r \in Runs : status[r] # "absent"
          /\ UNCHANGED <<status, streamOf, attempt>>
    /\ UNCHANGED <<waiting, job, link, mode, todo, exec, executions, budgets>>

\* ensureSyncJobs upserts a job per bound stream; a new one is due at once.
EnsureSyncJobs(links) ==
    job' = [s \in Streams |-> IF job[s] = "none" /\ links[s] # "unbound"
                             THEN "due" ELSE job[s]]

FinishTrigger(c) ==
    /\ mode[c] = "enqueue" /\ todo[c] = {} /\ passed[c] = NoStream
    /\ EnsureSyncJobs(link)
    /\ mode' = [mode EXCEPT ![c] = "idle"]
    /\ UNCHANGED <<runRow, link, todo, passed, exec, executions, budgets>>

\* The handler throws, or the API restarts, between two of its statements.
AbortTrigger(c) ==
    /\ mode[c] = "enqueue"
    /\ mode' = [mode EXCEPT ![c] = "idle"]
    /\ todo' = [todo EXCEPT ![c] = {}]
    /\ passed' = [passed EXCEPT ![c] = NoStream]
    /\ UNCHANGED <<runRow, job, link, exec, executions, budgets>>

\* A binding is created, on a connection that may already be disconnected, and
\* the app's jobs are ensured, unless the handler fails between the two.
Bind(s) ==
    /\ link[s] = "unbound"
    /\ \E l \in {"bound", "disconnected"} : link' = [link EXCEPT ![s] = l]
    /\ EnsureSyncJobs(link') \/ UNCHANGED job
    /\ UNCHANGED <<runRow, actorVars, exec, executions, budgets>>

\* Another provider is bound in the stream's place.
Unbind(s) ==
    /\ link[s] # "unbound"
    /\ link' = [link EXCEPT ![s] = "unbound"]
    /\ UNCHANGED <<runRow, job, actorVars, exec, executions, budgets>>

Disconnect(s) ==
    /\ link[s] = "bound"
    /\ link' = [link EXCEPT ![s] = "disconnected"]
    /\ UNCHANGED <<runRow, job, actorVars, exec, executions, budgets>>

\* New credentials, or a run that was still in flight, set another status.
Reconnect(s) ==
    /\ link[s] = "disconnected"
    /\ link' = [link EXCEPT ![s] = "bound"]
    /\ UNCHANGED <<runRow, job, actorVars, exec, executions, budgets>>

-----------------------------------------------------------------------------
\* The worker's tick: schedule, then drain, then sleep.

\* next_run_at moves a whole interval ahead as the job is claimed.
ClaimDueSyncJobs(w) ==
    /\ mode[w] = "idle"
    /\ LET due == {s \in Streams : job[s] = "due"}
       IN  \E jobs \in SUBSET due :
             /\ Cardinality(jobs) = Least(JobBatch, Cardinality(due))
             /\ job' = [s \in Streams |-> IF s \in jobs THEN "idle" ELSE job[s]]
             /\ todo' = [todo EXCEPT ![w] = jobs]
    /\ mode' = [mode EXCEPT ![w] = "enqueue"]
    /\ UNCHANGED <<runRow, link, passed, exec, executions, budgets>>

\* Planning or enqueueing one job threw; it is logged and the loop goes on.
DropJob(w) ==
    /\ mode[w] = "enqueue"
    /\ \/ /\ passed[w] # NoStream
          /\ passed' = [passed EXCEPT ![w] = NoStream]
          /\ UNCHANGED todo
       \/ /\ passed[w] = NoStream
          /\ \E s \in todo[w] : todo' = [todo EXCEPT ![w] = @ \ {s}]
          /\ UNCHANGED passed
    /\ UNCHANGED <<runRow, job, link, mode, exec, executions, budgets>>

\* claimQueuedRuns throws: the loop logs it, sleeps and ticks again.
TickThrows(w) ==
    /\ mode[w] = "enqueue" /\ todo[w] = {} /\ passed[w] = NoStream
    /\ mode' = [mode EXCEPT ![w] = "idle"]
    /\ UNCHANGED <<runRow, job, link, todo, passed, exec, executions, budgets>>

\* Faulty variants: the claim also takes rows left 'running' (as if to adopt
\* them); the claim overlooks retries.
ClaimableOrRunning == {r \in Runs : status[r] \in Active /\ ~waiting[r]}
ClaimableFirstAttempt == {r \in Runs : status[r] = "queued" /\ attempt[r] = 1}

Claimable == {r \in Runs : status[r] = "queued" /\ ~waiting[r]}

\* UPDATE ... FOR UPDATE SKIP LOCKED LIMIT capacity, one atomic statement: as
\* many claimable rows as there is capacity for.  Which ones (not_before order)
\* no safety property depends on.
ClaimQueuedRuns(w) ==
    /\ mode[w] = "enqueue" /\ todo[w] = {} /\ passed[w] = NoStream
    /\ \E batch \in SUBSET Claimable :
          /\ Cardinality(batch) =
                Least(Concurrency - Cardinality(InFlight(w)), Cardinality(Claimable))
          /\ status' = [r \in Runs |-> IF r \in batch THEN "running" ELSE status[r]]
          /\ exec' = [exec EXCEPT ![w] =
                [r \in Runs |-> IF r \in batch THEN "claimed" ELSE exec[w][r]]]
          /\ executions' = [r \in Runs |-> IF r \in batch THEN executions[r] + 1
                                           ELSE executions[r]]
    /\ mode' = [mode EXCEPT ![w] = "drain"]
    /\ UNCHANGED <<streamOf, attempt, waiting, job, link, todo, passed, budgets>>

\* Faulty variant: the early return forgets to settle the run.
CancelRunSilently(w, r) ==
    /\ exec[w][r] = "claimed" /\ link[streamOf[r]] = "unbound"
    /\ StepExec(w, r, "free")
    /\ UNCHANGED <<runRow, job, link, actorVars, executions, budgets>>

\* hydrateRequest finds no binding with an account.
CancelRun(w, r) ==
    /\ exec[w][r] = "claimed" /\ link[streamOf[r]] = "unbound"
    /\ status' = [status EXCEPT ![r] = "cancelled"]
    /\ StepExec(w, r, "free")
    /\ UNCHANGED <<streamOf, attempt, waiting, job, link, actorVars,
                   executions, budgets>>

\* hydrateRequest succeeds (it does not look at the connection's status), and
\* runSync starts by writing 'running'.
StartSyncRun(w, r) ==
    /\ exec[w][r] = "claimed" /\ link[streamOf[r]] # "unbound"
    /\ status' = [status EXCEPT ![r] = "running"]
    /\ StepExec(w, r, "syncing")
    /\ UNCHANGED <<streamOf, attempt, waiting, job, link, actorVars,
                   executions, budgets>>

\* runSync's completeSyncRun.  Only a failed run with a retryable class is
\* requeued; a partial run is not, whatever stopped it.
CompleteSyncRun(w, r) ==
    /\ exec[w][r] = "syncing"
    /\ \/ /\ \E st \in Succeeded : status' = [status EXCEPT ![r] = st]
          /\ StepExec(w, r, "done")
       \/ /\ status' = [status EXCEPT ![r] = "failed"]
          /\ \E phase \in {"retry", "lost"} : StepExec(w, r, phase)
    /\ UNCHANGED <<streamOf, attempt, waiting, job, link, actorVars,
                   executions, budgets>>

\* Faulty variants: requeueRun without its bound, and without attempt + 1.
RequeueRunUnbounded(w, r) ==
    /\ exec[w][r] = "retry"
    /\ status' = [status EXCEPT ![r] = "queued"]
    /\ attempt' = [attempt EXCEPT ![r] = @ + 1]
    /\ waiting' = [waiting EXCEPT ![r] = TRUE]
    /\ StepExec(w, r, "free")
    /\ UNCHANGED <<streamOf, job, link, actorVars, executions, budgets>>

RequeueRunSameAttempt(w, r) ==
    /\ exec[w][r] = "retry"
    /\ status' = [status EXCEPT ![r] = "queued"]
    /\ waiting' = [waiting EXCEPT ![r] = TRUE]
    /\ StepExec(w, r, "free")
    /\ UNCHANGED <<streamOf, attempt, job, link, actorVars, executions, budgets>>

\* requeueRun: no condition on the status, only on the attempts.
RequeueRun(w, r) ==
    /\ exec[w][r] = "retry"
    /\ IF attempt[r] < MaxAttempts
       THEN /\ status' = [status EXCEPT ![r] = "queued"]
            /\ attempt' = [attempt EXCEPT ![r] = @ + 1]
            /\ waiting' = [waiting EXCEPT ![r] = TRUE]
       ELSE UNCHANGED <<status, attempt, waiting>>
    /\ StepExec(w, r, "free")
    /\ UNCHANGED <<streamOf, job, link, actorVars, executions, budgets>>

\* The last writes are done (and, after a success, the reconciliation, whose
\* own errors are caught).
FinishRun(w, r) ==
    /\ exec[w][r] \in {"lost", "done"}
    /\ StepExec(w, r, "free")
    /\ UNCHANGED <<runRow, job, link, actorVars, executions, budgets>>

\* A statement of the execution fails outside runSync's own try: hydration, the
\* run row, or a write after it.
RunThrows(w, r) ==
    /\ exec[w][r] \in {"claimed", "syncing", "retry", "lost", "done"}
    /\ faults < MaxFaults
    /\ faults' = faults + 1
    /\ StepExec(w, r, "catch")
    /\ UNCHANGED <<runRow, job, link, actorVars, executions, crashes>>

\* Faulty variant: the catch only logs.
CatchRunSilently(w, r) ==
    /\ exec[w][r] = "catch"
    /\ StepExec(w, r, "free")
    /\ UNCHANGED <<runRow, job, link, actorVars, executions, budgets>>

\* processQueuedRuns' catch: the run is failed/unknown_error, never requeued;
\* if that statement fails too, its error is swallowed and the row is left.
CatchRun(w, r) ==
    /\ exec[w][r] = "catch"
    /\ \/ /\ status' = [status EXCEPT ![r] = "failed"]
          /\ UNCHANGED faults
       \/ /\ faults < MaxFaults
          /\ faults' = faults + 1
          /\ UNCHANGED status
    /\ StepExec(w, r, "free")
    /\ UNCHANGED <<streamOf, attempt, waiting, job, link, actorVars,
                   executions, crashes>>

\* Promise.all over the batch resolves; the loop sleeps and ticks again.
EndTick(w) ==
    /\ mode[w] = "drain" /\ InFlight(w) = {}
    /\ mode' = [mode EXCEPT ![w] = "idle"]
    /\ UNCHANGED <<runRow, job, link, todo, passed, exec, executions, budgets>>

\* The process dies, or is told to stop and exits after its 30 s deadline.
CrashWorker(w) ==
    /\ mode[w] # "down" /\ crashes < MaxCrashes
    /\ crashes' = crashes + 1
    /\ mode' = [mode EXCEPT ![w] = "down"]
    /\ todo' = [todo EXCEPT ![w] = {}]
    /\ passed' = [passed EXCEPT ![w] = NoStream]
    /\ exec' = [exec EXCEPT ![w] = [r \in Runs |-> "free"]]
    /\ UNCHANGED <<runRow, job, link, executions, faults>>

\* Faulty variant: a restarted worker puts every 'running' row back.
RestartWorkerRequeues(w) ==
    /\ mode[w] = "down"
    /\ mode' = [mode EXCEPT ![w] = "idle"]
    /\ status' = [r \in Runs |-> IF status[r] = "running" THEN "queued" ELSE status[r]]
    /\ UNCHANGED <<streamOf, attempt, waiting, job, link, todo, passed, exec,
                   executions, budgets>>

\* A worker comes back with nothing in flight and looks for nothing to repair.
RestartWorker(w) ==
    /\ mode[w] = "down"
    /\ mode' = [mode EXCEPT ![w] = "idle"]
    /\ UNCHANGED <<runRow, job, link, todo, passed, exec, executions, budgets>>

-----------------------------------------------------------------------------
\* Time: a backoff ends, an interval ends.

BackoffElapses(r) ==
    /\ waiting[r]
    /\ waiting' = [waiting EXCEPT ![r] = FALSE]
    /\ UNCHANGED <<status, streamOf, attempt, job, link, actorVars, exec,
                   executions, budgets>>

JobFallsDue(s) ==
    /\ job[s] = "idle"
    /\ job' = [job EXCEPT ![s] = "due"]
    /\ UNCHANGED <<runRow, link, actorVars, exec, executions, budgets>>

-----------------------------------------------------------------------------
Api(c) == TriggerSync(c) \/ CheckActiveRun(c) \/ EnqueueSync(c)
          \/ FinishTrigger(c) \/ AbortTrigger(c)

Relink(s) == Bind(s) \/ Unbind(s) \/ Disconnect(s) \/ Reconnect(s)

Execute(w, r) == CancelRun(w, r) \/ StartSyncRun(w, r) \/ CompleteSyncRun(w, r)
                 \/ RequeueRun(w, r) \/ FinishRun(w, r) \/ CatchRun(w, r)

Tick(w) == ClaimDueSyncJobs(w) \/ CheckActiveRun(w) \/ EnqueueSync(w)
           \/ ClaimQueuedRuns(w) \/ EndTick(w)

Next ==
    \/ \E c \in Clients : Api(c)
    \/ \E w \in Workers : Tick(w) \/ DropJob(w) \/ TickThrows(w) \/ CrashWorker(w)
                         \/ RestartWorker(w)
    \/ \E w \in Workers, r \in Runs : Execute(w, r) \/ RunThrows(w, r)
    \/ \E s \in Streams : Relink(s) \/ JobFallsDue(s)
    \/ \E r \in Runs : BackoffElapses(r)

Spec == Init /\ [][Next]_vars

\* Workers keep ticking and restart after a crash, executions end, backoffs
\* elapse; a claim orders by not_before, so a run that stays claimable is not
\* passed over for ever.  Requests, bindings, schedules and failures owe nothing.
Fairness ==
    /\ \A w \in Workers :
          /\ WF_vars(Tick(w))
          /\ WF_vars(RestartWorker(w))
    /\ \A w \in Workers, r \in Runs : WF_vars(Execute(w, r))
    /\ \A r \in Runs :
          /\ WF_vars(BackoffElapses(r))
          /\ SF_vars(\E w \in Workers :
                        ClaimQueuedRuns(w) /\ r \in Claimable /\ status'[r] = "running")

FairSpec == Spec /\ Fairness

-----------------------------------------------------------------------------
\* A run is in the hands of at most one worker (worker.ts:26-27, "without ever
\* executing one run twice").
ExclusiveExecution ==
    \A r \in Runs : \A w \in Held(r) : Held(r) = {w}

\* What a worker believes of a run it holds is what the row says, although no
\* statement but the claim checks the row: nobody cancels, requeues or settles
\* a run underneath its worker (startSyncRun, completeSyncRun and requeueRun
\* are all WHERE id = $1).
PhaseMatchesRow ==
    \A w \in Workers, r \in Runs :
        /\ exec[w][r] \in {"claimed", "syncing"} => status[r] = "running"
        /\ exec[w][r] \in {"retry", "lost"} => status[r] = "failed"
        /\ exec[w][r] = "done" => status[r] \in Succeeded
        /\ exec[w][r] = "catch" => status[r] \in Settled \cup {"running"} /\ faults > 0

\* Each attempt is executed at most once: a run that waits has been claimed one
\* time fewer than it has attempts, a run that was claimed exactly as many
\* times, across crashes, failing statements and every worker replica
\* (requeueRun and claimQueuedRuns together).
OneExecutionPerAttempt ==
    \A r \in Runs :
        executions[r] + (IF status[r] = "queued" THEN 1 ELSE 0) = attempt[r]

\* A row left 'running' that nobody executes comes only from a dead worker, or
\* from two failing statements of which the second was the one meant to settle
\* it (worker.ts:99-111).
RunningIsHeld ==
    \A r \in Runs :
        (status[r] = "running" /\ Held(r) = {}) => crashes > 0 \/ faults > 1

\* A settled run is opened again only as the next attempt of a failed one, by
\* the worker that executed it: no success, cancellation or catch-path failure
\* is ever run again (requeueRun itself has no such condition).
OnlyFailuresReopen ==
    [][\A r \in Runs :
          (status[r] \in Settled /\ status'[r] # status[r]) =>
             \/ /\ status[r] = "failed" /\ status'[r] = "queued"
                /\ attempt'[r] = attempt[r] + 1
                /\ \E w \in Workers : exec[w][r] = "retry"
             \/ status'[r] = "failed"]_vars

\* The comment at apps/api/src/routes/sync.ts:72-73: "One active run per
\* (connection, app, data type): a second click must not create a duplicate
\* import."
OneActiveRun ==
    \A s \in Streams : Cardinality(ActiveRuns(s)) <= 1

\* While nobody dies, every queued run is executed to a settled row that its
\* worker has let go of, one failing statement, retries and backoffs included.
QueuedRunsSettle ==
    \A r \in Runs :
        (status[r] = "queued") ~>
            \/ status[r] \in Settled /\ Held(r) = {}
            \/ crashes > 0

\* A queued run is claimed even if a worker dies, as long as it is restarted
\* ("a triggered sync survives" - ARCHITECTURE.md:29-30 - up to its claim).
QueuedRunsAreClaimed ==
    \A r \in Runs : (status[r] = "queued") ~> (status[r] # "queued")

-----------------------------------------------------------------------------
\* Where a run is in the life RunLifecycle promises it.
Place(r) ==
    IF Held(r) # {} THEN "held"
    ELSE IF status[r] \in {"absent", "queued"} THEN status[r]
    ELSE IF status[r] = "running" THEN "abandoned"
    ELSE "settled"

Lifecycle == INSTANCE RunLifecycle WITH
    place <- [r \in Runs |-> Place(r)],
    holders <- [r \in Runs |-> Held(r)],
    tries <- attempt

\* SyncRuns implements RunLifecycle: one worker at a time from claim to
\* release, a budget of attempts, and settled or abandoned for good.
ImplementsLifecycle == Lifecycle!LifecycleSpec

=============================================================================
