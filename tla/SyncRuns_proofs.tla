--------------------------- MODULE SyncRuns_proofs ---------------------------
(***************************************************************************)
(* Theorems about SyncRuns, for any number of streams, rows, workers and   *)
(* requests, any budget of attempts, deaths and failing statements.        *)
(***************************************************************************)
EXTENDS SyncRuns, TLAPS

(***************************************************************************)
(* Types.                                                                  *)
(***************************************************************************)

\* StepExec moves one worker's hold on one run and nothing else.
LEMMA StepExecAt ==
    ASSUME TypeOK, NEW w \in Workers, NEW r \in Runs, NEW phase \in Phases,
           StepExec(w, r, phase)
    PROVE  /\ exec' \in [Workers -> [Runs -> Phases]]
           /\ exec'[w][r] = phase
           /\ \A v \in Workers, q \in Runs : v # w \/ q # r => exec'[v][q] = exec[v][q]
BY DEF TypeOK, StepExec

\* The INSERT of a run, by a handler or by a worker.
LEMMA EnqueueSyncTypes ==
    ASSUME TypeOK, NEW a \in Actors, EnqueueSync(a)
    PROVE  TypeOK'
<1>1. passed[a] \in Streams /\ 1 \in 0 .. MaxAttempts
  BY ConstantsAssumption DEF TypeOK, EnqueueSync
<1>2. CASE UNCHANGED <<status, streamOf, attempt>>
  BY <1>2 DEF TypeOK, EnqueueSync, budgets
<1>3. CASE \E r \in Runs : /\ status' = [status EXCEPT ![r] = "queued"]
                           /\ streamOf' = [streamOf EXCEPT ![r] = passed[a]]
                           /\ attempt' = [attempt EXCEPT ![r] = 1]
  <2> PICK r \in Runs : /\ status' = [status EXCEPT ![r] = "queued"]
                        /\ streamOf' = [streamOf EXCEPT ![r] = passed[a]]
                        /\ attempt' = [attempt EXCEPT ![r] = 1]
    BY <1>3
  <2>1. status' \in [Runs -> Settled \cup Active \cup {"absent"}]
    BY DEF TypeOK, Active
  <2>2. streamOf' \in [Runs -> Streams \cup {NoStream}]
    BY <1>1 DEF TypeOK
  <2>3. attempt' \in [Runs -> 0 .. MaxAttempts]
    BY <1>1 DEF TypeOK
  <2>4. passed' \in [Actors -> Streams \cup {NoStream}]
    BY DEF TypeOK, EnqueueSync
  <2> QED BY <2>1, <2>2, <2>3, <2>4 DEF TypeOK, EnqueueSync, budgets
<1>4. (\E r \in Runs : /\ status' = [status EXCEPT ![r] = "queued"]
                       /\ streamOf' = [streamOf EXCEPT ![r] = passed[a]]
                       /\ attempt' = [attempt EXCEPT ![r] = 1])
      \/ UNCHANGED <<status, streamOf, attempt>>
  BY DEF EnqueueSync
<1> QED BY <1>2, <1>3, <1>4

\* Every action keeps the types.
LEMMA TypeOKInductive == TypeOK /\ [Next]_vars => TypeOK'
<1> SUFFICES ASSUME TypeOK, [Next]_vars PROVE TypeOK'
  OBVIOUS
<1> USE ConstantsAssumption DEF TypeOK, runRow, actorVars, budgets
<1>1. ASSUME NEW c \in Clients, Api(c) PROVE TypeOK'
  <2> c \in Actors  BY DEF Actors
  <2>1. CASE TriggerSync(c)     BY <2>1 DEF TriggerSync
  <2>2. CASE CheckActiveRun(c)  BY <2>2 DEF CheckActiveRun
  <2>3. CASE EnqueueSync(c)     BY <2>3, EnqueueSyncTypes
  <2>4. CASE FinishTrigger(c)   BY <2>4 DEF FinishTrigger, EnsureSyncJobs
  <2>5. CASE AbortTrigger(c)    BY <2>5 DEF AbortTrigger
  <2> QED BY <1>1, <2>1, <2>2, <2>3, <2>4, <2>5 DEF Api
<1>2. ASSUME NEW w \in Workers,
             Tick(w) \/ DropJob(w) \/ TickThrows(w) \/ CrashWorker(w) \/ RestartWorker(w)
      PROVE TypeOK'
  <2> w \in Actors  BY DEF Actors
  <2>1. CASE ClaimDueSyncJobs(w)  BY <2>1 DEF ClaimDueSyncJobs
  <2>2. CASE CheckActiveRun(w)    BY <2>2 DEF CheckActiveRun
  <2>3. CASE EnqueueSync(w)       BY <2>3, EnqueueSyncTypes
  <2>4. CASE ClaimQueuedRuns(w)   BY <2>4 DEF ClaimQueuedRuns, Active, Phases
  <2>5. CASE EndTick(w)           BY <2>5 DEF EndTick
  <2>6. CASE DropJob(w)           BY <2>6 DEF DropJob
  <2>7. CASE CrashWorker(w)       BY <2>7 DEF CrashWorker, Phases
  <2>8. CASE RestartWorker(w)     BY <2>8 DEF RestartWorker
  <2>9. CASE TickThrows(w)        BY <2>9 DEF TickThrows
  <2> QED BY <1>2, <2>1, <2>2, <2>3, <2>4, <2>5, <2>6, <2>7, <2>8, <2>9 DEF Tick
<1>3. ASSUME NEW w \in Workers, NEW r \in Runs, Execute(w, r) \/ RunThrows(w, r)
      PROVE TypeOK'
  <2> USE DEF StepExec, Phases, Settled, Succeeded, Active
  <2>1. CASE CancelRun(w, r)        BY <2>1 DEF CancelRun
  <2>2. CASE StartSyncRun(w, r)     BY <2>2 DEF StartSyncRun
  <2>3. CASE CompleteSyncRun(w, r)
    <3>1. exec' \in [Workers -> [Runs -> Phases]]
      BY <2>3, StepExecAt DEF CompleteSyncRun
    <3>2. status' \in [Runs -> Settled \cup Active \cup {"absent"}]
      BY <2>3 DEF CompleteSyncRun
    <3> QED BY <2>3, <3>1, <3>2 DEF CompleteSyncRun
  <2>4. CASE RequeueRun(w, r)
    <3>1. exec' \in [Workers -> [Runs -> Phases]]
      BY <2>4 DEF RequeueRun
    <3>2. /\ status' \in [Runs -> Settled \cup Active \cup {"absent"}]
          /\ waiting' \in [Runs -> BOOLEAN]
      BY <2>4 DEF RequeueRun
    <3>3. attempt' \in [Runs -> 0 .. MaxAttempts]
      <4>1. attempt[r] \in Nat /\ (attempt[r] < MaxAttempts => attempt[r] + 1 \in 0 .. MaxAttempts)
        OBVIOUS
      <4> QED BY <2>4, <4>1 DEF RequeueRun
    <3> QED BY <2>4, <3>1, <3>2, <3>3 DEF RequeueRun
  <2>5. CASE FinishRun(w, r)        BY <2>5 DEF FinishRun
  <2>6. CASE CatchRun(w, r)         BY <2>6 DEF CatchRun
  <2>7. CASE RunThrows(w, r)        BY <2>7 DEF RunThrows
  <2> QED BY <1>3, <2>1, <2>2, <2>3, <2>4, <2>5, <2>6, <2>7 DEF Execute
<1>4. ASSUME NEW s \in Streams, Relink(s) \/ JobFallsDue(s) PROVE TypeOK'
  BY <1>4 DEF Relink, Bind, Unbind, Disconnect, Reconnect, JobFallsDue, EnsureSyncJobs
<1>5. ASSUME NEW r \in Runs, BackoffElapses(r) PROVE TypeOK'
  BY <1>5 DEF BackoffElapses
<1>6. CASE UNCHANGED vars  BY <1>6 DEF vars
<1> QED BY <1>1, <1>2, <1>3, <1>4, <1>5, <1>6 DEF Next

\* Every value the tables, the handlers and the workers hold has its type; in
\* particular no run is given more than SYNC_MAX_ATTEMPTS attempts.
THEOREM TypeCorrect == Spec => []TypeOK
<1>1. Init => TypeOK
  BY ConstantsAssumption DEF Init, TypeOK, Settled, Active, Succeeded, Phases
<1>2. TypeOK /\ [Next]_vars => TypeOK'
  BY TypeOKInductive
<1> QED BY <1>1, <1>2, PTL DEF Spec

(***************************************************************************)
(* The queue's inductive invariant.  Exclusive execution is not inductive  *)
(* on its own: a claim takes only queued rows, so it must be known that no *)
(* worker still holds a queued row, which PhaseMatchesRow says; the count  *)
(* of executions needs the attempt of a row not inserted yet.              *)
(***************************************************************************)
OneHolder ==
    \A r \in Runs, w \in Workers, v \in Workers :
        exec[w][r] # "free" /\ exec[v][r] # "free" => w = v

AbsentUntried == \A r \in Runs : status[r] = "absent" => attempt[r] = 0

QueueInv ==
    /\ OneHolder
    /\ PhaseMatchesRow
    /\ AbsentUntried
    /\ OneExecutionPerAttempt
    /\ RunningIsHeld

\* A row nobody holds is free for every worker, and the other way round.
LEMMA HeldElementwise ==
    ASSUME NEW r \in Runs
    PROVE  Held(r) = {} <=> \A w \in Workers : exec[w][r] = "free"
BY DEF Held

\* A row that waits, or is not there yet, is in nobody's hands.
LEMMA WaitingIsFree ==
    ASSUME TypeOK, PhaseMatchesRow, NEW r \in Runs, status[r] \in {"absent", "queued"},
           NEW w \in Workers
    PROVE  exec[w][r] = "free"
<1>1. exec[w][r] \in Phases
  BY DEF TypeOK
<1> QED BY <1>1 DEF PhaseMatchesRow, Phases, Succeeded, Settled

\* What leaves the rows, the workers' hands and the budgets alone leaves the
\* invariant alone: the API handlers, planning, bindings and time.
LEMMA QueueUntouched ==
    ASSUME QueueInv,
           UNCHANGED <<status, attempt, exec, executions, crashes, faults>>
    PROVE  QueueInv'
BY DEF QueueInv, OneHolder, PhaseMatchesRow, AbsentUntried,
       OneExecutionPerAttempt, RunningIsHeld, Held

\* One step of an execution: worker w moves run r to a phase, and only the row
\* of r may change.  The invariant then only has to be seen at r.
LEMMA ExecutionStep ==
    ASSUME TypeOK, TypeOK', QueueInv,
           NEW w \in Workers, NEW r \in Runs, NEW phase \in Phases,
           StepExec(w, r, phase), exec[w][r] # "free",
           \A q \in Runs \ {r} : status'[q] = status[q] /\ attempt'[q] = attempt[q],
           UNCHANGED <<executions, crashes>>,
           faults' \in {faults, faults + 1},
           phase \in {"claimed", "syncing"} => status'[r] = "running",
           phase \in {"retry", "lost"} => status'[r] = "failed",
           phase = "done" => status'[r] \in Succeeded,
           phase = "catch" => status'[r] \in Settled \cup {"running"} /\ faults' > 0,
           status'[r] # "absent",
           executions[r] + (IF status'[r] = "queued" THEN 1 ELSE 0) = attempt'[r],
           status'[r] = "running" /\ phase = "free" => crashes' > 0 \/ faults' > 1
    PROVE  QueueInv'
<1> DEFINE MovedOnly == \A v \in Workers, q \in Runs :
                           v # w \/ q # r => exec'[v][q] = exec[v][q]
<1>1. exec'[w][r] = phase /\ MovedOnly
  BY StepExecAt
<1>2. \A v \in Workers : v # w => exec[v][r] = "free" /\ exec'[v][r] = "free"
  BY <1>1 DEF QueueInv, OneHolder
<1>3. faults' >= faults /\ faults \in Nat /\ faults' \in Nat
  BY ConstantsAssumption DEF TypeOK
<1>4. OneHolder'
  BY <1>1, <1>2 DEF QueueInv, OneHolder
<1>5. PhaseMatchesRow'
  <2> SUFFICES ASSUME NEW v \in Workers, NEW q \in Runs
               PROVE  /\ exec'[v][q] \in {"claimed", "syncing"} => status'[q] = "running"
                      /\ exec'[v][q] \in {"retry", "lost"} => status'[q] = "failed"
                      /\ exec'[v][q] = "done" => status'[q] \in Succeeded
                      /\ exec'[v][q] = "catch" =>
                            status'[q] \in Settled \cup {"running"} /\ faults' > 0
    BY DEF PhaseMatchesRow
  <2>1. CASE v = w /\ q = r
    BY <1>1, <2>1
  <2>2. CASE v # w /\ q = r
    BY <1>2, <2>2
  <2>3. CASE q # r
    <3>1. exec'[v][q] = exec[v][q] /\ status'[q] = status[q]
      BY <1>1, <2>3
    <3> QED BY <1>3, <3>1 DEF QueueInv, PhaseMatchesRow
  <2> QED BY <2>1, <2>2, <2>3
<1>6. AbsentUntried'
  BY DEF QueueInv, AbsentUntried
<1>7. OneExecutionPerAttempt'
  BY DEF QueueInv, OneExecutionPerAttempt
<1>8. RunningIsHeld'
  <2> SUFFICES ASSUME NEW q \in Runs, status'[q] = "running", Held(q)' = {}
               PROVE  crashes' > 0 \/ faults' > 1
    BY DEF RunningIsHeld
  <2>1. \A v \in Workers : exec'[v][q] = "free"
    BY DEF Held
  <2>2. CASE q = r
    BY <1>1, <2>1, <2>2
  <2>3. CASE q # r
    <3>1. Held(q) = {}
      BY <1>1, <2>1, <2>3, HeldElementwise
    <3> QED BY <1>3, <2>3, <3>1 DEF QueueInv, RunningIsHeld
  <2> QED BY <2>2, <2>3
<1> QED BY <1>4, <1>5, <1>6, <1>7, <1>8 DEF QueueInv

\* The INSERT of a run: a row in nobody's hands gets its first attempt.
LEMMA EnqueueSyncKeepsInv ==
    ASSUME TypeOK, QueueInv, NEW a \in Actors, EnqueueSync(a)
    PROVE  QueueInv'
<1>1. UNCHANGED <<exec, executions, crashes, faults>>
  BY DEF EnqueueSync, budgets
<1>2. CASE UNCHANGED <<status, streamOf, attempt>>
  BY <1>1, <1>2, QueueUntouched
<1>3. ASSUME NEW r \in Runs, status[r] = "absent",
             status' = [status EXCEPT ![r] = "queued"],
             attempt' = [attempt EXCEPT ![r] = 1]
      PROVE  QueueInv'
  <2>1. /\ status'[r] = "queued" /\ attempt'[r] = 1
        /\ \A q \in Runs \ {r} : status'[q] = status[q] /\ attempt'[q] = attempt[q]
    BY <1>3 DEF TypeOK
  <2>2. \A w \in Workers : exec[w][r] = "free"
    BY <1>3, WaitingIsFree DEF QueueInv
  <2>3. executions[r] = 0
    BY <1>3 DEF TypeOK, QueueInv, OneExecutionPerAttempt, AbsentUntried
  <2>4. OneHolder'
    BY <1>1 DEF QueueInv, OneHolder
  <2>5. PhaseMatchesRow'
    BY <1>1, <2>1, <2>2 DEF QueueInv, PhaseMatchesRow
  <2>6. AbsentUntried'
    BY <2>1 DEF QueueInv, AbsentUntried
  <2>7. OneExecutionPerAttempt'
    BY <1>1, <2>1, <2>3 DEF QueueInv, OneExecutionPerAttempt
  <2>8. RunningIsHeld'
    BY <1>1, <2>1 DEF QueueInv, RunningIsHeld, Held
  <2> QED BY <2>4, <2>5, <2>6, <2>7, <2>8 DEF QueueInv
<1> QED BY <1>2, <1>3 DEF EnqueueSync

\* The claim: every row of the batch was queued, so nobody held it.
LEMMA ClaimKeepsInv ==
    ASSUME TypeOK, QueueInv, NEW w \in Workers, ClaimQueuedRuns(w)
    PROVE  QueueInv'
<1>1. PICK batch \in SUBSET Claimable :
        /\ status' = [r \in Runs |-> IF r \in batch THEN "running" ELSE status[r]]
        /\ exec' = [exec EXCEPT ![w] =
              [r \in Runs |-> IF r \in batch THEN "claimed" ELSE exec[w][r]]]
        /\ executions' = [r \in Runs |-> IF r \in batch THEN executions[r] + 1
                                         ELSE executions[r]]
  BY DEF ClaimQueuedRuns
<1>2. UNCHANGED <<attempt, crashes, faults>>
  BY DEF ClaimQueuedRuns, budgets
<1>3. \A r \in Runs, v \in Workers :
        exec'[v][r] = IF v = w /\ r \in batch THEN "claimed" ELSE exec[v][r]
  BY <1>1 DEF TypeOK
<1>4. \A r \in batch : r \in Runs /\ status[r] = "queued"
  BY DEF Claimable
<1>5. \A r \in batch, v \in Workers : exec[v][r] = "free"
  BY <1>4, WaitingIsFree DEF QueueInv
<1>6. OneHolder'
  BY <1>3, <1>5 DEF QueueInv, OneHolder
<1>7. PhaseMatchesRow'
  <2> SUFFICES ASSUME NEW v \in Workers, NEW r \in Runs
               PROVE  /\ exec'[v][r] \in {"claimed", "syncing"} => status'[r] = "running"
                      /\ exec'[v][r] \in {"retry", "lost"} => status'[r] = "failed"
                      /\ exec'[v][r] = "done" => status'[r] \in Succeeded
                      /\ exec'[v][r] = "catch" =>
                            status'[r] \in Settled \cup {"running"} /\ faults' > 0
    BY DEF PhaseMatchesRow
  <2>1. CASE r \in batch
    BY <1>1, <1>3, <1>5, <2>1
  <2>2. CASE r \notin batch
    <3>1. exec'[v][r] = exec[v][r] /\ status'[r] = status[r]
      BY <1>1, <1>3, <2>2
    <3> QED BY <1>2, <3>1 DEF QueueInv, PhaseMatchesRow
  <2> QED BY <2>1, <2>2
<1>8. AbsentUntried'
  BY <1>1, <1>2 DEF QueueInv, AbsentUntried
<1>9. OneExecutionPerAttempt'
  <2> SUFFICES ASSUME NEW r \in Runs
               PROVE  executions'[r] + (IF status'[r] = "queued" THEN 1 ELSE 0) = attempt'[r]
    BY DEF OneExecutionPerAttempt
  <2>1. executions[r] + (IF status[r] = "queued" THEN 1 ELSE 0) = attempt[r]
    BY DEF QueueInv, OneExecutionPerAttempt
  <2>2. executions[r] \in Nat
    BY DEF TypeOK
  <2> QED BY <1>1, <1>2, <1>4, <2>1, <2>2
<1>10. RunningIsHeld'
  <2> SUFFICES ASSUME NEW r \in Runs, status'[r] = "running", Held(r)' = {}
               PROVE  crashes' > 0 \/ faults' > 1
    BY DEF RunningIsHeld
  <2>1. \A v \in Workers : exec'[v][r] = "free"
    BY DEF Held
  <2>2. r \notin batch
    BY <1>3, <2>1
  <2>3. Held(r) = {} /\ status[r] = "running"
    BY <1>1, <1>3, <2>1, <2>2, HeldElementwise
  <2> QED BY <1>2, <2>3 DEF QueueInv, RunningIsHeld
<1> QED BY <1>6, <1>7, <1>8, <1>9, <1>10 DEF QueueInv

\* A death frees everything the worker held and explains what it left running.
LEMMA CrashKeepsInv ==
    ASSUME TypeOK, QueueInv, NEW w \in Workers, CrashWorker(w)
    PROVE  QueueInv'
<1>1. \A v \in Workers, r \in Runs : exec'[v][r] \in {exec[v][r], "free"}
  BY DEF TypeOK, CrashWorker
<1>2. UNCHANGED <<status, attempt, executions, faults>> /\ crashes' > 0
  BY ConstantsAssumption DEF TypeOK, CrashWorker, runRow
<1>3. OneHolder'
  BY <1>1 DEF QueueInv, OneHolder
<1>4. PhaseMatchesRow'
  BY <1>1, <1>2 DEF QueueInv, PhaseMatchesRow
<1>5. AbsentUntried' /\ OneExecutionPerAttempt' /\ RunningIsHeld'
  BY <1>2 DEF QueueInv, AbsentUntried, OneExecutionPerAttempt, RunningIsHeld
<1> QED BY <1>3, <1>4, <1>5 DEF QueueInv

\* The steps of an execution, each an ExecutionStep.
LEMMA ExecuteKeepsInv ==
    ASSUME TypeOK, TypeOK', QueueInv, NEW w \in Workers, NEW r \in Runs,
           Execute(w, r) \/ RunThrows(w, r)
    PROVE  QueueInv'
<1> DEFINE RowOnly == \A q \in Runs \ {r} : status'[q] = status[q] /\ attempt'[q] = attempt[q]
<1>1. executions[r] + (IF status[r] = "queued" THEN 1 ELSE 0) = attempt[r]
  BY DEF QueueInv, OneExecutionPerAttempt
<1>2. /\ exec[w][r] \in {"claimed", "syncing"} => status[r] = "running"
      /\ exec[w][r] \in {"retry", "lost"} => status[r] = "failed"
      /\ exec[w][r] = "done" => status[r] \in Succeeded
      /\ exec[w][r] = "catch" => status[r] \in Settled \cup {"running"} /\ faults > 0
  BY DEF QueueInv, PhaseMatchesRow
<1>3. executions[r] \in Nat /\ attempt[r] \in Nat /\ faults \in Nat
  BY ConstantsAssumption DEF TypeOK
<1>4. CASE CancelRun(w, r)
  <2>1. /\ exec[w][r] = "claimed" /\ StepExec(w, r, "free")
        /\ UNCHANGED <<attempt, executions, crashes, faults>>
        /\ status' = [status EXCEPT ![r] = "cancelled"]
    BY <1>4 DEF CancelRun, budgets
  <2>2. status'[r] = "cancelled" /\ RowOnly
    BY <2>1 DEF TypeOK
  <2> QED BY <1>1, <1>2, <1>3, <2>1, <2>2, ExecutionStep DEF Phases
<1>5. CASE StartSyncRun(w, r)
  <2>1. /\ exec[w][r] = "claimed" /\ StepExec(w, r, "syncing")
        /\ UNCHANGED <<attempt, executions, crashes, faults>>
        /\ status' = [status EXCEPT ![r] = "running"]
    BY <1>5 DEF StartSyncRun, budgets
  <2>2. status'[r] = "running" /\ RowOnly
    BY <2>1 DEF TypeOK
  <2> QED BY <1>1, <1>2, <1>3, <2>1, <2>2, ExecutionStep DEF Phases
<1>6. CASE CompleteSyncRun(w, r)
  <2>1. exec[w][r] = "syncing" /\ UNCHANGED <<attempt, executions, crashes, faults>>
    BY <1>6 DEF CompleteSyncRun, budgets
  <2>2. CASE /\ \E st \in Succeeded : status' = [status EXCEPT ![r] = st]
             /\ StepExec(w, r, "done")
    <3>1. status'[r] \in Succeeded /\ RowOnly
      BY <2>1, <2>2 DEF TypeOK
    <3> QED BY <1>1, <1>2, <1>3, <2>1, <2>2, <3>1, ExecutionStep DEF Phases, Succeeded
  <2>3. CASE /\ status' = [status EXCEPT ![r] = "failed"]
             /\ \E phase \in {"retry", "lost"} : StepExec(w, r, phase)
    <3>1. status'[r] = "failed" /\ RowOnly
      BY <2>1, <2>3 DEF TypeOK
    <3>2. PICK phase \in {"retry", "lost"} : StepExec(w, r, phase)
      BY <2>3
    <3> QED BY <1>1, <1>2, <1>3, <2>1, <3>1, <3>2, ExecutionStep DEF Phases
  <2> QED BY <1>6, <2>2, <2>3 DEF CompleteSyncRun
<1>7. CASE RequeueRun(w, r)
  <2>1. exec[w][r] = "retry" /\ StepExec(w, r, "free")
        /\ UNCHANGED <<executions, crashes, faults>>
    BY <1>7 DEF RequeueRun, budgets
  <2>2. CASE attempt[r] < MaxAttempts
    <3>1. status'[r] = "queued" /\ attempt'[r] = attempt[r] + 1 /\ RowOnly
      BY <1>7, <2>2 DEF RequeueRun, TypeOK
    <3>2. executions[r] = attempt[r]
      BY <1>1, <1>2, <1>3, <2>1
    <3> QED BY <1>3, <2>1, <3>1, <3>2, ExecutionStep DEF Phases
  <2>3. CASE ~(attempt[r] < MaxAttempts)
    <3>1. UNCHANGED <<status, attempt>>
      BY <1>7, <2>3 DEF RequeueRun
    <3> QED BY <1>1, <1>2, <1>3, <2>1, <3>1, ExecutionStep DEF Phases
  <2> QED BY <2>2, <2>3
<1>8. CASE FinishRun(w, r)
  <2>1. /\ exec[w][r] \in {"lost", "done"} /\ StepExec(w, r, "free")
        /\ UNCHANGED <<status, attempt, executions, crashes, faults>>
    BY <1>8 DEF FinishRun, runRow, budgets
  <2>2. status[r] \notin {"absent", "running"}
    BY <1>2, <2>1 DEF Succeeded
  <2> QED BY <1>1, <1>2, <1>3, <2>1, <2>2, ExecutionStep DEF Phases
<1>9. CASE CatchRun(w, r)
  <2>1. /\ exec[w][r] = "catch" /\ StepExec(w, r, "free")
        /\ UNCHANGED <<attempt, executions, crashes>>
        /\ status[r] \in Settled \cup {"running"} /\ faults > 0
    BY <1>2, <1>9 DEF CatchRun
  <2>2. executions[r] = attempt[r]
    BY <1>1, <1>3, <2>1 DEF Settled, Succeeded
  <2>3. CASE status' = [status EXCEPT ![r] = "failed"] /\ UNCHANGED faults
    <3>1. status'[r] = "failed" /\ RowOnly
      BY <2>1, <2>3 DEF TypeOK
    <3> QED BY <1>3, <2>1, <2>2, <2>3, <3>1, ExecutionStep DEF Phases
  <2>4. CASE faults' = faults + 1 /\ UNCHANGED status
    <3>1. status'[r] \notin {"absent", "queued"} /\ RowOnly
      BY <2>1, <2>4 DEF Settled, Succeeded
    <3> QED BY <1>3, <2>1, <2>2, <2>4, <3>1, ExecutionStep DEF Phases
  <2> QED BY <1>9, <2>3, <2>4 DEF CatchRun
<1>10. CASE RunThrows(w, r)
  <2>1. /\ exec[w][r] \in {"claimed", "syncing", "retry", "lost", "done"}
        /\ StepExec(w, r, "catch") /\ faults' = faults + 1
        /\ UNCHANGED <<status, attempt, executions, crashes>>
    BY <1>10 DEF RunThrows, runRow
  <2>2. status[r] \in Settled \cup {"running"}
    BY <1>2, <2>1 DEF Settled, Succeeded
  <2>3. faults' > 0 /\ status[r] # "absent"
    BY <1>3, <2>1, <2>2 DEF Settled, Succeeded
  <2> QED BY <1>1, <2>1, <2>2, <2>3, ExecutionStep DEF Phases
<1> QED BY <1>4, <1>5, <1>6, <1>7, <1>8, <1>9, <1>10 DEF Execute

\* Every action keeps the invariant.
LEMMA QueueInvInductive ==
    ASSUME TypeOK, TypeOK', QueueInv, [Next]_vars
    PROVE  QueueInv'
<1>1. ASSUME NEW c \in Clients, Api(c) PROVE QueueInv'
  <2>1. CASE EnqueueSync(c)
    BY <2>1, EnqueueSyncKeepsInv DEF Actors
  <2>2. CASE TriggerSync(c) \/ CheckActiveRun(c) \/ FinishTrigger(c) \/ AbortTrigger(c)
    BY <2>2, QueueUntouched
    DEF TriggerSync, CheckActiveRun, FinishTrigger, AbortTrigger, runRow, budgets
  <2> QED BY <1>1, <2>1, <2>2 DEF Api
<1>2. ASSUME NEW w \in Workers,
             Tick(w) \/ DropJob(w) \/ TickThrows(w) \/ CrashWorker(w) \/ RestartWorker(w)
      PROVE  QueueInv'
  <2>1. CASE EnqueueSync(w)
    BY <2>1, EnqueueSyncKeepsInv DEF Actors
  <2>2. CASE ClaimQueuedRuns(w)
    BY <2>2, ClaimKeepsInv
  <2>3. CASE CrashWorker(w)
    BY <2>3, CrashKeepsInv
  <2>4. CASE ClaimDueSyncJobs(w) \/ CheckActiveRun(w) \/ EndTick(w) \/ DropJob(w)
             \/ TickThrows(w) \/ RestartWorker(w)
    BY <2>4, QueueUntouched
    DEF ClaimDueSyncJobs, CheckActiveRun, EndTick, DropJob, TickThrows, RestartWorker, runRow, budgets
  <2> QED BY <1>2, <2>1, <2>2, <2>3, <2>4 DEF Tick
<1>3. ASSUME NEW w \in Workers, NEW r \in Runs, Execute(w, r) \/ RunThrows(w, r)
      PROVE  QueueInv'
  BY <1>3, ExecuteKeepsInv
<1>4. ASSUME NEW s \in Streams, Relink(s) \/ JobFallsDue(s) PROVE QueueInv'
  BY <1>4, QueueUntouched DEF Relink, Bind, Unbind, Disconnect, Reconnect, JobFallsDue, runRow, budgets
<1>5. ASSUME NEW r \in Runs, BackoffElapses(r) PROVE QueueInv'
  BY <1>5, QueueUntouched DEF BackoffElapses, budgets
<1>6. CASE UNCHANGED vars
  BY <1>6, QueueUntouched DEF vars
<1> QED BY <1>1, <1>2, <1>3, <1>4, <1>5, <1>6 DEF Next

\* The invariant holds of every reachable state.
THEOREM QueueInvariant == Spec => []QueueInv
<1>1. Init => QueueInv
  BY DEF Init, QueueInv, OneHolder, PhaseMatchesRow, AbsentUntried,
         OneExecutionPerAttempt, RunningIsHeld, Held
<1>2. TypeOK /\ TypeOK' /\ QueueInv /\ [Next]_vars => QueueInv'
  BY QueueInvInductive
<1> QED BY <1>1, <1>2, TypeCorrect, PTL DEF Spec

(***************************************************************************)
(* What the queue promises.                                                *)
(***************************************************************************)

\* No run is ever executed by two workers at once, whatever the number of
\* replicas polling the table, although only the claim looks at the row's
\* status (worker.ts:26-27).
THEOREM Exclusive == Spec => []ExclusiveExecution
<1>1. OneHolder => ExclusiveExecution
  BY DEF OneHolder, ExclusiveExecution, Held
<1> QED BY <1>1, QueueInvariant, PTL DEF QueueInv

\* Nothing changes a run underneath the worker that executes it, although
\* startSyncRun, completeSyncRun and requeueRun would not notice.
THEOREM RowFollowsPhase == Spec => []PhaseMatchesRow
BY QueueInvariant, PTL DEF QueueInv

\* Each attempt that requeueRun grants is executed at most once.
THEOREM AttemptsAreExecutedOnce == Spec => []OneExecutionPerAttempt
BY QueueInvariant, PTL DEF QueueInv

\* A run is left 'running' in nobody's hands only by a death, or by two failing
\* statements (worker.ts:99-111).
THEOREM StuckRunsAreExplained == Spec => []RunningIsHeld
BY QueueInvariant, PTL DEF QueueInv

\* A settled run changes in two ways only: requeueRun gives a failed one its
\* next attempt, or the catch path writes 'failed' over it.
LEMMA SettledStep ==
    ASSUME TypeOK, QueueInv, [Next]_vars, NEW r \in Runs, status[r] \in Settled,
           status'[r] # status[r]
    PROVE  \/ /\ status[r] = "failed" /\ status'[r] = "queued"
              /\ attempt'[r] = attempt[r] + 1
              /\ \E w \in Workers : exec[w][r] = "retry"
           \/ status'[r] = "failed"
<1> DEFINE Reopened == /\ status[r] = "failed" /\ status'[r] = "queued"
                       /\ attempt'[r] = attempt[r] + 1
                       /\ \E w \in Workers : exec[w][r] = "retry"
<1>1. status[r] \notin {"absent", "queued", "running"}
  BY DEF Settled, Succeeded
<1>2. ASSUME NEW a \in Actors, EnqueueSync(a) PROVE FALSE
  BY <1>1, <1>2 DEF EnqueueSync, TypeOK
<1>3. ASSUME NEW w \in Workers, NEW q \in Runs, Execute(w, q) \/ RunThrows(w, q)
      PROVE  Reopened \/ status'[r] = "failed"
  <2>1. exec[w][q] \in {"claimed", "syncing"} => status[q] = "running"
    BY DEF QueueInv, PhaseMatchesRow
  <2>2. exec[w][q] = "retry" => status[q] = "failed"
    BY DEF QueueInv, PhaseMatchesRow
  <2>3. CASE CancelRun(w, q) \/ StartSyncRun(w, q) \/ CompleteSyncRun(w, q)
    BY <1>1, <2>1, <2>3 DEF CancelRun, StartSyncRun, CompleteSyncRun, TypeOK
  <2>4. CASE RequeueRun(w, q)
    BY <2>2, <2>4 DEF RequeueRun, TypeOK
  <2>5. CASE CatchRun(w, q)
    BY <2>5 DEF CatchRun, TypeOK
  <2>6. CASE FinishRun(w, q) \/ RunThrows(w, q)
    BY <2>6 DEF FinishRun, RunThrows, runRow
  <2> QED BY <1>3, <2>3, <2>4, <2>5, <2>6 DEF Execute
<1>4. ASSUME NEW w \in Workers, ClaimQueuedRuns(w) PROVE FALSE
  BY <1>1, <1>4 DEF ClaimQueuedRuns, Claimable
<1>5. ASSUME NEW c \in Clients, Api(c) PROVE FALSE
  BY <1>2, <1>5 DEF Api, TriggerSync, CheckActiveRun, FinishTrigger, AbortTrigger,
                    runRow, Actors
<1>6. ASSUME NEW w \in Workers,
             Tick(w) \/ DropJob(w) \/ TickThrows(w) \/ CrashWorker(w) \/ RestartWorker(w)
      PROVE  FALSE
  BY <1>2, <1>4, <1>6 DEF Tick, ClaimDueSyncJobs, CheckActiveRun, EndTick, DropJob, TickThrows,
                          CrashWorker, RestartWorker, runRow, Actors
<1>7. ASSUME NEW s \in Streams, Relink(s) \/ JobFallsDue(s) PROVE FALSE
  BY <1>7 DEF Relink, Bind, Unbind, Disconnect, Reconnect, JobFallsDue, runRow
<1>8. ASSUME NEW q \in Runs, BackoffElapses(q) PROVE FALSE
  BY <1>8 DEF BackoffElapses
<1>9. CASE UNCHANGED vars
  BY <1>9 DEF vars
<1> QED BY <1>3, <1>5, <1>6, <1>7, <1>8, <1>9 DEF Next

\* No success, cancellation or catch-path failure is ever run again, although
\* requeueRun has no condition on the status it overwrites.
THEOREM SettledRunsStaySettled == Spec => OnlyFailuresReopen
<1>1. TypeOK /\ QueueInv /\ [Next]_vars =>
        [\A r \in Runs :
           (status[r] \in Settled /\ status'[r] # status[r]) =>
              \/ /\ status[r] = "failed" /\ status'[r] = "queued"
                 /\ attempt'[r] = attempt[r] + 1
                 /\ \E w \in Workers : exec[w][r] = "retry"
              \/ status'[r] = "failed"]_vars
  BY SettledStep
<1> QED BY <1>1, TypeCorrect, QueueInvariant, PTL DEF Spec, OnlyFailuresReopen

(***************************************************************************)
(* SyncRuns implements RunLifecycle: a step of the tables, the handlers    *)
(* and the workers is one step of some runs' lives, or none.               *)
(***************************************************************************)

\* Where a run is depends only on its row and on who holds it.
LEMMA PlaceUnchanged ==
    ASSUME NEW r \in Runs, UNCHANGED Held(r), UNCHANGED status[r]
    PROVE  Place(r)' = Place(r)
BY DEF Place

\* Steps that leave the rows' status and attempt and the workers' hands alone
\* are invisible.
LEMMA Invisible ==
    ASSUME UNCHANGED <<status, attempt, exec>>
    PROVE  UNCHANGED Lifecycle!lifecycleVars
BY DEF Lifecycle!lifecycleVars, Place, Held

\* Moving a run between phases of one execution is invisible to its holders;
\* letting it go empties their set and no other.
LEMMA HeldStep ==
    ASSUME TypeOK, QueueInv, NEW w \in Workers, NEW r \in Runs, NEW phase \in Phases,
           StepExec(w, r, phase), exec[w][r] # "free"
    PROVE  /\ Held(r) = {w}
           /\ Held(r)' = IF phase = "free" THEN {} ELSE {w}
           /\ \A q \in Runs \ {r} : Held(q)' = Held(q)
<1>1. /\ exec'[w][r] = phase
      /\ \A v \in Workers, q \in Runs : v # w \/ q # r => exec'[v][q] = exec[v][q]
  BY StepExecAt
<1>2. \A v \in Workers : v # w => exec[v][r] = "free"
  BY DEF QueueInv, OneHolder
<1>3. Held(r) = {w}
  BY <1>2 DEF Held
<1>4. Held(r)' = IF phase = "free" THEN {} ELSE {w}
  BY <1>1, <1>2 DEF Held
<1>5. \A q \in Runs \ {r} : Held(q)' = Held(q)
  BY <1>1 DEF Held
<1> QED BY <1>3, <1>4, <1>5

\* A phase change of a run that keeps its holder is invisible.
LEMMA PhaseStep ==
    ASSUME TypeOK, TypeOK', QueueInv, NEW w \in Workers, NEW r \in Runs,
           NEW phase \in Phases \ {"free"},
           StepExec(w, r, phase), exec[w][r] # "free",
           \A q \in Runs \ {r} : status'[q] = status[q],
           UNCHANGED attempt
    PROVE  UNCHANGED Lifecycle!lifecycleVars
<1>1. \A q \in Runs : Held(q)' = Held(q)
  BY HeldStep
<1>2. \A q \in Runs : Place(q)' = Place(q)
  <2>1. Held(r) # {} /\ Held(r)' # {}
    BY HeldStep
  <2>2. Place(r)' = Place(r)
    BY <2>1 DEF Place
  <2>3. ASSUME NEW q \in Runs \ {r} PROVE Place(q)' = Place(q)
    BY <1>1, PlaceUnchanged
  <2> QED BY <2>2, <2>3
<1> QED BY <1>1, <1>2 DEF Lifecycle!lifecycleVars

\* Letting one run go, settled or not, is a Release of it.
LEMMA ReleaseStep ==
    ASSUME TypeOK, TypeOK', QueueInv, NEW w \in Workers, NEW r \in Runs,
           StepExec(w, r, "free"), exec[w][r] # "free",
           \A q \in Runs \ {r} : status'[q] = status[q],
           status'[r] \in Settled \cup {"running"},
           UNCHANGED attempt
    PROVE  Lifecycle!LifecycleNext
<1>1. /\ Held(r) = {w} /\ Held(r)' = {}
      /\ \A q \in Runs \ {r} : Held(q)' = Held(q)
  BY HeldStep DEF Phases
<1>2. Place(r) = "held"
  BY <1>1 DEF Place
<1>3. \A q \in Runs \ {r} : Place(q)' = Place(q)
  BY <1>1, PlaceUnchanged
<1>4. CASE status'[r] = "running"
  <2>1. Place(r)' = "abandoned"
    BY <1>1, <1>4 DEF Place
  <2>2. Lifecycle!Release(w, {}, {r})
    BY <1>1, <1>2, <1>3, <2>1 DEF Lifecycle!Release
  <2> QED BY <2>2 DEF Lifecycle!LifecycleNext
<1>5. CASE status'[r] \in Settled
  <2>1. Place(r)' = "settled"
    BY <1>1, <1>5 DEF Place, Settled, Succeeded
  <2>2. Lifecycle!Release(w, {r}, {})
    BY <1>1, <1>2, <1>3, <2>1 DEF Lifecycle!Release
  <2> QED BY <2>2 DEF Lifecycle!LifecycleNext
<1> QED BY <1>4, <1>5

\* The steps of an execution.
LEMMA ExecuteRefines ==
    ASSUME TypeOK, TypeOK', QueueInv, NEW w \in Workers, NEW r \in Runs,
           Execute(w, r) \/ RunThrows(w, r)
    PROVE  [Lifecycle!LifecycleNext]_Lifecycle!lifecycleVars
<1>1. /\ exec[w][r] \in {"claimed", "syncing"} => status[r] = "running"
      /\ exec[w][r] \in {"retry", "lost"} => status[r] = "failed"
      /\ exec[w][r] = "done" => status[r] \in Succeeded
      /\ exec[w][r] = "catch" => status[r] \in Settled \cup {"running"}
  BY DEF QueueInv, PhaseMatchesRow
<1>2. CASE CancelRun(w, r)
  <2>1. /\ exec[w][r] = "claimed" /\ StepExec(w, r, "free") /\ UNCHANGED attempt
        /\ status' = [status EXCEPT ![r] = "cancelled"]
    BY <1>2 DEF CancelRun
  <2>2. status'[r] \in Settled /\ \A q \in Runs \ {r} : status'[q] = status[q]
    BY <2>1 DEF TypeOK, Settled
  <2> QED BY <2>1, <2>2, ReleaseStep
<1>3. CASE StartSyncRun(w, r)
  <2>1. /\ exec[w][r] = "claimed" /\ StepExec(w, r, "syncing") /\ UNCHANGED attempt
        /\ \A q \in Runs \ {r} : status'[q] = status[q]
    BY <1>3 DEF StartSyncRun, TypeOK
  <2> QED BY <2>1, PhaseStep DEF Phases
<1>4. CASE CompleteSyncRun(w, r)
  <2>1. /\ exec[w][r] = "syncing" /\ UNCHANGED attempt
        /\ \E phase \in {"done", "retry", "lost"} : StepExec(w, r, phase)
        /\ \A q \in Runs \ {r} : status'[q] = status[q]
    BY <1>4 DEF CompleteSyncRun, TypeOK
  <2> QED BY <2>1, PhaseStep DEF Phases
<1>5. CASE RequeueRun(w, r)
  <2>1. exec[w][r] = "retry" /\ StepExec(w, r, "free") /\ status[r] = "failed"
    BY <1>1, <1>5 DEF RequeueRun
  <2>2. CASE attempt[r] < MaxAttempts
    <3>1. /\ status' = [status EXCEPT ![r] = "queued"]
          /\ attempt' = [attempt EXCEPT ![r] = @ + 1]
      BY <1>5, <2>2 DEF RequeueRun
    <3>2. /\ Held(r) = {w} /\ Held(r)' = {}
          /\ \A q \in Runs \ {r} : Held(q)' = Held(q)
      BY <2>1, HeldStep DEF Phases
    <3>3. Place(r) = "held" /\ Place(r)' = "queued"
      BY <3>1, <3>2 DEF Place, TypeOK
    <3>4. \A q \in Runs \ {r} : Place(q)' = Place(q)
      <4>1. \A q \in Runs \ {r} : status'[q] = status[q]
        BY <3>1 DEF TypeOK
      <4> QED BY <3>2, <4>1, PlaceUnchanged
    <3>5. Lifecycle!Retry(w, r)
      BY <2>2, <3>1, <3>2, <3>3, <3>4 DEF Lifecycle!Retry
    <3> QED BY <3>5 DEF Lifecycle!LifecycleNext
  <2>3. CASE ~(attempt[r] < MaxAttempts)
    <3>1. UNCHANGED <<status, attempt>>
      BY <1>5, <2>3 DEF RequeueRun
    <3> QED BY <2>1, <3>1, ReleaseStep DEF Settled
  <2> QED BY <2>2, <2>3
<1>6. CASE FinishRun(w, r)
  <2>1. /\ exec[w][r] \in {"lost", "done"} /\ StepExec(w, r, "free")
        /\ UNCHANGED <<status, attempt>>
    BY <1>6 DEF FinishRun, runRow
  <2> QED BY <1>1, <2>1, ReleaseStep DEF Settled
<1>7. CASE CatchRun(w, r)
  <2>1. exec[w][r] = "catch" /\ StepExec(w, r, "free") /\ UNCHANGED attempt
    BY <1>7 DEF CatchRun
  <2>2. /\ status'[r] \in Settled \cup {"running"}
        /\ \A q \in Runs \ {r} : status'[q] = status[q]
    BY <1>1, <1>7, <2>1 DEF CatchRun, TypeOK, Settled
  <2> QED BY <2>1, <2>2, ReleaseStep
<1>8. CASE RunThrows(w, r)
  <2>1. /\ exec[w][r] # "free" /\ StepExec(w, r, "catch")
        /\ UNCHANGED <<status, attempt>>
    BY <1>8 DEF RunThrows, runRow
  <2> QED BY <2>1, PhaseStep DEF Phases
<1> QED BY <1>2, <1>3, <1>4, <1>5, <1>6, <1>7, <1>8 DEF Execute

\* The INSERT of a run is its creation; one that finds no row is invisible.
LEMMA EnqueueRefines ==
    ASSUME TypeOK, TypeOK', QueueInv, NEW a \in Actors, EnqueueSync(a)
    PROVE  [Lifecycle!LifecycleNext]_Lifecycle!lifecycleVars
<1>1. UNCHANGED exec
  BY DEF EnqueueSync
<1>2. CASE UNCHANGED <<status, streamOf, attempt>>
  BY <1>1, <1>2, Invisible
<1>3. ASSUME NEW r \in Runs, status[r] = "absent",
             status' = [status EXCEPT ![r] = "queued"],
             attempt' = [attempt EXCEPT ![r] = 1]
      PROVE  Lifecycle!LifecycleNext
  <2>1. \A q \in Runs : Held(q)' = Held(q)
    BY <1>1 DEF Held
  <2>2. Held(r) = {}
    BY <1>3, WaitingIsFree DEF Held, QueueInv
  <2>3. Place(r) = "absent" /\ Place(r)' = "queued"
    BY <1>3, <2>1, <2>2 DEF Place, TypeOK
  <2>4. \A q \in Runs \ {r} : Place(q)' = Place(q)
    <3>1. \A q \in Runs \ {r} : status'[q] = status[q]
      BY <1>3 DEF TypeOK
    <3> QED BY <2>1, <3>1, PlaceUnchanged
  <2>5. Lifecycle!Create(r)
    BY <1>3, <2>1, <2>3, <2>4 DEF Lifecycle!Create
  <2> QED BY <2>5 DEF Lifecycle!LifecycleNext
<1> QED BY <1>2, <1>3 DEF EnqueueSync

\* A claim takes its batch.
LEMMA ClaimRefines ==
    ASSUME TypeOK, TypeOK', QueueInv, NEW w \in Workers, ClaimQueuedRuns(w)
    PROVE  Lifecycle!LifecycleNext
<1>1. PICK batch \in SUBSET Claimable :
        /\ status' = [r \in Runs |-> IF r \in batch THEN "running" ELSE status[r]]
        /\ exec' = [exec EXCEPT ![w] =
              [r \in Runs |-> IF r \in batch THEN "claimed" ELSE exec[w][r]]]
  BY DEF ClaimQueuedRuns
<1>2. UNCHANGED attempt
  BY DEF ClaimQueuedRuns
<1>3. \A r \in Runs, v \in Workers :
        exec'[v][r] = IF v = w /\ r \in batch THEN "claimed" ELSE exec[v][r]
  BY <1>1 DEF TypeOK
<1>4. batch \in SUBSET Runs /\ \A r \in batch : status[r] = "queued"
  BY DEF Claimable
<1>5. \A r \in batch : Held(r) = {} /\ Held(r)' = {w}
  <2> SUFFICES ASSUME NEW r \in batch PROVE Held(r) = {} /\ Held(r)' = {w}
    OBVIOUS
  <2>1. \A v \in Workers : exec[v][r] = "free"
    BY <1>4, WaitingIsFree DEF QueueInv
  <2> QED BY <1>3, <1>4, <2>1 DEF Held
<1>6. \A r \in Runs \ batch : Held(r)' = Held(r) /\ status'[r] = status[r]
  BY <1>1, <1>3 DEF Held
<1>7. \A r \in batch : Place(r) = "queued" /\ Place(r)' = "held"
  BY <1>4, <1>5 DEF Place
<1>8. \A r \in Runs \ batch : Place(r)' = Place(r)
  BY <1>6, PlaceUnchanged
<1>9. Lifecycle!Take(w, batch)
  BY <1>2, <1>4, <1>5, <1>6, <1>7, <1>8 DEF Lifecycle!Take
<1> QED BY <1>4, <1>9 DEF Lifecycle!LifecycleNext

\* A death releases everything the worker held: what was still running is
\* abandoned, the rest had its row written already.
LEMMA CrashRefines ==
    ASSUME TypeOK, TypeOK', QueueInv, NEW w \in Workers, CrashWorker(w)
    PROVE  Lifecycle!LifecycleNext
<1> DEFINE Mine == InFlight(w)
           Left == {r \in Mine : status[r] = "running"}
<1>1. UNCHANGED <<status, attempt>>
  BY DEF CrashWorker, runRow
<1>2. \A v \in Workers, r \in Runs :
        exec'[v][r] = IF v = w THEN "free" ELSE exec[v][r]
  BY DEF CrashWorker, TypeOK
<1>3. \A r \in Mine : Held(r) = {w} /\ Held(r)' = {}
  BY <1>2 DEF InFlight, Held, QueueInv, OneHolder
<1>4. \A r \in Runs \ Mine : Held(r)' = Held(r)
  BY <1>2 DEF InFlight, Held
<1>5. \A r \in Mine : r \in Runs /\ status[r] \in Settled \cup {"running"}
  <2> SUFFICES ASSUME NEW r \in Mine
               PROVE  r \in Runs /\ status[r] \in Settled \cup {"running"}
    OBVIOUS
  <2>1. r \in Runs /\ exec[w][r] # "free"
    BY DEF InFlight
  <2>2. status[r] \notin {"absent", "queued"}
    BY <2>1, WaitingIsFree DEF QueueInv
  <2> QED BY <2>1, <2>2 DEF TypeOK, Active
<1>6. \A r \in Mine : Place(r) = "held" /\ Place(r)' = IF r \in Left THEN "abandoned"
                                                       ELSE "settled"
  BY <1>1, <1>3, <1>5 DEF Place, Settled, Succeeded
<1>7. \A r \in Runs \ Mine : Place(r)' = Place(r)
  BY <1>1, <1>4, PlaceUnchanged
<1>8. Mine \in SUBSET Runs /\ Left \in SUBSET Runs /\ Left \subseteq Mine
  BY <1>5
<1> HIDE DEF Mine, Left
<1>9. Lifecycle!Release(w, Mine \ Left, Left)
  BY <1>1, <1>3, <1>4, <1>6, <1>7, <1>8 DEF Lifecycle!Release
<1> QED BY <1>8, <1>9 DEF Lifecycle!LifecycleNext

\* Every step of the queue is a step of one life, or none.
LEMMA NextRefines ==
    ASSUME TypeOK, TypeOK', QueueInv, [Next]_vars
    PROVE  [Lifecycle!LifecycleNext]_Lifecycle!lifecycleVars
<1>1. ASSUME NEW c \in Clients, Api(c)
      PROVE  [Lifecycle!LifecycleNext]_Lifecycle!lifecycleVars
  <2>1. CASE EnqueueSync(c)
    BY <2>1, EnqueueRefines DEF Actors
  <2>2. CASE TriggerSync(c) \/ CheckActiveRun(c) \/ FinishTrigger(c) \/ AbortTrigger(c)
    BY <2>2, Invisible
    DEF TriggerSync, CheckActiveRun, FinishTrigger, AbortTrigger, runRow
  <2> QED BY <1>1, <2>1, <2>2 DEF Api
<1>2. ASSUME NEW w \in Workers,
             Tick(w) \/ DropJob(w) \/ TickThrows(w) \/ CrashWorker(w) \/ RestartWorker(w)
      PROVE  [Lifecycle!LifecycleNext]_Lifecycle!lifecycleVars
  <2>1. CASE EnqueueSync(w)
    BY <2>1, EnqueueRefines DEF Actors
  <2>2. CASE ClaimQueuedRuns(w)
    BY <2>2, ClaimRefines
  <2>3. CASE CrashWorker(w)
    BY <2>3, CrashRefines
  <2>4. CASE ClaimDueSyncJobs(w) \/ CheckActiveRun(w) \/ EndTick(w) \/ DropJob(w)
             \/ TickThrows(w) \/ RestartWorker(w)
    BY <2>4, Invisible
    DEF ClaimDueSyncJobs, CheckActiveRun, EndTick, DropJob, TickThrows, RestartWorker, runRow
  <2> QED BY <1>2, <2>1, <2>2, <2>3, <2>4 DEF Tick
<1>3. ASSUME NEW w \in Workers, NEW r \in Runs, Execute(w, r) \/ RunThrows(w, r)
      PROVE  [Lifecycle!LifecycleNext]_Lifecycle!lifecycleVars
  BY <1>3, ExecuteRefines
<1>4. ASSUME NEW s \in Streams, Relink(s) \/ JobFallsDue(s)
      PROVE  [Lifecycle!LifecycleNext]_Lifecycle!lifecycleVars
  BY <1>4, Invisible DEF Relink, Bind, Unbind, Disconnect, Reconnect, JobFallsDue, runRow
<1>5. ASSUME NEW r \in Runs, BackoffElapses(r)
      PROVE  [Lifecycle!LifecycleNext]_Lifecycle!lifecycleVars
  BY <1>5, Invisible DEF BackoffElapses
<1>6. CASE UNCHANGED vars
  BY <1>6, Invisible DEF vars
<1> QED BY <1>1, <1>2, <1>3, <1>4, <1>5, <1>6 DEF Next

\* SyncRuns implements RunLifecycle: a run is created queued, is in one
\* worker's hands from claim to release, is retried within SYNC_MAX_ATTEMPTS,
\* and once settled or abandoned is never taken again.
THEOREM LifecycleImplemented == Spec => ImplementsLifecycle
<1>1. Init => Lifecycle!LifecycleInit
  BY DEF Init, Lifecycle!LifecycleInit, Place, Held
<1>2. TypeOK /\ TypeOK' /\ QueueInv /\ [Next]_vars =>
        [Lifecycle!LifecycleNext]_Lifecycle!lifecycleVars
  BY NextRefines
<1> QED
  BY <1>1, <1>2, TypeCorrect, QueueInvariant, PTL
  DEF Spec, ImplementsLifecycle, Lifecycle!LifecycleSpec

=============================================================================
