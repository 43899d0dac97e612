---------------------------- MODULE RunLifecycle ----------------------------
(***************************************************************************)
(* What the sync queue promises about one run, without its statements: a   *)
(* run is created queued, is taken by one worker at a time, and leaves     *)
(* that worker either queued for one more attempt within the budget,       *)
(* settled for good, or abandoned by a worker that died holding it.        *)
(* SyncRuns and SyncEngine implement it.                                   *)
(***************************************************************************)
EXTENDS Naturals

CONSTANTS
    Runs,          \* rows of sync_runs
    Workers,       \* worker processes (or the execution slots of one)
    MaxAttempts    \* SYNC_MAX_ATTEMPTS

VARIABLES
    place,     \* absent, queued, held, settled or abandoned
    holders,   \* the workers executing each run
    tries      \* attempts each run has been given

lifecycleVars == <<place, holders, tries>>

LifecycleInit ==
    /\ place = [r \in Runs |-> "absent"]
    /\ holders = [r \in Runs |-> {}]
    /\ tries = [r \in Runs |-> 0]

Create(r) ==
    /\ place[r] = "absent"
    /\ place' = [place EXCEPT ![r] = "queued"]
    /\ tries' = [tries EXCEPT ![r] = 1]
    /\ UNCHANGED holders

\* A batch is taken at once; every run of it was queued and free.
Take(w, batch) ==
    /\ \A r \in batch : place[r] = "queued" /\ holders[r] = {}
    /\ place' = [r \in Runs |-> IF r \in batch THEN "held" ELSE place[r]]
    /\ holders' = [r \in Runs |-> IF r \in batch THEN {w} ELSE holders[r]]
    /\ UNCHANGED tries

Retry(w, r) ==
    /\ place[r] = "held" /\ holders[r] = {w}
    /\ tries[r] < MaxAttempts
    /\ place' = [place EXCEPT ![r] = "queued"]
    /\ holders' = [holders EXCEPT ![r] = {}]
    /\ tries' = [tries EXCEPT ![r] = @ + 1]

\* The worker lets go of some of its runs, each settled or left unfinished.
Release(w, settled, abandoned) ==
    /\ settled \cap abandoned = {}
    /\ \A r \in settled \cup abandoned : place[r] = "held" /\ holders[r] = {w}
    /\ place' = [r \in Runs |-> IF r \in settled THEN "settled"
                                ELSE IF r \in abandoned THEN "abandoned"
                                ELSE place[r]]
    /\ holders' = [r \in Runs |-> IF r \in settled \cup abandoned
                                  THEN {} ELSE holders[r]]
    /\ UNCHANGED tries

LifecycleNext ==
    \/ \E r \in Runs : Create(r)
    \/ \E w \in Workers, batch \in SUBSET Runs : Take(w, batch)
    \/ \E w \in Workers, r \in Runs : Retry(w, r)
    \/ \E w \in Workers, s \in SUBSET Runs, a \in SUBSET Runs : Release(w, s, a)

LifecycleSpec == LifecycleInit /\ [][LifecycleNext]_lifecycleVars

=============================================================================
