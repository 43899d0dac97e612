-------------------------- MODULE SyncEngine_proofs --------------------------
(***************************************************************************)
(* Theorems about SyncEngine, for any runs, slots, calendar, window sizes, *)
(* error classes, crashes and failing statements.                          *)
(***************************************************************************)
EXTENDS SyncEngine, WellFoundedInduction, TLAPS

-----------------------------------------------------------------------------
\* Windows.

LEMMA LeastNatural ==
    ASSUME NEW T, T \subseteq Nat, T # {}
    PROVE  \E x \in T : \A y \in T : x <= y
<1> DEFINE R == OpToRel(<, Nat)
<1>1. \A x, y \in Nat : <<y, x>> \in R <=> y < x
  BY DEF OpToRel
<1>2. IsWellFoundedOn(R, Nat)
  BY NatLessThanWellFounded
<1> HIDE DEF R
<1>3. PICK x \in T : \A y \in T : ~(<<y, x>> \in R)
  BY <1>2, WFMin
<1>4. ASSUME NEW y \in T PROVE x <= y
  <2>1. ~(y < x)
    BY <1>1, <1>3
  <2> QED BY <2>1
<1> QED BY <1>4

\* The loop has a next window as long as any is left.
LEMMA EarliestIsFirst ==
    ASSUME NEW windows \in SUBSET Windows, windows # {}
    PROVE  /\ Earliest(windows) \in windows
           /\ \A v \in windows : Earliest(windows).from <= v.from
<1>1. {w.from : w \in windows} \subseteq Nat /\ {w.from : w \in windows} # {}
  BY EngineAssumption DEF Windows, Days, EngineAssumption
<1>2. PICK x \in {w.from : w \in windows} : \A y \in {w.from : w \in windows} : x <= y
  BY <1>1, LeastNatural
<1>3. \E w \in windows : \A v \in windows : w.from <= v.from
  BY <1>2
<1> QED BY <1>3 DEF Earliest

LEMMA PlannedWindows ==
    ASSUME today \in Days, cursor \in Days \cup {NoDay}
    PROVE  /\ IncrementalWindow(cursor, today, LookbackDays, BackfillDays) \in Windows
           /\ BackfillWindow(today, BackfillDays) \in Windows
BY EngineAssumption DEF IncrementalWindow, BackfillWindow, Window, Windows, Days, Later, Lesser,
                        EngineAssumption, NoDay

\* Cutting a window yields windows of the calendar, inside it.
LEMMA ChunksAreWindows ==
    ASSUME NEW w \in Windows
    PROVE  /\ Chunks(w.from, w.to, ChunkDays) \in SUBSET Windows
           /\ \A c \in Chunks(w.from, w.to, ChunkDays) : w.from <= c.from /\ c.to <= w.to
BY EngineAssumption DEF Chunks, Window, Windows, Days, Lesser, EngineAssumption

LEMMA Remainder ==
    ASSUME NEW x \in Nat, NEW n \in Nat \ {0}
    PROVE  /\ x % n \in 0 .. n - 1 /\ x - (x % n) \in Nat
           /\ (x - (x % n)) % n = 0
OBVIOUS

\* No day of a window is lost between its chunks.
LEMMA ChunksCover ==
    ASSUME NEW w \in Windows, NEW d \in DaysOf(w)
    PROVE  \E c \in Chunks(w.from, w.to, ChunkDays) : d \in DaysOf(c)
<1> DEFINE x == d - w.from
           a == d - (x % ChunkDays)
           c == Window(a, Lesser(a + ChunkDays - 1, w.to))
<1>1. x \in Nat /\ ChunkDays \in Nat \ {0} /\ w.from \in Nat /\ w.to \in Nat
      /\ d \in Nat /\ d <= w.to /\ w.from <= d /\ w.from + x = d
  BY EngineAssumption DEF EngineAssumption, Windows, Days, DaysOf
<1>2. /\ x % ChunkDays \in 0 .. ChunkDays - 1 /\ x - (x % ChunkDays) \in Nat
      /\ (x - (x % ChunkDays)) % ChunkDays = 0
  BY <1>1, Remainder
<1>3. a \in w.from .. w.to /\ (a - w.from) % ChunkDays = 0
  <2>1. a - w.from = x - (x % ChunkDays)
    BY <1>1, <1>2
  <2>2. a \in w.from .. w.to
    BY <1>1, <1>2
  <2> QED BY <1>2, <2>1, <2>2
<1>4. c \in Chunks(w.from, w.to, ChunkDays)
  BY <1>3 DEF Chunks
<1>5. d \in DaysOf(c)
  BY <1>1, <1>2 DEF DaysOf, Window, Lesser
<1> QED BY <1>4, <1>5

-----------------------------------------------------------------------------
\* Types.

ErrorRows ==
    [run : Runs, attempt : 1 .. MaxAttempts, window : Windows, class : Classes,
     by : Runs \cup {NoRun}, seen : SUBSET (Runs \X Windows)]

FreshRows ==
    [status : {"absent", "unknown", "fresh", "delayed", "stale", "error", "not_implemented"},
     latest : Days \cup {NoDay}]

RunRows ==
    [status : Settled \cup Active \cup {"absent"}, window : Windows,
     attempt : 0 .. MaxAttempts, class : Classes \cup {"none"}, done : SUBSET Windows]

Executions ==
    [at : Controls, run : Runs \cup {NoRun}, left : SUBSET Windows, covered : SUBSET Windows,
     some : BOOLEAN, bad : BOOLEAN, latest : Days \cup {NoDay},
     why : Classes \cup {"none"}, refused : BOOLEAN]

\* An execution has a run, and a window at hand wherever it needs one.
AtWork(x) ==
    /\ x.at = "idle" <=> x.run = NoRun
    /\ x.at \in {"persist", "checkpoint"} => x.left # {} /\ ~x.refused
    /\ x.at = "record" /\ ~x.refused => x.left # {}
    /\ x.at = "record" => x.why \in Classes
    /\ x.refused => x.left = {}
    /\ x.at = "start" => /\ x.left = {} /\ x.covered = {} /\ ~x.some /\ ~x.bad
                         /\ x.latest = NoDay /\ ~x.refused

Typed ==
    /\ TypeOK
    /\ errors \subseteq ErrorRows
    /\ fresh \in FreshRows
    /\ \A s \in Slots : AtWork(slot[s])
    /\ \A s \in Slots : slot[s].at # "idle" => Row(s).status # "absent"
    /\ \A r \in Runs : run[r].status # "absent" => run[r].attempt # 0

LEMMA Blanks ==
    /\ NewRun \in RunRows /\ IdleSlot \in Executions /\ AtWork(IdleSlot)
    /\ NewRun.status = "absent" /\ NewRun.attempt = 0 /\ NewRun.done = {}
    /\ IdleSlot.at = "idle" /\ IdleSlot.run = NoRun /\ IdleSlot.left = {}
    /\ IdleSlot.covered = {} /\ ~IdleSlot.some /\ ~IdleSlot.bad
    /\ IdleSlot.latest = NoDay /\ ~IdleSlot.refused
<1>1. 1 \in Days /\ Window(1, 1) \in Windows
  BY EngineAssumption DEF EngineAssumption, Days, Windows, Window
<1>2. NewRun \in RunRows
  BY <1>1, EngineAssumption DEF NewRun, RunRows, EngineAssumption
<1>3. IdleSlot \in Executions /\ AtWork(IdleSlot)
  BY DEF IdleSlot, Executions, AtWork, Controls, NoDay
<1> QED BY <1>2, <1>3 DEF NewRun, IdleSlot

LEMMA TypedInit == Init => Typed
<1> SUFFICES ASSUME Init PROVE Typed
  OBVIOUS
<1>1. 1 \in Days /\ 0 \in 0 .. MaxCrashes /\ 0 \in 0 .. MaxFaults
  BY EngineAssumption DEF EngineAssumption, Days
<1> QED BY <1>1, Blanks DEF Init, Typed, TypeOK, RunRows, Executions, FreshRows, NoDay

\* What an execution's step does to its slot.
LEMMA StepOfSlot ==
    ASSUME Typed, NEW s \in Slots, NEW x \in Executions, AtWork(x),
           slot' = [slot EXCEPT ![s] = x]
    PROVE  /\ slot' \in [Slots -> Executions] /\ \A t \in Slots : AtWork(slot'[t])
           /\ slot'[s] = x /\ \A t \in Slots \ {s} : slot'[t] = slot[t]
BY DEF Typed, TypeOK, Executions


LEMMA RowOfSlot ==
    ASSUME Typed, NEW s \in Slots
    PROVE  /\ slot[s] \in Executions /\ AtWork(slot[s])
           /\ slot[s].at # "idle" => /\ slot[s].run \in Runs /\ Row(s) \in RunRows
                                    /\ Row(s).attempt \in 1 .. MaxAttempts
BY DEF Typed, TypeOK, Executions, RunRows, AtWork, Row

\* A step that moves one execution and leaves the rest typed.
LEMMA TypedByParts ==
    ASSUME Typed, NEW s \in Slots, NEW x \in Executions, AtWork(x),
           slot' = [slot EXCEPT ![s] = x],
           run' \in [Runs -> RunRows], stored' \subseteq Days, errors' \subseteq ErrorRows,
           cursor' \in Days \cup {NoDay}, fresh' \in FreshRows,
           connection' \in {"connected", "invalid_credentials"},
           crashes' \in 0 .. MaxCrashes, faults' \in 0 .. MaxFaults,
           UNCHANGED <<today, supported>>,
           \A r \in Runs : run[r].status # "absent" => run'[r].status # "absent",
           \A r \in Runs : run'[r].status # "absent" => run'[r].attempt # 0,
           x.at # "idle" => run[x.run].status # "absent"
    PROVE  Typed'
<1>1. /\ slot' \in [Slots -> Executions] /\ \A t \in Slots : AtWork(slot'[t])
      /\ slot'[s] = x /\ \A t \in Slots \ {s} : slot'[t] = slot[t]
  BY StepOfSlot
<1>2. errors' \subseteq ErrorRows /\ fresh' \in FreshRows
  OBVIOUS
<1>3. \A e \in errors' :
          /\ e.run \in Runs /\ e.attempt \in 1 .. MaxAttempts /\ e.window \in Windows
          /\ e.class \in Classes /\ e.by \in Runs \cup {NoRun}
          /\ e.seen \subseteq Runs \X Windows
  BY <1>2 DEF ErrorRows
<1>4. /\ fresh'.status \in {"absent", "unknown", "fresh", "delayed", "stale", "error",
                            "not_implemented"}
      /\ fresh'.latest \in Days \cup {NoDay}
  BY <1>2 DEF FreshRows
<1>5. TypeOK'
  BY <1>1, <1>3, <1>4 DEF Typed, TypeOK, RunRows, Executions
<1>6. (\A t \in Slots : AtWork(slot[t]))'
  BY <1>1 DEF AtWork
<1>7. (\A t \in Slots : slot[t].at # "idle" => Row(t).status # "absent")'
  <2>1. ASSUME NEW t \in Slots, slot'[t].at # "idle" PROVE run'[slot'[t].run].status # "absent"
    <3>1. slot'[t].run \in Runs
      BY <1>1, <2>1 DEF AtWork, Executions
    <3>2. run[slot'[t].run].status # "absent"
      <4>1. CASE t = s
        BY <1>1, <2>1, <4>1
      <4>2. CASE t # s
        BY <1>1, <2>1, <4>2 DEF Typed, Row
      <4> QED BY <4>1, <4>2
    <3> QED BY <3>1, <3>2
  <2> QED BY <2>1 DEF Row
<1> QED BY <1>2, <1>5, <1>6, <1>7 DEF Typed

\* The same of a step that writes no row of sync_runs.
LEMMA TypedSameRuns ==
    ASSUME Typed, NEW s \in Slots, NEW x \in Executions, AtWork(x),
           slot' = [slot EXCEPT ![s] = x],
           UNCHANGED run, stored' \subseteq Days, errors' \subseteq ErrorRows,
           cursor' \in Days \cup {NoDay}, fresh' \in FreshRows,
           connection' \in {"connected", "invalid_credentials"},
           crashes' \in 0 .. MaxCrashes, faults' \in 0 .. MaxFaults,
           UNCHANGED <<today, supported>>,
           x.run \in {slot[s].run, NoRun}
    PROVE  Typed'
<1>1. run' \in [Runs -> RunRows]
  BY DEF Typed, TypeOK, RunRows
<1>2. \A r \in Runs : run'[r].status # "absent" => run'[r].attempt # 0
  BY DEF Typed
<1>3. x.at # "idle" => run[x.run].status # "absent"
  <2>1. x.at # "idle" => x.run = slot[s].run /\ slot[s].run # NoRun
    BY DEF AtWork
  <2>2. slot[s].run # NoRun => run[slot[s].run].status # "absent"
    BY DEF Typed, AtWork, Row
  <2> QED BY <2>1, <2>2
<1> QED BY <1>1, <1>2, <1>3, TypedByParts

LEMMA TypedPlan == Typed /\ (Plan \/ NextDay) => Typed'
<1> SUFFICES ASSUME Typed, Plan \/ NextDay PROVE Typed'
  OBVIOUS
<1>1. ASSUME NEW w \in Windows, Enqueue(w) PROVE Typed'
  <2>1. PICK r \in Runs : run' = [run EXCEPT ![r] = [NewRun EXCEPT !.status = "queued",
                                                    !.window = w, !.attempt = 1]]
    BY <1>1 DEF Enqueue
  <2>2. [NewRun EXCEPT !.status = "queued", !.window = w, !.attempt = 1] \in RunRows
    <3>1. "queued" \in Settled \cup Active \cup {"absent"} /\ 1 \in 0 .. MaxAttempts
      BY EngineAssumption DEF Active, EngineAssumption
    <3> QED BY Blanks, <3>1 DEF RunRows
  <2>3. run' \in [Runs -> RunRows]
    BY <2>1, <2>2 DEF Typed, TypeOK, RunRows
  <2>4. UNCHANGED <<today, supported, stored, errors, cursor, fresh, connection, slot,
                    crashes, faults>>
    BY <1>1 DEF Enqueue, rows
  <2>5. /\ \A q \in Runs : run'[q].status # "absent" => run'[q].attempt # 0
        /\ \A q \in Runs : run[q].status # "absent" => run'[q].status # "absent"
    BY <2>1, <2>2 DEF Typed, TypeOK, RunRows
  <2>6. (\A s \in Slots : slot[s].at # "idle" => Row(s).status # "absent")'
    BY <2>4, <2>5 DEF Typed, TypeOK, Row, AtWork
  <2>7. TypeOK'
    BY <2>3, <2>4 DEF Typed, TypeOK, RunRows
  <2> QED BY <2>4, <2>5, <2>6, <2>7 DEF Typed, AtWork
<1>2. CASE Plan
  <2>1. /\ IncrementalWindow(cursor, today, LookbackDays, BackfillDays) \in Windows
        /\ BackfillWindow(today, BackfillDays) \in Windows
    BY PlannedWindows DEF Typed, TypeOK
  <2> QED BY <1>1, <1>2, <2>1 DEF Plan, EnqueueScheduled, EnqueueBackfill, EnqueueExplicit
<1>3. CASE NextDay
  <2>1. today' \in Days
    BY <1>3, EngineAssumption DEF NextDay, Typed, TypeOK, Days, EngineAssumption
  <2> QED BY <1>3, <2>1 DEF NextDay, rows, Typed, TypeOK, AtWork, Row
<1> QED BY <1>2, <1>3


\* The types of what an execution writes, by statement.
LEMMA TypedExecution ==
    ASSUME Typed, NEW s \in Slots, Execute(s) \/ \E r \in Runs : ClaimRun(s, r)
    PROVE  Typed'
<1> DEFINE me == slot[s]
<1>0. /\ me \in Executions /\ AtWork(me)
      /\ me.at # "idle" => /\ me.run \in Runs /\ Row(s) \in RunRows
                           /\ Row(s).attempt \in 1 .. MaxAttempts
  BY RowOfSlot
<1>1. {"authentication_error", "unknown_error", "database_error"} \cup Failures \subseteq Classes
  BY DEF Classes
<1>2. /\ run \in [Runs -> RunRows] /\ stored \subseteq Days /\ errors \subseteq ErrorRows
      /\ cursor \in Days \cup {NoDay} /\ fresh \in FreshRows
      /\ connection \in {"connected", "invalid_credentials"}
      /\ crashes \in 0 .. MaxCrashes /\ faults \in 0 .. MaxFaults
      /\ slot \in [Slots -> Executions] /\ supported \in BOOLEAN /\ today \in Days
  BY DEF Typed, TypeOK, RunRows, Executions
<1>3. faults < MaxFaults => faults + 1 \in 0 .. MaxFaults
  BY <1>2, EngineAssumption DEF EngineAssumption
<1>4. crashes < MaxCrashes => crashes + 1 \in 0 .. MaxCrashes
  BY <1>2, EngineAssumption DEF EngineAssumption
<1>5. me.left # {} => Earliest(me.left) \in me.left /\ Earliest(me.left) \in Windows
  BY <1>0, EarliestIsFirst DEF Executions
<1>6. ASSUME NEW r \in Runs, ClaimRun(s, r) PROVE Typed'
  <2> DEFINE x == [IdleSlot EXCEPT !.at = "start", !.run = r]
  <2>1. x \in Executions
    BY Blanks DEF Executions, Controls
  <2>2. AtWork(x)
    BY Blanks, EngineAssumption DEF Executions, AtWork, EngineAssumption
  <2>3. run' \in [Runs -> RunRows]
    <3>1. run' = [run EXCEPT ![r].status = "running"]
      BY <1>6 DEF ClaimRun
    <3>2. "running" \in Settled \cup Active \cup {"absent"}
      BY DEF Active
    <3> QED BY <1>2, <3>1, <3>2 DEF RunRows
  <2>4. /\ \A q \in Runs : run[q].status # "absent" => run'[q].status # "absent"
        /\ \A q \in Runs : run'[q].status # "absent" => run'[q].attempt # 0
        /\ x.run = r /\ run[r].status # "absent"
    BY <1>2, <1>6, Blanks DEF ClaimRun, Typed, RunRows, Executions
  <2> QED BY <1>2, <1>6, <2>1, <2>2, <2>3, <2>4, TypedByParts DEF ClaimRun, rows
<1>7. CASE StartRun(s)
  <2>1. fresh' \in FreshRows
    BY <1>2, <1>7 DEF StartRun, FreshRows
  <2>2. /\ me.at = "start"
        /\ UNCHANGED <<today, supported, run, stored, errors, cursor, connection, crashes>>
    BY <1>7 DEF StartRun
  <2>3. Chunks(Row(s).window.from, Row(s).window.to, ChunkDays) \in SUBSET Windows
    BY <1>0, <2>2, ChunksAreWindows DEF RunRows
  <2>4. CASE /\ slot' = [slot EXCEPT ![s].at = "loop",
                           ![s].left = Chunks(Row(s).window.from, Row(s).window.to, ChunkDays)]
             /\ UNCHANGED faults
    <3> DEFINE chunks == Chunks(Row(s).window.from, Row(s).window.to, ChunkDays)
               x == [me EXCEPT !.at = "loop", !.left = chunks]
    <3> HIDE DEF chunks
    <3>1. x \in Executions /\ x.run = me.run
      BY <1>0, <2>3 DEF Executions, Controls, chunks
    <3>2. AtWork(x)
      BY <1>0, <2>2 DEF Executions, AtWork
    <3>3. slot' = [slot EXCEPT ![s] = x]
      BY <1>2, <2>4 DEF Executions, chunks
    <3> HIDE DEF x
    <3> QED BY <1>2, <2>1, <2>2, <2>4, <3>1, <3>2, <3>3, TypedSameRuns
  <2>5. ASSUME NEW k \in {"authentication_error", "unknown_error", "database_error"},
               slot' = [slot EXCEPT ![s].at = "record", ![s].why = k, ![s].refused = TRUE],
               IF k = "database_error" THEN faults < MaxFaults /\ faults' = faults + 1
               ELSE UNCHANGED faults
        PROVE  Typed'
    <3> DEFINE x == [me EXCEPT !.at = "record", !.why = k, !.refused = TRUE]
    <3>1. x \in Executions /\ x.run = me.run
      BY <1>0, <1>1 DEF Executions, Controls
    <3>2. me.left = {}
      BY <1>0, <2>2 DEF AtWork
    <3>3. AtWork(x)
      BY <1>0, <2>2, <1>1, <3>2 DEF Executions, AtWork
    <3>4. slot' = [slot EXCEPT ![s] = x]
      BY <1>2, <2>5 DEF Executions
    <3>5. faults' \in 0 .. MaxFaults
      BY <1>2, <1>3, <2>5
    <3> HIDE DEF x
    <3> QED BY <1>2, <2>1, <2>2, <3>1, <3>3, <3>4, <3>5, TypedSameRuns
  <2> QED BY <1>7, <2>4, <2>5 DEF StartRun
<1>8. CASE FetchWindow(s)
  <2> DEFINE w == Earliest(me.left)
  <2>1. /\ me.at = "loop" /\ me.left # {} /\ w \in Windows
        /\ UNCHANGED <<today, supported, run, stored, errors, cursor, fresh, connection,
                       crashes, faults>>
    BY <1>5, <1>8 DEF FetchWindow, rows
  <2>2. /\ me.run \in Runs /\ ~me.refused
    BY <1>0, <2>1 DEF AtWork
  <2>3. \/ slot' = [slot EXCEPT ![s].left = @ \ {w}, ![s].some = TRUE]
        \/ \E d \in {NoDay} \cup DaysOf(w) :
              slot' = [slot EXCEPT ![s].at = "persist", ![s].latest = Later(@, d)]
        \/ \E k \in Failures : slot' = [slot EXCEPT ![s].at = "record", ![s].why = k]
    BY <1>8 DEF FetchWindow
  <2> HIDE DEF w
  <2>4. CASE slot' = [slot EXCEPT ![s].left = @ \ {w}, ![s].some = TRUE]
    <3> DEFINE x == [me EXCEPT !.left = @ \ {w}, !.some = TRUE]
    <3>1. x \in Executions /\ AtWork(x) /\ x.run = me.run
      BY <1>0, <2>1, <2>2 DEF Executions, AtWork
    <3>2. slot' = [slot EXCEPT ![s] = x]
      BY <1>2, <2>4 DEF Executions
    <3> HIDE DEF x
    <3> QED BY <1>2, <2>1, <3>1, <3>2, TypedSameRuns
  <2>5. ASSUME NEW d \in {NoDay} \cup DaysOf(w),
               slot' = [slot EXCEPT ![s].at = "persist", ![s].latest = Later(@, d)]
        PROVE  Typed'
    <3> DEFINE x == [me EXCEPT !.at = "persist", !.latest = Later(@, d)]
    <3>1. d \in Days \cup {NoDay}
      BY <2>1, EngineAssumption DEF Windows, DaysOf, Days, EngineAssumption
    <3>2. Later(me.latest, d) \in Days \cup {NoDay}
      BY <1>0, <3>1 DEF Executions, Later
    <3>3. x \in Executions /\ x.run = me.run
      BY <1>0, <3>2 DEF Executions, Controls
    <3>4. AtWork(x)
      BY <1>0, <2>1, <2>2 DEF Executions, AtWork
    <3>5. slot' = [slot EXCEPT ![s] = x]
      BY <1>2, <2>5 DEF Executions
    <3> HIDE DEF x
    <3> QED BY <1>2, <2>1, <3>3, <3>4, <3>5, TypedSameRuns
  <2>6. ASSUME NEW k \in Failures, slot' = [slot EXCEPT ![s].at = "record", ![s].why = k]
        PROVE  Typed'
    <3> DEFINE x == [me EXCEPT !.at = "record", !.why = k]
    <3>1. x \in Executions /\ AtWork(x) /\ x.run = me.run
      BY <1>0, <1>1, <2>1, <2>2 DEF Executions, AtWork, Controls
    <3>2. slot' = [slot EXCEPT ![s] = x]
      BY <1>2, <2>6 DEF Executions
    <3> HIDE DEF x
    <3> QED BY <1>2, <2>1, <3>1, <3>2, TypedSameRuns
  <2> QED BY <2>3, <2>4, <2>5, <2>6
<1>9. CASE PersistWindow(s)
  <2>1. /\ me.at = "persist" /\ slot' = [slot EXCEPT ![s].at = "checkpoint"]
        /\ UNCHANGED <<today, supported, run, errors, cursor, fresh, connection,
                       crashes, faults>>
        /\ stored' = stored \/ stored' = stored \cup DaysOf(Earliest(me.left))
    BY <1>9 DEF PersistWindow
  <2> DEFINE x == [me EXCEPT !.at = "checkpoint"]
  <2>2. x \in Executions /\ AtWork(x) /\ x.run = me.run
    BY <1>0, <2>1 DEF Executions, AtWork, Controls
  <2>3. slot' = [slot EXCEPT ![s] = x]
    BY <1>2, <2>1 DEF Executions
  <2>4. DaysOf(Earliest(me.left)) \subseteq Days
    BY <1>0, <1>5, <2>1, EngineAssumption DEF AtWork, Windows, DaysOf, Days, EngineAssumption
  <2> HIDE DEF x
  <2> QED BY <1>2, <2>1, <2>2, <2>3, <2>4, TypedSameRuns
<1>10. CASE CheckpointWindow(s)
  <2> DEFINE w == Earliest(me.left)
  <2>1. /\ me.at = "checkpoint"
        /\ run' = [run EXCEPT ![me.run].done = @ \cup {w}]
        /\ slot' = [slot EXCEPT ![s].at = "loop", ![s].left = @ \ {w},
                       ![s].covered = @ \cup {w}, ![s].some = TRUE]
        /\ UNCHANGED <<today, supported, stored, errors, cursor, fresh, connection,
                       crashes, faults>>
    BY <1>10 DEF CheckpointWindow, rows
  <2>2. me.run \in Runs /\ ~me.refused /\ w \in Windows
    BY <1>0, <1>5, <2>1 DEF AtWork
  <2> HIDE DEF w
  <2> DEFINE x == [me EXCEPT !.at = "loop", !.left = @ \ {w}, !.covered = @ \cup {w}, !.some = TRUE]
  <2>3. x \in Executions /\ AtWork(x) /\ x.run = me.run
    BY <1>0, <2>1, <2>2 DEF Executions, AtWork, Controls
  <2>4. slot' = [slot EXCEPT ![s] = x]
    BY <1>2, <2>1 DEF Executions
  <2>5. run' \in [Runs -> RunRows]
    BY <1>2, <2>1, <2>2 DEF RunRows
  <2>6. /\ \A q \in Runs : run'[q].status = run[q].status /\ run'[q].attempt = run[q].attempt
        /\ x.run = me.run
    BY <1>0, <1>2, <2>1 DEF RunRows, Executions
  <2>7. /\ \A q \in Runs : run'[q].status # "absent" => run'[q].attempt # 0
        /\ run[x.run].status # "absent"
    BY <2>1, <2>6 DEF Typed, Row
  <2>8. UNCHANGED <<today, supported, stored, errors, cursor, fresh, connection, crashes, faults>>
    BY <2>1
  <2> HIDE DEF x
  <2> QED BY <1>2, <2>3, <2>4, <2>5, <2>6, <2>7, <2>8, TypedByParts
<1>11. CASE WindowThrows(s)
  <2>1. /\ me.at \in {"checkpoint", "persist"} \/ (me.at = "loop" /\ me.left # {})
        /\ faults < MaxFaults /\ faults' = faults + 1
        /\ UNCHANGED <<today, supported, run, stored, errors, cursor, fresh, connection, crashes>>
    BY <1>11 DEF WindowThrows, rows
  <2>2. PICK k \in {"database_error", "unknown_error"} :
            slot' = [slot EXCEPT ![s].at = "record", ![s].why = k]
    BY <1>11 DEF WindowThrows
  <2> DEFINE x == [me EXCEPT !.at = "record", !.why = k]
  <2>3. x \in Executions /\ AtWork(x) /\ x.run = me.run
    BY <1>0, <1>1, <2>1 DEF Executions, AtWork, Controls
  <2>4. slot' = [slot EXCEPT ![s] = x]
    BY <1>2, <2>2 DEF Executions
  <2> HIDE DEF x
  <2> QED BY <1>2, <1>3, <2>1, <2>3, <2>4, TypedSameRuns
<1>12. CASE RecordFailure(s)
  <2> DEFINE w == IF me.refused THEN Row(s).window ELSE Earliest(me.left)
             stop == me.refused \/ Fatal(me.why)
             e == [run |-> me.run, attempt |-> Row(s).attempt, window |-> w,
                   class |-> me.why, by |-> NoRun,
                   seen |-> UNION {{r} \X run[r].done : r \in Runs}]
             x == [me EXCEPT !.at = "loop", !.bad = TRUE,
                             !.left = IF stop THEN {} ELSE @ \ {w},
                             !.why = IF stop THEN @ ELSE "none"]
  <2>1. /\ me.at = "record" /\ errors' = errors \cup {e}
        /\ slot' = [slot EXCEPT ![s].at = "loop", ![s].bad = TRUE,
                          ![s].left = IF stop THEN {} ELSE @ \ {w},
                          ![s].why = IF stop THEN @ ELSE "none"]
        /\ UNCHANGED <<today, supported, run, stored, cursor, fresh, connection,
                       crashes, faults>>
    BY <1>12 DEF RecordFailure
  <2>2. me.run \in Runs /\ me.why \in Classes /\ w \in Windows /\ Row(s) \in RunRows
    BY <1>0, <1>5, <2>1 DEF AtWork, RunRows
  <2>3. UNION {{r} \X run[r].done : r \in Runs} \subseteq Runs \X Windows
    BY <1>2 DEF RunRows
  <2>4. Row(s).attempt \in 1 .. MaxAttempts
    BY <1>0, <2>1
  <2>5. e \in ErrorRows
    BY <2>2, <2>3, <2>4 DEF ErrorRows
  <2> HIDE DEF e, w, stop
  <2>6. x \in Executions /\ AtWork(x) /\ x.run = me.run
    BY <1>0, <2>1, <2>2 DEF Executions, AtWork, Controls, stop
  <2>7. slot' = [slot EXCEPT ![s] = x]
    BY <1>2, <2>1 DEF Executions
  <2>8. /\ UNCHANGED <<today, supported, run, stored, cursor, fresh, connection, crashes, faults>>
        /\ errors' \subseteq ErrorRows
    BY <1>2, <2>1, <2>5
  <2> HIDE DEF x
  <2> QED BY <1>2, <2>6, <2>7, <2>8, TypedSameRuns
<1>13. CASE CompleteSyncRun(s)
  <2>1. /\ me.at = "loop"
        /\ run' = [run EXCEPT ![me.run].status = Outcome(s), ![me.run].class = me.why]
        /\ \E at \in {"freshness", "resolve", "cursor"} : slot' = [slot EXCEPT ![s].at = at]
        /\ UNCHANGED <<today, supported, stored, errors, cursor, fresh, connection,
                       crashes, faults>>
    BY <1>13 DEF CompleteSyncRun, rows
  <2>2. Outcome(s) \in Settled /\ me.run \in Runs
    BY <1>0, <2>1 DEF Outcome, RunStatus, Settled, Succeeded
  <2>3. PICK at \in {"freshness", "resolve", "cursor"} : slot' = [slot EXCEPT ![s].at = at]
    BY <2>1
  <2> DEFINE x == [me EXCEPT !.at = at]
  <2>4. x \in Executions /\ AtWork(x) /\ x.run = me.run
    BY <1>0, <2>1, <2>2 DEF Executions, AtWork, Controls
  <2>5. slot' = [slot EXCEPT ![s] = x]
    BY <1>2, <2>3 DEF Executions
  <2>6. run' \in [Runs -> RunRows]
    <3>1. me.why \in Classes \cup {"none"}
      BY <1>0 DEF Executions
    <3> QED BY <1>2, <2>1, <2>2, <3>1 DEF RunRows
  <2>7. \A q \in Runs : /\ run'[q].attempt = run[q].attempt
                        /\ run'[q].status = IF q = me.run THEN Outcome(s) ELSE run[q].status
    BY <1>2, <2>1, <2>2 DEF RunRows
  <2>8. /\ \A q \in Runs : run'[q].status # "absent" => run'[q].attempt # 0
        /\ \A q \in Runs : run[q].status # "absent" => run'[q].status # "absent"
        /\ run[x.run].status # "absent"
    <3>1. Outcome(s) # "absent"
      BY DEF Outcome, RunStatus
    <3>2. run[me.run].status # "absent"
      BY <2>1 DEF Typed, Row
    <3> QED BY <2>4, <2>7, <3>1, <3>2 DEF Typed
  <2>9. UNCHANGED <<today, supported, stored, errors, cursor, fresh, connection, crashes, faults>>
    BY <2>1
  <2> HIDE DEF x
  <2> QED BY <1>2, <2>4, <2>5, <2>6, <2>8, <2>9, TypedByParts
<1>14. CASE ResolveErrors(s)
  <2>1. /\ me.at = "resolve" /\ slot' = [slot EXCEPT ![s].at = "cursor"]
        /\ errors' = {IF /\ e.by = NoRun /\ e.run # me.run
                         /\ \E w \in me.covered : Supersedes(w, e.class, e.window)
                      THEN [e EXCEPT !.by = me.run] ELSE e : e \in errors}
        /\ UNCHANGED <<today, supported, run, stored, cursor, fresh, connection, crashes, faults>>
    BY <1>14 DEF ResolveErrors
  <2>2. errors' \subseteq ErrorRows
    BY <1>0, <1>2, <2>1 DEF ErrorRows
  <2> DEFINE x == [me EXCEPT !.at = "cursor"]
  <2>3. x \in Executions /\ AtWork(x) /\ x.run = me.run
    BY <1>0, <2>1 DEF Executions, AtWork, Controls
  <2>4. slot' = [slot EXCEPT ![s] = x]
    BY <1>2, <2>1 DEF Executions
  <2> HIDE DEF x
  <2> QED BY <1>2, <2>1, <2>2, <2>3, <2>4, TypedSameRuns
<1>15. CASE SetCursor(s)
  <2>1. /\ me.at = "cursor" /\ slot' = [slot EXCEPT ![s].at = "freshness"]
        /\ cursor' = cursor \/ cursor' = me.latest
        /\ UNCHANGED <<today, supported, run, stored, errors, fresh, connection, crashes, faults>>
    BY <1>15 DEF SetCursor
  <2> DEFINE x == [me EXCEPT !.at = "freshness"]
  <2>2. x \in Executions /\ AtWork(x) /\ x.run = me.run
    BY <1>0, <2>1 DEF Executions, AtWork, Controls
  <2>3. slot' = [slot EXCEPT ![s] = x]
    BY <1>2, <2>1 DEF Executions
  <2>4. cursor' \in Days \cup {NoDay}
    BY <1>0, <1>2, <2>1 DEF Executions
  <2> HIDE DEF x
  <2> QED BY <1>2, <2>1, <2>2, <2>3, <2>4, TypedSameRuns
<1>16. CASE WriteFreshness(s)
  <2>1. /\ me.at = "freshness" /\ slot' = [slot EXCEPT ![s].at = "connection"]
        /\ UNCHANGED <<today, supported, run, stored, errors, cursor, connection, crashes, faults>>
    BY <1>16 DEF WriteFreshness
  <2>2. fresh' \in FreshRows
    <3>1. Later(fresh.latest, me.latest) \in Days \cup {NoDay}
      BY <1>0, <1>2 DEF Executions, FreshRows, Later
    <3>2. FreshnessOf(Outcome(s) # "failed", me.latest, today, supported)
             \in {"not_implemented", "error", "stale", "delayed", "fresh"}
      BY DEF FreshnessOf
    <3> QED BY <1>16, <3>1, <3>2 DEF WriteFreshness, FreshRows
  <2> DEFINE x == [me EXCEPT !.at = "connection"]
  <2>3. x \in Executions /\ AtWork(x) /\ x.run = me.run
    BY <1>0, <2>1 DEF Executions, AtWork, Controls
  <2>4. slot' = [slot EXCEPT ![s] = x]
    BY <1>2, <2>1 DEF Executions
  <2> HIDE DEF x
  <2> QED BY <1>2, <2>1, <2>2, <2>3, <2>4, TypedSameRuns
<1>17. CASE MarkConnection(s)
  <2>1. /\ me.at = "connection"
        /\ connection' \in {connection, "invalid_credentials", "connected"}
        /\ UNCHANGED <<today, supported, run, stored, errors, cursor, fresh, crashes, faults>>
    BY <1>17 DEF MarkConnection
  <2> DEFINE x == IF Outcome(s) = "failed" /\ Retryable(me.why)
                  THEN [me EXCEPT !.at = "requeue"] ELSE IdleSlot
  <2>2. x \in Executions /\ AtWork(x) /\ x.run \in {me.run, NoRun}
    <3>1. [me EXCEPT !.at = "requeue"] \in Executions /\ AtWork([me EXCEPT !.at = "requeue"])
          /\ [me EXCEPT !.at = "requeue"].run = me.run
      BY <1>0, <2>1 DEF Executions, AtWork, Controls
    <3> QED BY <3>1, Blanks
  <2>3. slot' = [slot EXCEPT ![s] = x]
    BY <1>17 DEF MarkConnection
  <2> HIDE DEF x
  <2> QED BY <1>2, <2>1, <2>2, <2>3, TypedSameRuns
<1>18. CASE RequeueRun(s)
  <2>1. /\ me.at = "requeue" /\ slot' = [slot EXCEPT ![s] = IdleSlot]
        /\ run' = IF Row(s).attempt < MaxAttempts
                  THEN [run EXCEPT ![me.run].status = "queued", ![me.run].attempt = @ + 1] ELSE run
        /\ UNCHANGED <<today, supported, stored, errors, cursor, fresh, connection,
                       crashes, faults>>
    BY <1>18 DEF RequeueRun, rows
  <2>2. me.run \in Runs /\ Row(s).attempt \in 1 .. MaxAttempts
    BY <1>0, <2>1
  <2>3. CASE Row(s).attempt < MaxAttempts
    <3>1. run[me.run].attempt + 1 \in 0 .. MaxAttempts /\ run[me.run].attempt + 1 # 0
      BY <2>2, <2>3, EngineAssumption DEF Row, EngineAssumption
    <3>2. "queued" \in Settled \cup Active \cup {"absent"}
      BY DEF Active
    <3>3. run' = [run EXCEPT ![me.run].status = "queued", ![me.run].attempt = @ + 1]
      BY <2>1, <2>3
    <3>4. run' \in [Runs -> RunRows]
      BY <1>2, <2>2, <3>1, <3>2, <3>3 DEF RunRows
    <3>5. \A q \in Runs : IF q = me.run
                          THEN run'[q].status = "queued" /\ run'[q].attempt = run[q].attempt + 1
                          ELSE run'[q] = run[q]
      BY <1>2, <2>2, <3>3 DEF RunRows
    <3>6. /\ \A q \in Runs : run'[q].status # "absent" => run'[q].attempt # 0
          /\ \A q \in Runs : run[q].status # "absent" => run'[q].status # "absent"
      BY <3>1, <3>5 DEF Typed
    <3> QED BY <1>2, <2>1, <3>4, <3>6, Blanks, TypedByParts
  <2>4. CASE ~(Row(s).attempt < MaxAttempts)
    BY <1>2, <2>1, <2>4, Blanks, TypedSameRuns
  <2> QED BY <2>3, <2>4
<1>19. CASE RunThrows(s)
  <2>1. /\ me.at # "idle" /\ slot' = [slot EXCEPT ![s].at = "catch"]
        /\ faults < MaxFaults /\ faults' = faults + 1
        /\ UNCHANGED <<today, supported, run, stored, errors, cursor, fresh, connection, crashes>>
    BY <1>19 DEF RunThrows, rows
  <2> DEFINE x == [me EXCEPT !.at = "catch"]
  <2>2. x \in Executions /\ AtWork(x) /\ x.run = me.run
    BY <1>0, <2>1 DEF Executions, AtWork, Controls
  <2>3. slot' = [slot EXCEPT ![s] = x]
    BY <1>2, <2>1 DEF Executions
  <2> HIDE DEF x
  <2> QED BY <1>2, <1>3, <2>1, <2>2, <2>3, TypedSameRuns
<1>20. CASE CatchRun(s)
  <2>1. /\ me.at = "catch" /\ slot' = [slot EXCEPT ![s] = IdleSlot]
        /\ run' = [run EXCEPT ![me.run].status = "failed", ![me.run].class = "unknown_error"]
        /\ UNCHANGED <<today, supported, stored, errors, cursor, fresh, connection,
                       crashes, faults>>
    BY <1>20 DEF CatchRun, rows
  <2>2. me.run \in Runs /\ "failed" \in Settled
    BY <1>0, <2>1 DEF Settled
  <2>3. run' \in [Runs -> RunRows]
    BY <1>1, <1>2, <2>1, <2>2 DEF RunRows
  <2>4. \A q \in Runs : /\ run'[q].attempt = run[q].attempt
                        /\ run'[q].status = IF q = me.run THEN "failed" ELSE run[q].status
    BY <1>2, <2>1, <2>2 DEF RunRows
  <2>5. /\ \A q \in Runs : run'[q].status # "absent" => run'[q].attempt # 0
        /\ \A q \in Runs : run[q].status # "absent" => run'[q].status # "absent"
    <3>1. run[me.run].status # "absent"
      BY <2>1 DEF Typed, Row
    <3> QED BY <2>4, <3>1 DEF Typed
  <2> QED BY <1>2, <2>1, <2>3, <2>5, Blanks, TypedByParts
<1>21. CASE Crash(s)
  <2>1. /\ slot' = [slot EXCEPT ![s] = IdleSlot] /\ crashes' = crashes + 1 /\ crashes < MaxCrashes
        /\ UNCHANGED <<today, supported, run, stored, errors, cursor, fresh, connection, faults>>
    BY <1>21 DEF Crash, rows
  <2> QED BY <1>2, <1>4, <2>1, Blanks, TypedSameRuns
<1> QED BY <1>6, <1>7, <1>8, <1>9, <1>10, <1>11, <1>12, <1>13, <1>14, <1>15, <1>16, <1>17, <1>18,
           <1>19, <1>20, <1>21 DEF Execute

LEMMA TypedStep == Typed /\ [Next]_vars => Typed'
<1>1. Typed /\ UNCHANGED vars => Typed'
  BY DEF vars, rows, Typed, TypeOK, AtWork, Row
<1> QED BY <1>1, TypedPlan, TypedExecution DEF Next

\* Every table, execution and counter keeps its type, for any number of slots,
\* runs, deaths and failing statements.
THEOREM TypeCorrect == Spec => []TypeOK
<1>1. Typed => TypeOK
  BY DEF Typed
<1> QED BY <1>1, TypedInit, TypedStep, PTL DEF Spec

-----------------------------------------------------------------------------
\* What an execution holds against its row, and the row against its errors.

Trying == {"start", "loop", "persist", "checkpoint", "record"}
Settling == {"resolve", "cursor", "freshness", "connection", "requeue"}

\* No two executions have one run.
Apart ==
    \A s, t \in Slots : s # t /\ slot[s].run = slot[t].run => slot[s].run = NoRun

\* The row is as the execution left it.
PhaseMatchesRow(s) ==
    /\ slot[s].at \in Trying => Row(s).status = "running"
    /\ slot[s].at \in Settling => Row(s).status = Outcome(s)
    /\ slot[s].at \in {"resolve", "cursor"} => Outcome(s) # "failed"
    /\ slot[s].at = "requeue" => Outcome(s) = "failed"
    /\ slot[s].at = "catch" => Row(s).status \in Settled \cup {"running"}

\* The checkpoint is what this execution completed, for none was there before.
CheckpointIsOwn(s) ==
    slot[s].at \in Trying \cup Settling =>
        /\ Row(s).done = slot[s].covered
        /\ slot[s].some <=> slot[s].covered # {}
        /\ slot[s].left \cap slot[s].covered = {}
        /\ slot[s].refused => slot[s].covered = {}

\* The windows are accounted for, and so is a failure.
Accounted(s) ==
    slot[s].at \in Trying \cup Settling =>
        /\ ~slot[s].bad => \A e \in errors : e.run = slot[s].run => e.attempt < Row(s).attempt
        /\ slot[s].bad => \E e \in errors : /\ e.run = slot[s].run
                                            /\ e.window \notin slot[s].left \cup slot[s].covered
        /\ ~slot[s].bad /\ slot[s].at \in {"loop", "persist", "checkpoint"} =>
              Chunks(Row(s).window.from, Row(s).window.to, ChunkDays)
                 \subseteq slot[s].left \cup slot[s].covered

SlotInv(s) == PhaseMatchesRow(s) /\ CheckpointIsOwn(s) /\ Accounted(s)

\* Errors are of attempts that began; an attempt to come has none.
Dated(r) ==
    \A e \in errors : e.run = r =>
        /\ e.attempt <= run[r].attempt
        /\ run[r].status = "queued" => e.attempt < run[r].attempt

Blank(r) ==
    /\ run[r].status \in {"absent", "queued"} => run[r].done = {}
    /\ run[r].status = "absent" => run[r].attempt = 0

Honest(r) ==
    /\ run[r].status \in {"completed", "not_implemented"} =>
          /\ Chunks(run[r].window.from, run[r].window.to, ChunkDays) \subseteq run[r].done
          /\ ~\E e \in errors : e.run = r /\ e.attempt = run[r].attempt
    /\ run[r].status = "partially_completed" =>
          /\ run[r].done # {}
          /\ \E e \in errors : e.run = r /\ e.window \notin run[r].done

RowInv(r) == Dated(r) /\ Blank(r) /\ Honest(r)

EngineInv ==
    /\ Apart
    /\ \A s \in Slots : SlotInv(s)
    /\ \A r \in Runs : RowInv(r)

Alike(e, f) == e.run = f.run /\ e.attempt = f.attempt /\ e.window = f.window

\* The errors of all runs but r are as they were, closed or not.
ErrorsKept(r) ==
    /\ \A e \in errors : \E f \in errors' : Alike(e, f)
    /\ \A f \in errors' : f.run # r => \E e \in errors : Alike(e, f)

\* A step that touches one row says nothing of the others, nor of the executions
\* of the others.
LEMMA Elsewhere ==
    ASSUME EngineInv, NEW r, supported' = supported, ErrorsKept(r),
           \A q \in Runs : q # r => run'[q] = run[q]
    PROVE  /\ \A q \in Runs : q # r => RowInv(q)'
           /\ \A t \in Slots : /\ slot'[t] = slot[t] /\ slot[t].run # r
                               /\ slot[t].at # "idle" => slot[t].run \in Runs
                               => SlotInv(t)'
<1>1. ASSUME NEW q \in Runs, q # r PROVE RowInv(q)'
  <2>1. run'[q] = run[q] /\ RowInv(q)
    BY <1>1 DEF EngineInv
  <2>2. /\ \A f \in errors' : f.run = q => \E e \in errors : Alike(e, f)
        /\ \A e \in errors : \E f \in errors' : Alike(e, f)
    BY <1>1 DEF ErrorsKept
  <2>3. Dated(q)' /\ Blank(q)'
    BY <2>1, <2>2 DEF RowInv, Dated, Blank, Alike
  <2>4. Honest(q)'
    BY <2>1, <2>2 DEF RowInv, Honest, Alike
  <2> QED BY <2>3, <2>4 DEF RowInv
<1>2. ASSUME NEW t \in Slots, slot'[t] = slot[t], slot[t].run # r,
             slot[t].at # "idle" => slot[t].run \in Runs
      PROVE  SlotInv(t)'
  <2>1. CASE slot[t].at = "idle"
    BY <1>2, <2>1 DEF SlotInv, PhaseMatchesRow, CheckpointIsOwn, Accounted, Trying, Settling
  <2>2. CASE slot[t].at # "idle"
    <3>1. Row(t)' = Row(t) /\ SlotInv(t) /\ Outcome(t)' = Outcome(t)
      BY <1>2, <2>2 DEF Row, EngineInv, Outcome
    <3>2. /\ \A f \in errors' : f.run = slot[t].run => \E e \in errors : Alike(e, f)
          /\ \A e \in errors : \E f \in errors' : Alike(e, f)
      BY <1>2 DEF ErrorsKept
    <3>3. PhaseMatchesRow(t)' /\ CheckpointIsOwn(t)'
      BY <1>2, <3>1 DEF SlotInv, PhaseMatchesRow, CheckpointIsOwn
    <3>4. Accounted(t)'
      BY <1>2, <3>1, <3>2 DEF SlotInv, Accounted, Alike
    <3> QED BY <3>3, <3>4 DEF SlotInv
  <2> QED BY <2>1, <2>2
<1> QED BY <1>1, <1>2

\* What is left to show of an execution's step: its own slot and its own row.
LEMMA OwnStep ==
    ASSUME Typed, Typed', EngineInv, NEW s \in Slots, NEW r \in Runs,
           supported' = supported, ErrorsKept(r),
           \A q \in Runs : q # r => run'[q] = run[q],
           \A t \in Slots : t # s => slot'[t] = slot[t] /\ slot[t].run # r,
           slot'[s].run \in {r, NoRun},
           SlotInv(s)', RowInv(r)'
    PROVE  EngineInv'
<1>1. \A t \in Slots : slot[t].at # "idle" => slot[t].run \in Runs
  BY RowOfSlot
<1>2. /\ \A q \in Runs : q # r => RowInv(q)'
      /\ \A t \in Slots : t # s => SlotInv(t)'
  BY <1>1, Elsewhere
<1>3. Apart'
  BY DEF EngineInv, Apart
<1> QED BY <1>2, <1>3 DEF EngineInv

LEMMA NobodyElse ==
    ASSUME Typed, EngineInv, NEW s \in Slots, slot[s].at # "idle"
    PROVE  /\ slot[s].run \in Runs
           /\ \A t \in Slots : t # s => slot[t].run # slot[s].run
<1>1. slot[s].run \in Runs /\ slot[s].run # NoRun
  BY RowOfSlot, EngineAssumption DEF EngineAssumption
<1> QED BY <1>1 DEF EngineInv, Apart

LEMMA ErrorsUntouched == ASSUME NEW r, UNCHANGED errors PROVE ErrorsKept(r)
BY DEF ErrorsKept, Alike

LEMMA InvPlan == Typed /\ Typed' /\ EngineInv /\ (Plan \/ NextDay) => EngineInv'
<1> SUFFICES ASSUME Typed, Typed', EngineInv, Plan \/ NextDay PROVE EngineInv'
  OBVIOUS
<1>1. CASE NextDay
  <2>1. UNCHANGED <<supported, run, errors, slot>>
    BY <1>1 DEF NextDay, rows
  <2> QED BY <2>1 DEF EngineInv, Apart, SlotInv, RowInv, PhaseMatchesRow, CheckpointIsOwn,
                      Accounted, Dated, Blank, Honest, Row, Outcome
<1>2. CASE Plan
  <2>1. PICK w : Enqueue(w)
    BY <1>2 DEF Plan, EnqueueScheduled, EnqueueBackfill, EnqueueExplicit
  <2>2. PICK r \in Runs :
            /\ run[r].status = "absent"
            /\ run' = [run EXCEPT ![r] = [NewRun EXCEPT !.status = "queued", !.window = w,
                                          !.attempt = 1]]
    BY <2>1 DEF Enqueue
  <2>3. UNCHANGED <<supported, errors, slot>>
    BY <2>1 DEF Enqueue, rows
  <2>4. run'[r].status = "queued" /\ run'[r].attempt = 1 /\ run'[r].done = {}
    BY <2>2, Blanks DEF Typed, TypeOK, RunRows
  <2>5. \A q \in Runs : q # r => run'[q] = run[q]
    BY <2>2 DEF Typed, TypeOK
  <2>6. \A e \in errors : e.run # r
    <3>1. \A e \in errors : e.run = r => e.attempt <= 0 /\ e.attempt \in 1 .. MaxAttempts
      BY <2>2 DEF EngineInv, RowInv, Dated, Blank, Typed, TypeOK
    <3> QED BY <3>1
  <2>7. RowInv(r)'
    BY <2>3, <2>4, <2>6 DEF RowInv, Dated, Blank, Honest
  <2>8. \A t \in Slots : slot[t].at # "idle" => slot[t].run \in Runs /\ slot[t].run # r
    BY <2>2, RowOfSlot DEF Typed, Row
  <2>9. \A t \in Slots : slot[t].run # r
    BY <2>8, EngineAssumption DEF Typed, AtWork, EngineAssumption
  <2>10. \A t \in Slots : SlotInv(t)'
    BY <2>3, <2>5, <2>8, <2>9, Elsewhere, ErrorsUntouched
  <2>11. \A q \in Runs : RowInv(q)'
    BY <2>3, <2>5, <2>7, Elsewhere, ErrorsUntouched
  <2>12. Apart'
    BY <2>3 DEF EngineInv, Apart
  <2> QED BY <2>10, <2>11, <2>12 DEF EngineInv
<1> QED BY <1>1, <1>2

\* What closing errors leaves of each: all but who closed it.
LEMMA Closing ==
    ASSUME Typed, NEW s \in Slots, ResolveErrors(s)
    PROVE  /\ \A e \in errors : \E f \in errors' : Alike(e, f)
           /\ \A f \in errors' : \E e \in errors :
                 /\ Alike(e, f) /\ f.class = e.class /\ f.seen = e.seen
                 /\ \/ f = e
                    \/ /\ f.by = slot[s].run /\ e.run # slot[s].run
                       /\ \E w \in slot[s].covered : Supersedes(w, e.class, e.window)
<1> DEFINE mine(e) == /\ e.by = NoRun /\ e.run # slot[s].run
                      /\ \E w \in slot[s].covered : Supersedes(w, e.class, e.window)
           closed(e) == IF mine(e) THEN [e EXCEPT !.by = slot[s].run] ELSE e
<1>1. errors' = {closed(e) : e \in errors}
  BY DEF ResolveErrors
<1>2. \A e \in errors : mine(e) => e.run # slot[s].run /\ \E w \in slot[s].covered :
                                      Supersedes(w, e.class, e.window)
  OBVIOUS
<1> HIDE DEF mine
<1>3. \A e \in errors :
        /\ Alike(e, closed(e)) /\ closed(e).class = e.class /\ closed(e).seen = e.seen
        /\ IF mine(e) THEN closed(e).by = slot[s].run ELSE closed(e) = e
  BY DEF Typed, ErrorRows, Alike
<1> HIDE DEF closed
<1> QED BY <1>1, <1>2, <1>3

\* A row in someone's hands has begun.
LEMMA HeldHasBegun ==
    ASSUME Typed, EngineInv, NEW s \in Slots, slot[s].at # "idle"
    PROVE  Row(s).status \in Settled \cup {"running"}
<1>1. slot[s].at \in Trying \cup Settling \cup {"catch"}
  BY RowOfSlot DEF Executions, Controls, Trying, Settling
<1>2. Outcome(s) \in Settled
  BY DEF Outcome, RunStatus, Settled, Succeeded
<1> QED BY <1>1, <1>2 DEF EngineInv, SlotInv, PhaseMatchesRow

LEMMA IdleIsFine == ASSUME NEW s \in Slots, slot'[s].at = "idle" PROVE SlotInv(s)'
BY DEF SlotInv, PhaseMatchesRow, CheckpointIsOwn, Accounted, Trying, Settling

\* A step that writes no row of sync_runs has only its own slot to show.
LEMMA SameRows ==
    ASSUME Typed, Typed', EngineInv, NEW s \in Slots, UNCHANGED <<run, supported>>,
           ErrorsKept(NoRun), \A t \in Slots : t # s => slot'[t] = slot[t],
           slot'[s].run \in {slot[s].run, NoRun},
           SlotInv(s)'
    PROVE  EngineInv'
<1>1. \A t \in Slots : /\ slot[t].at # "idle" => slot[t].run \in Runs
                       /\ slot[t].at = "idle" <=> slot[t].run = NoRun
  BY RowOfSlot DEF AtWork
<1>2. \A q \in Runs : RowInv(q)'
  BY Elsewhere, EngineAssumption DEF EngineAssumption
<1>3. \A t \in Slots : t # s => SlotInv(t)'
  <2> SUFFICES ASSUME NEW t \in Slots, t # s PROVE SlotInv(t)'
    OBVIOUS
  <2>1. CASE slot[t].at = "idle"
    BY <2>1, IdleIsFine
  <2>2. CASE slot[t].at # "idle"
    BY <1>1, <2>2, Elsewhere
  <2> QED BY <2>1, <2>2
<1>4. Apart'
  BY DEF EngineInv, Apart
<1> QED BY <1>2, <1>3, <1>4 DEF EngineInv

\* An execution that moves on without touching its windows keeps what it holds.
LEMMA SlotMoves ==
    ASSUME NEW s \in Slots, SlotInv(s), UNCHANGED <<run, supported>>, ErrorsKept(NoRun),
           slot[s].run # NoRun,
           slot'[s].run = slot[s].run, slot'[s].covered = slot[s].covered,
           slot'[s].left = slot[s].left, slot'[s].some = slot[s].some,
           slot'[s].bad = slot[s].bad, slot'[s].refused = slot[s].refused,
           \/ /\ slot[s].at \in {"loop", "persist", "checkpoint"}
              /\ slot'[s].at \in {"persist", "checkpoint", "record"}
           \/ slot[s].at = "resolve" /\ slot'[s].at = "cursor"
           \/ slot[s].at \in Settling /\ slot'[s].at \in {"freshness", "connection"}
           \/ slot[s].at \in Settling /\ slot'[s].at = "requeue" /\ Outcome(s) = "failed"
    PROVE  SlotInv(s)'
<1>1. Row(s)' = Row(s) /\ Outcome(s)' = Outcome(s)
  BY DEF Row, Outcome
<1>2. PhaseMatchesRow(s)'
  BY <1>1 DEF SlotInv, PhaseMatchesRow, Trying, Settling
<1>3. CheckpointIsOwn(s)'
  BY <1>1 DEF SlotInv, CheckpointIsOwn, Trying, Settling
<1>4. Accounted(s)'
  <2>1. /\ \A f \in errors' : f.run = slot[s].run => \E e \in errors : Alike(e, f)
        /\ \A e \in errors : \E f \in errors' : Alike(e, f)
    BY DEF ErrorsKept, Alike
  <2> QED BY <1>1, <2>1 DEF SlotInv, Accounted, Alike, Trying, Settling
<1> QED BY <1>2, <1>3, <1>4 DEF SlotInv

\* Every statement of an execution keeps its row, its checkpoint and the error
\* rows in step.
LEMMA InvExecution ==
    ASSUME Typed, Typed', EngineInv, NEW s \in Slots,
           Execute(s) \/ \E r \in Runs : ClaimRun(s, r)
    PROVE  EngineInv'
<1> DEFINE me == slot[s]
           you == slot'[s]
<1>0. /\ me \in Executions /\ AtWork(me) /\ SlotInv(s)
      /\ me.at # "idle" => /\ me.run \in Runs /\ Row(s) \in RunRows /\ RowInv(me.run)
                           /\ Row(s).attempt \in 1 .. MaxAttempts
                           /\ \A t \in Slots : t # s => slot[t].run # me.run
  BY RowOfSlot, NobodyElse DEF EngineInv
<1>1. /\ run \in [Runs -> RunRows] /\ errors \subseteq ErrorRows
      /\ slot \in [Slots -> Executions]
  BY DEF Typed, TypeOK, RunRows, Executions
<1>a. PICK r \in Runs \cup {NoRun} : r = me.run
  BY <1>0 DEF Executions
<1>b. me.at # "idle" => SlotInv(s) /\ slot[s].run # NoRun
  BY <1>0 DEF AtWork
<1>c. me.at # "idle" => r \in Runs /\ \A t \in Slots : t # s => slot[t].run # r
  BY <1>0, <1>a
<1> USE <1>a
<1>2. ASSUME NEW q \in Runs, ClaimRun(s, q) PROVE EngineInv'
  <2>1. /\ run[q].status = "queued" /\ run' = [run EXCEPT ![q].status = "running"]
        /\ UNCHANGED <<supported, errors>>
        /\ slot' = [slot EXCEPT ![s] = [IdleSlot EXCEPT !.at = "start", !.run = q]]
    BY <1>2 DEF ClaimRun, rows
  <2>2. \A t \in Slots : slot[t].run # q
    <3>1. \A t \in Slots : slot[t].at # "idle" => slot[t].run # q
      BY <2>1, HeldHasBegun DEF Row, Settled, Succeeded
    <3> QED BY <3>1, EngineAssumption DEF Typed, AtWork, EngineAssumption
  <2>3. /\ you.at = "start" /\ you.run = q /\ you.covered = {} /\ you.left = {}
        /\ ~you.some /\ ~you.bad /\ ~you.refused
    BY <1>1, <2>1, Blanks DEF Executions
  <2>4. \A t \in Slots : t # s => slot'[t] = slot[t]
    BY <1>1, <2>1
  <2>5. /\ run'[q].status = "running" /\ run'[q].done = run[q].done
        /\ run'[q].attempt = run[q].attempt
        /\ \A p \in Runs : p # q => run'[p] = run[p]
    BY <1>1, <2>1 DEF RunRows
  <2>6. /\ run[q].done = {} /\ \A e \in errors : e.run = q => e.attempt < run[q].attempt
    BY <2>1 DEF EngineInv, RowInv, Blank, Dated
  <2>7. SlotInv(s)'
    BY <2>1, <2>3, <2>5, <2>6
    DEF SlotInv, PhaseMatchesRow, CheckpointIsOwn, Accounted, Trying, Settling, Row
  <2>8. RowInv(q)'
    <3>1. Dated(q)'
      BY <1>1, <2>1, <2>5 DEF EngineInv, RowInv, Dated
    <3> QED BY <2>5, <3>1 DEF RowInv, Blank, Honest
  <2> QED BY <2>1, <2>2, <2>3, <2>4, <2>5, <2>7, <2>8, OwnStep, ErrorsUntouched
<1>3. CASE StartRun(s)
  <2>1. me.at = "start" /\ UNCHANGED <<run, supported, errors>>
    BY <1>3 DEF StartRun
  <2>2. /\ me.covered = {} /\ ~me.some /\ ~me.bad /\ ~me.refused
    BY <1>0, <2>1 DEF AtWork
  <2>3. /\ \A t \in Slots : t # s => slot'[t] = slot[t]
        /\ you.run = me.run /\ you.covered = me.covered /\ you.some = me.some
        /\ you.bad = me.bad
        /\ \/ /\ you.at = "loop" /\ you.refused = me.refused
              /\ you.left = Chunks(Row(s).window.from, Row(s).window.to, ChunkDays)
           \/ you.at = "record" /\ you.refused /\ you.left = me.left
    <3>1. CASE slot' = [slot EXCEPT ![s].at = "loop",
                           ![s].left = Chunks(Row(s).window.from, Row(s).window.to, ChunkDays)]
      BY <1>1, <3>1 DEF Executions
    <3>2. ASSUME NEW k, slot' = [slot EXCEPT ![s].at = "record", ![s].why = k,
                                             ![s].refused = TRUE]
          PROVE  /\ \A t \in Slots : t # s => slot'[t] = slot[t]
                 /\ you.run = me.run /\ you.covered = me.covered /\ you.some = me.some
                 /\ you.bad = me.bad /\ you.at = "record" /\ you.refused /\ you.left = me.left
      BY <1>1, <3>2 DEF Executions
    <3> QED BY <1>3, <3>1, <3>2 DEF StartRun
  <2>4. SlotInv(s)'
    <3>1. PhaseMatchesRow(s)'
      BY <1>0, <2>1, <2>3 DEF SlotInv, PhaseMatchesRow, Row, Trying, Settling
    <3>2. CheckpointIsOwn(s)'
      BY <1>0, <2>1, <2>2, <2>3 DEF SlotInv, CheckpointIsOwn, Row, Trying, Settling
    <3>3. Accounted(s)'
      BY <1>0, <2>1, <2>2, <2>3 DEF SlotInv, Accounted, Row, Trying, Settling
    <3> QED BY <3>1, <3>2, <3>3 DEF SlotInv
  <2> QED BY <2>1, <2>3, <2>4, SameRows, ErrorsUntouched
<1>4. CASE FetchWindow(s)
  <2> DEFINE w == Earliest(me.left)
  <2>1. /\ me.at = "loop" /\ me.left # {} /\ UNCHANGED <<run, supported, errors>>
    BY <1>4 DEF FetchWindow, rows
  <2>2. w \notin Row(s).done
    BY <1>0, <2>1, EarliestIsFirst
    DEF SlotInv, CheckpointIsOwn, Executions, Trying
  <2>3. /\ \A t \in Slots : t # s => slot'[t] = slot[t]
        /\ you.run = me.run /\ you.covered = me.covered /\ you.some = me.some
        /\ you.bad = me.bad /\ you.left = me.left /\ you.refused = me.refused
        /\ you.at \in {"persist", "record"}
    <3>1. \/ \E d : slot' = [slot EXCEPT ![s].at = "persist", ![s].latest = Later(@, d)]
          \/ \E k : slot' = [slot EXCEPT ![s].at = "record", ![s].why = k]
      BY <1>4, <2>2 DEF FetchWindow
    <3> QED BY <1>1, <3>1 DEF Executions
  <2>4. SlotInv(s)'
    BY <1>b, <2>1, <2>3, SlotMoves, ErrorsUntouched
  <2> QED BY <2>1, <2>3, <2>4, SameRows, ErrorsUntouched
<1>5. CASE PersistWindow(s)
  <2>1. /\ me.at = "persist" /\ UNCHANGED <<run, supported, errors>>
        /\ slot' = [slot EXCEPT ![s].at = "checkpoint"]
    BY <1>5 DEF PersistWindow
  <2>2. /\ \A t \in Slots : t # s => slot'[t] = slot[t]
        /\ you.run = me.run /\ you.covered = me.covered /\ you.some = me.some
        /\ you.bad = me.bad /\ you.left = me.left /\ you.refused = me.refused
        /\ you.at = "checkpoint"
    BY <1>1, <2>1 DEF Executions
  <2>3. SlotInv(s)'
    BY <1>b, <2>1, <2>2, SlotMoves, ErrorsUntouched
  <2> QED BY <2>1, <2>2, <2>3, SameRows, ErrorsUntouched
<1>6. CASE CheckpointWindow(s)
  <2> DEFINE w == Earliest(me.left)
  <2>1. /\ me.at = "checkpoint" /\ UNCHANGED <<supported, errors>>
        /\ run' = [run EXCEPT ![r].done = @ \cup {w}]
        /\ slot' = [slot EXCEPT ![s].at = "loop", ![s].left = @ \ {w},
                       ![s].covered = @ \cup {w}, ![s].some = TRUE]
    BY <1>6 DEF CheckpointWindow, rows
  <2>2. w \in me.left
    BY <1>0, <2>1, EarliestIsFirst DEF AtWork, Executions
  <2> HIDE DEF w
  <2>3. /\ \A t \in Slots : t # s => slot'[t] = slot[t]
        /\ you.at = "loop" /\ you.run = r /\ you.covered = me.covered \cup {w}
        /\ you.some /\ you.bad = me.bad /\ you.left = me.left \ {w} /\ you.refused = me.refused
    BY <1>1, <2>1 DEF Executions
  <2>4. /\ \A q \in Runs : q # r => run'[q] = run[q]
        /\ run'[r].done = run[r].done \cup {w}
        /\ run'[r].status = run[r].status
        /\ run'[r].attempt = run[r].attempt
        /\ run'[r].window = run[r].window
    BY <1>0, <1>1, <2>1 DEF RunRows
  <2>5. Row(s).status = "running"
    BY <1>0, <2>1 DEF SlotInv, PhaseMatchesRow, Trying
  <2>6. you.left \cup you.covered = me.left \cup me.covered
    BY <2>2, <2>3
  <2>7. SlotInv(s)'
    <3>1. PhaseMatchesRow(s)'
      BY <2>3, <2>4, <2>5 DEF PhaseMatchesRow, Row, Trying, Settling
    <3>2. ~you.refused
      BY <1>0, <2>1, <2>3 DEF AtWork
    <3>3. CheckpointIsOwn(s)'
      <4>1. run[r].done = me.covered /\ me.left \cap me.covered = {}
        BY <1>0, <2>1 DEF SlotInv, CheckpointIsOwn, Row, Trying
      <4>2. run'[r].done = you.covered /\ you.left \cap you.covered = {} /\ you.covered # {}
        BY <2>2, <2>3, <2>4, <4>1
      <4> QED BY <2>3, <3>2, <4>2 DEF CheckpointIsOwn, Row
    <3>4. Accounted(s)'
      <4>1. /\ ~me.bad => \A e \in errors : e.run = r => e.attempt < run[r].attempt
            /\ me.bad => \E e \in errors : e.run = r /\ e.window \notin me.left \cup me.covered
            /\ ~me.bad => Chunks(run[r].window.from, run[r].window.to, ChunkDays)
                             \subseteq me.left \cup me.covered
        BY <1>0, <2>1 DEF SlotInv, Accounted, Row, Trying
      <4> QED BY <2>1, <2>3, <2>4, <2>6, <4>1 DEF Accounted, Row
    <3> QED BY <3>1, <3>3, <3>4 DEF SlotInv
  <2>8. RowInv(r)'
    BY <1>0, <2>1, <2>4, <2>5 DEF RowInv, Dated, Blank, Honest, Row
  <2> QED BY <1>c, <2>1, <2>3, <2>4, <2>7, <2>8, OwnStep, ErrorsUntouched
<1>7. CASE WindowThrows(s)
  <2>1. /\ me.at \in {"loop", "persist", "checkpoint"} /\ UNCHANGED <<run, supported, errors>>
        /\ \E k : slot' = [slot EXCEPT ![s].at = "record", ![s].why = k]
    BY <1>7 DEF WindowThrows, rows
  <2>2. /\ \A t \in Slots : t # s => slot'[t] = slot[t]
        /\ you.run = me.run /\ you.covered = me.covered /\ you.some = me.some
        /\ you.bad = me.bad /\ you.left = me.left /\ you.refused = me.refused
        /\ you.at = "record"
    BY <1>1, <2>1 DEF Executions
  <2>3. SlotInv(s)'
    BY <1>b, <2>1, <2>2, SlotMoves, ErrorsUntouched
  <2> QED BY <2>1, <2>2, <2>3, SameRows, ErrorsUntouched
<1>8. CASE RecordFailure(s)
  <2> DEFINE w == IF me.refused THEN Row(s).window ELSE Earliest(me.left)
             stop == me.refused \/ Fatal(me.why)
             e == [run |-> me.run, attempt |-> Row(s).attempt, window |-> w,
                   class |-> me.why, by |-> NoRun,
                   seen |-> UNION {{p} \X run[p].done : p \in Runs}]
  <2>1. /\ me.at = "record" /\ errors' = errors \cup {e} /\ UNCHANGED <<run, supported>>
        /\ slot' = [slot EXCEPT ![s].at = "loop", ![s].bad = TRUE,
                          ![s].left = IF stop THEN {} ELSE @ \ {w},
                          ![s].why = IF stop THEN @ ELSE "none"]
    BY <1>8 DEF RecordFailure
  <2>2. e.run = me.run /\ e.attempt = Row(s).attempt /\ e.window = w
    OBVIOUS
  <2>3. ~me.refused => w \in me.left
    BY <1>0, <2>1, EarliestIsFirst DEF AtWork, Executions
  <2>4. me.refused => stop
    OBVIOUS
  <2> HIDE DEF e, w, stop
  <2>5. /\ \A t \in Slots : t # s => slot'[t] = slot[t]
        /\ you.at = "loop" /\ you.run = r /\ you.covered = me.covered
        /\ you.some = me.some /\ you.bad /\ you.refused = me.refused
        /\ you.left = IF stop THEN {} ELSE me.left \ {w}
    BY <1>1, <2>1 DEF Executions
  <2>6. w \notin you.left \cup you.covered
    BY <1>0, <2>1, <2>3, <2>4, <2>5 DEF SlotInv, CheckpointIsOwn, Trying
  <2>7. SlotInv(s)'
    <3>1. PhaseMatchesRow(s)'
      BY <1>0, <2>1, <2>5 DEF SlotInv, PhaseMatchesRow, Row, Trying, Settling
    <3>2. CheckpointIsOwn(s)'
      <4>1. /\ run[r].done = me.covered /\ me.left \cap me.covered = {}
            /\ (me.some <=> me.covered # {}) /\ (me.refused => me.covered = {})
        BY <1>0, <2>1 DEF SlotInv, CheckpointIsOwn, Row, Trying
      <4>2. you.left \cap you.covered = {}
        BY <2>5, <4>1
      <4> QED BY <2>1, <2>5, <4>1, <4>2 DEF CheckpointIsOwn, Row
    <3>3. Accounted(s)'
      BY <2>1, <2>2, <2>5, <2>6 DEF Accounted
    <3> QED BY <3>1, <3>2, <3>3 DEF SlotInv
  <2>8. RowInv(r)'
    <3>1. Row(s).status = "running"
      BY <1>0, <2>1 DEF SlotInv, PhaseMatchesRow, Trying
    <3>2. Dated(r)'
      BY <1>0, <2>1, <2>2, <3>1 DEF RowInv, Dated, Row
    <3> QED BY <1>0, <2>1, <3>1, <3>2 DEF RowInv, Blank, Honest, Row
  <2>9. ErrorsKept(r)
    BY <2>1, <2>2 DEF ErrorsKept, Alike
  <2> QED BY <1>c, <2>1, <2>5, <2>7, <2>8, <2>9, OwnStep
<1>9. CASE CompleteSyncRun(s)
  <2>1. /\ me.at = "loop" /\ me.left = {} /\ UNCHANGED <<supported, errors>>
        /\ run' = [run EXCEPT ![r].status = Outcome(s), ![r].class = me.why]
        /\ slot' = [slot EXCEPT ![s].at = IF Outcome(s) = "failed" THEN "freshness"
                                          ELSE IF supported /\ me.some THEN "resolve"
                                          ELSE "cursor"]
    BY <1>9 DEF CompleteSyncRun, rows
  <2>2. /\ \A t \in Slots : t # s => slot'[t] = slot[t]
        /\ you.run = r /\ you.covered = me.covered /\ you.some = me.some
        /\ you.bad = me.bad /\ you.left = me.left /\ you.refused = me.refused
        /\ you.at = "freshness" \/ (you.at \in {"resolve", "cursor"} /\ Outcome(s) # "failed")
    BY <1>1, <2>1 DEF Executions
  <2>3. /\ \A q \in Runs : q # r => run'[q] = run[q]
        /\ run'[r].status = Outcome(s) /\ run'[r].done = run[r].done
        /\ run'[r].attempt = run[r].attempt
        /\ run'[r].window = run[r].window
    BY <1>0, <1>1, <2>1 DEF RunRows
  <2>4. Outcome(s)' = Outcome(s)
    BY <2>1, <2>2 DEF Outcome
  <2>5. SlotInv(s)'
    <3>1. PhaseMatchesRow(s)'
      BY <2>2, <2>3, <2>4 DEF PhaseMatchesRow, Row, Trying, Settling
    <3>2. CheckpointIsOwn(s)'
      BY <1>0, <2>1, <2>2, <2>3 DEF SlotInv, CheckpointIsOwn, Row, Trying
    <3>3. Accounted(s)'
      BY <1>0, <2>1, <2>2, <2>3 DEF SlotInv, Accounted, Row, Trying
    <3> QED BY <3>1, <3>2, <3>3 DEF SlotInv
  <2>6. RowInv(r)'
    <3>1. /\ Row(s).done = me.covered /\ (me.some <=> me.covered # {})
          /\ ~me.bad => \A e \in errors : e.run = me.run => e.attempt < Row(s).attempt
          /\ me.bad => \E e \in errors : e.run = me.run /\ e.window \notin me.covered
          /\ ~me.bad => Chunks(Row(s).window.from, Row(s).window.to, ChunkDays) \subseteq me.covered
      BY <1>0, <2>1 DEF SlotInv, CheckpointIsOwn, Accounted, Trying
    <3>2. /\ Outcome(s) \in {"completed", "not_implemented"} => ~me.bad
          /\ Outcome(s) = "partially_completed" => me.bad /\ me.some
          /\ Outcome(s) \notin {"queued", "absent"}
      BY DEF Outcome, RunStatus
    <3>3. Dated(r)' /\ Blank(r)'
      BY <1>0, <2>1, <2>3, <3>2 DEF RowInv, Dated, Blank
    <3>4. Honest(r)'
      <4>1. CASE Outcome(s) \in {"completed", "not_implemented"}
        <5>1. \A e \in errors : e.run = me.run => e.attempt # Row(s).attempt
          BY <1>0, <1>1, <3>1, <3>2, <4>1 DEF ErrorRows
        <5> QED BY <2>1, <2>3, <3>1, <3>2, <4>1, <5>1 DEF Honest, Row
      <4>2. CASE Outcome(s) \notin {"completed", "not_implemented"}
        BY <2>1, <2>3, <3>1, <3>2, <4>2 DEF Honest, Row
      <4> QED BY <4>1, <4>2
    <3> QED BY <3>3, <3>4 DEF RowInv
  <2> QED BY <1>c, <2>1, <2>2, <2>3, <2>5, <2>6, OwnStep, ErrorsUntouched
<1>10. CASE ResolveErrors(s)
  <2>1. /\ me.at = "resolve" /\ slot' = [slot EXCEPT ![s].at = "cursor"]
        /\ errors' = {IF /\ e.by = NoRun /\ e.run # me.run
                         /\ \E w \in me.covered : Supersedes(w, e.class, e.window)
                      THEN [e EXCEPT !.by = me.run] ELSE e : e \in errors}
        /\ UNCHANGED <<run, supported>>
    BY <1>10 DEF ResolveErrors
  <2>2. /\ \A t \in Slots : t # s => slot'[t] = slot[t]
        /\ you.run = me.run /\ you.covered = me.covered /\ you.some = me.some
        /\ you.bad = me.bad /\ you.left = me.left /\ you.refused = me.refused
        /\ you.at = "cursor"
    BY <1>1, <2>1 DEF Executions
  <2>3. ErrorsKept(NoRun)
    BY <1>10, Closing DEF ErrorsKept
  <2>4. SlotInv(s)'
    BY <1>b, <2>1, <2>2, <2>3, SlotMoves
  <2> QED BY <2>1, <2>2, <2>3, <2>4, SameRows
<1>11. CASE SetCursor(s) \/ WriteFreshness(s)
  <2>1. /\ me.at \in {"cursor", "freshness"} /\ UNCHANGED <<run, supported, errors>>
        /\ \E at \in {"freshness", "connection"} : slot' = [slot EXCEPT ![s].at = at]
    BY <1>11 DEF SetCursor, WriteFreshness
  <2>2. /\ \A t \in Slots : t # s => slot'[t] = slot[t]
        /\ you.run = me.run /\ you.covered = me.covered /\ you.some = me.some
        /\ you.bad = me.bad /\ you.left = me.left /\ you.refused = me.refused
        /\ you.at \in {"freshness", "connection"}
    BY <1>1, <2>1 DEF Executions
  <2>3. SlotInv(s)'
    BY <1>b, <2>1, <2>2, SlotMoves, ErrorsUntouched DEF Settling
  <2> QED BY <2>1, <2>2, <2>3, SameRows, ErrorsUntouched
<1>12. CASE MarkConnection(s)
  <2>1. /\ me.at = "connection" /\ UNCHANGED <<run, supported, errors>>
        /\ slot' = [slot EXCEPT ![s] =
                   IF Outcome(s) = "failed" /\ Retryable(me.why)
                   THEN [@ EXCEPT !.at = "requeue"] ELSE IdleSlot]
    BY <1>12 DEF MarkConnection
  <2>2. CASE Outcome(s) = "failed" /\ Retryable(me.why)
    <3>1. /\ \A t \in Slots : t # s => slot'[t] = slot[t]
          /\ you.run = me.run /\ you.covered = me.covered /\ you.some = me.some
          /\ you.bad = me.bad /\ you.left = me.left /\ you.refused = me.refused
          /\ you.at = "requeue"
      BY <1>1, <2>1, <2>2 DEF Executions
    <3>2. SlotInv(s)'
      BY <1>b, <2>1, <2>2, <3>1, SlotMoves, ErrorsUntouched DEF Settling
    <3> QED BY <2>1, <3>1, <3>2, SameRows, ErrorsUntouched
  <2>3. CASE ~(Outcome(s) = "failed" /\ Retryable(me.why))
    <3>1. /\ \A t \in Slots : t # s => slot'[t] = slot[t]
          /\ you = IdleSlot
      BY <1>1, <2>1, <2>3
    <3> QED BY <2>1, <3>1, Blanks, IdleIsFine, SameRows, ErrorsUntouched
  <2> QED BY <2>2, <2>3
<1>13. CASE RequeueRun(s)
  <2>1. /\ me.at = "requeue" /\ slot' = [slot EXCEPT ![s] = IdleSlot]
        /\ run' = IF Row(s).attempt < MaxAttempts
                  THEN [run EXCEPT ![r].status = "queued", ![r].attempt = @ + 1] ELSE run
        /\ UNCHANGED <<supported, errors>>
    BY <1>13 DEF RequeueRun, rows
  <2>2. (\A t \in Slots : t # s => slot'[t] = slot[t]) /\ you = IdleSlot
    BY <1>1, <2>1
  <2>3. CASE Row(s).attempt < MaxAttempts
    <3>1. /\ \A q \in Runs : q # r => run'[q] = run[q]
          /\ run'[r].status = "queued" /\ run'[r].attempt = run[r].attempt + 1
          /\ run'[r].done = run[r].done
      BY <1>c, <1>1, <2>1, <2>3 DEF RunRows
    <3>2. ~me.some /\ run[r].done = {}
      <4>1. Outcome(s) = "failed"
        BY <1>0, <2>1 DEF SlotInv, PhaseMatchesRow
      <4>2. ~me.some
        BY <4>1 DEF Outcome, RunStatus
      <4> QED BY <1>0, <2>1, <4>2 DEF SlotInv, CheckpointIsOwn, Row, Settling
    <3>3. \A e \in errors : e.run = r => e.attempt < run'[r].attempt
      <4>1. run[r].attempt \in Nat /\ \A e \in errors : e.attempt \in Nat
        BY <1>c, <1>1, <2>1, EngineAssumption DEF RunRows, ErrorRows, EngineAssumption
      <4>2. \A e \in errors : e.run = r => e.attempt <= run[r].attempt
        BY <1>0, <2>1 DEF RowInv, Dated
      <4> QED BY <3>1, <4>1, <4>2
    <3>4. RowInv(r)'
      <4>1. \A e \in errors : e.run = r => e.attempt <= run'[r].attempt
        <5>1. run'[r].attempt \in Nat /\ \A e \in errors : e.attempt \in Nat
          BY <1>c, <1>1, <2>1, <3>1, EngineAssumption DEF RunRows, ErrorRows, EngineAssumption
        <5> QED BY <3>3, <5>1
      <4> QED BY <2>1, <3>1, <3>2, <3>3, <4>1 DEF RowInv, Dated, Blank, Honest
    <3> QED BY <1>c, <2>1, <2>2, <3>1, <3>4, Blanks, IdleIsFine, OwnStep, ErrorsUntouched
  <2>4. CASE ~(Row(s).attempt < MaxAttempts)
    BY <2>1, <2>2, <2>4, Blanks, IdleIsFine, SameRows, ErrorsUntouched
  <2> QED BY <2>3, <2>4
<1>14. CASE RunThrows(s)
  <2>1. /\ me.at # "idle" /\ slot' = [slot EXCEPT ![s].at = "catch"]
        /\ UNCHANGED <<run, supported, errors>>
    BY <1>14 DEF RunThrows, rows
  <2>2. /\ \A t \in Slots : t # s => slot'[t] = slot[t]
        /\ you.run = me.run /\ you.at = "catch"
    BY <1>1, <2>1 DEF Executions
  <2>3. Row(s)' \in RunRows /\ Row(s)'.status \in Settled \cup {"running"}
    BY <1>0, <2>1, <2>2, HeldHasBegun DEF Row
  <2>4. SlotInv(s)'
    BY <2>2, <2>3 DEF SlotInv, PhaseMatchesRow, CheckpointIsOwn, Accounted, Trying, Settling
  <2> QED BY <2>1, <2>2, <2>4, SameRows, ErrorsUntouched
<1>15. CASE CatchRun(s)
  <2>1. /\ me.at = "catch" /\ slot' = [slot EXCEPT ![s] = IdleSlot]
        /\ run' = [run EXCEPT ![r].status = "failed", ![r].class = "unknown_error"]
        /\ UNCHANGED <<supported, errors>>
    BY <1>15 DEF CatchRun, rows
  <2>2. (\A t \in Slots : t # s => slot'[t] = slot[t]) /\ you = IdleSlot
    BY <1>1, <2>1
  <2>3. /\ \A q \in Runs : q # r => run'[q] = run[q]
        /\ run'[r].status = "failed" /\ run'[r].attempt = run[r].attempt
    BY <1>c, <1>1, <2>1 DEF RunRows
  <2>4. RowInv(r)'
    BY <1>0, <2>1, <2>3 DEF RowInv, Dated, Blank, Honest
  <2> QED BY <1>c, <2>1, <2>2, <2>3, <2>4, Blanks, IdleIsFine, OwnStep, ErrorsUntouched
<1>16. CASE Crash(s)
  <2>1. slot' = [slot EXCEPT ![s] = IdleSlot] /\ UNCHANGED <<run, supported, errors>>
    BY <1>16 DEF Crash, rows
  <2>2. (\A t \in Slots : t # s => slot'[t] = slot[t]) /\ you = IdleSlot
    BY <1>1, <2>1
  <2> QED BY <2>1, <2>2, Blanks, IdleIsFine, SameRows, ErrorsUntouched
<1> QED BY <1>2, <1>3, <1>4, <1>5, <1>6, <1>7, <1>8, <1>9, <1>10, <1>11, <1>12, <1>13, <1>14,
           <1>15, <1>16 DEF Execute

LEMMA InvInit == Init => EngineInv
BY Blanks, EngineAssumption
DEF Init, EngineInv, Apart, SlotInv, RowInv, PhaseMatchesRow, CheckpointIsOwn, Accounted, Dated,
    Blank, Honest, Trying, Settling

LEMMA InvStep == Typed /\ Typed' /\ EngineInv /\ [Next]_vars => EngineInv'
<1>1. EngineInv /\ UNCHANGED vars => EngineInv'
  BY DEF vars, rows, EngineInv, Apart, SlotInv, RowInv, PhaseMatchesRow, CheckpointIsOwn,
         Accounted, Dated, Blank, Honest, Row, Outcome
<1> QED BY <1>1, InvPlan, InvExecution DEF Next

LEMMA EngineInvariant == Spec => [](Typed /\ EngineInv)
BY TypedInit, InvInit, TypedStep, InvStep, PTL DEF Spec

\* A run's status says what its checkpoint and its error rows say, through any
\* number of deaths, failing statements and overlapping executions.
THEOREM StatusStaysHonest == Spec => []StatusIsHonest
<1>1. EngineInv => StatusIsHonest
  BY DEF EngineInv, RowInv, Honest, StatusIsHonest
<1> QED BY <1>1, EngineInvariant, PTL

\* The resume of a retried run never finds a checkpoint to resume from.
THEOREM RetriesStartBlank == Spec => []RetryHasNothingToResume
<1>1. EngineInv => RetryHasNothingToResume
  BY DEF EngineInv, RowInv, Blank, RetryHasNothingToResume
<1> QED BY <1>1, EngineInvariant, PTL

-----------------------------------------------------------------------------
\* Closed errors.

\* How a row of sync_runs can change.
LEMMA RowHistory ==
    ASSUME Typed, [Next]_vars, NEW r \in Runs
    PROVE  \/ run'[r] = run[r]
           \/ run[r].status = "absent" /\ run'[r].status = "queued" /\ run'[r].done = {}
           \/ /\ run'[r].window = run[r].window /\ run[r].done \subseteq run'[r].done
              /\ \/ run[r].status = "queued"
                 \/ \E s \in Slots :
                       /\ slot[s].run = r
                       /\ \/ slot[s].at = "checkpoint" /\ run'[r].status = run[r].status
                          \/ slot[s].at \in {"loop", "requeue", "catch"}
<1> DEFINE goal == \/ run'[r] = run[r]
                   \/ run[r].status = "absent" /\ run'[r].status = "queued" /\ run'[r].done = {}
                   \/ /\ run'[r].window = run[r].window /\ run[r].done \subseteq run'[r].done
                      /\ \/ run[r].status = "queued"
                         \/ \E s \in Slots :
                               /\ slot[s].run = r
                               /\ \/ slot[s].at = "checkpoint" /\ run'[r].status = run[r].status
                                  \/ slot[s].at \in {"loop", "requeue", "catch"}
<1>0. run \in [Runs -> RunRows]
  BY DEF Typed, TypeOK, RunRows
<1>1. ASSUME UNCHANGED run PROVE goal
  BY <1>1
<1>2. ASSUME NEW w, Enqueue(w) PROVE goal
  <2>1. PICK q \in Runs : /\ run[q].status = "absent"
                          /\ run' = [run EXCEPT ![q] = [NewRun EXCEPT !.status = "queued",
                                                        !.window = w, !.attempt = 1]]
    BY <1>2 DEF Enqueue
  <2>2. CASE q = r
    BY <1>0, <2>1, <2>2, Blanks DEF RunRows
  <2>3. CASE q # r
    BY <1>0, <2>1, <2>3
  <2> QED BY <2>2, <2>3
<1>3. ASSUME NEW s \in Slots, NEW q \in Runs, ClaimRun(s, q) PROVE goal
  BY <1>0, <1>3 DEF ClaimRun, RunRows
<1>4. ASSUME NEW s \in Slots, CheckpointWindow(s) PROVE goal
  BY <1>0, <1>4 DEF CheckpointWindow, RunRows
<1>5. ASSUME NEW s \in Slots, CompleteSyncRun(s) PROVE goal
  BY <1>0, <1>5 DEF CompleteSyncRun, RunRows
<1>6. ASSUME NEW s \in Slots, RequeueRun(s) PROVE goal
  <2>1. CASE run' = [run EXCEPT ![slot[s].run].status = "queued",
                                ![slot[s].run].attempt = @ + 1]
    BY <1>0, <1>6, <2>1 DEF RequeueRun, RunRows
  <2> QED BY <1>6, <2>1 DEF RequeueRun
<1>7. ASSUME NEW s \in Slots, CatchRun(s) PROVE goal
  BY <1>0, <1>7 DEF CatchRun, RunRows
<1>8. ASSUME NEW s \in Slots, Execute(s) PROVE goal
  <2>1. \/ CheckpointWindow(s) \/ CompleteSyncRun(s) \/ RequeueRun(s) \/ CatchRun(s)
        \/ UNCHANGED run
    BY <1>8 DEF Execute, StartRun, FetchWindow, PersistWindow, WindowThrows, RecordFailure,
                ResolveErrors, SetCursor, WriteFreshness, MarkConnection, RunThrows, Crash
  <2> QED BY <1>1, <1>4, <1>5, <1>6, <1>7, <2>1
<1> HIDE DEF goal
<1>9. ASSUME Next PROVE goal
  BY <1>1, <1>2, <1>3, <1>8, <1>9 DEF Next, NextDay, Plan, EnqueueScheduled, EnqueueBackfill,
                                      EnqueueExplicit
<1>10. ASSUME UNCHANGED vars PROVE goal
  BY <1>1, <1>10 DEF vars
<1>11. goal
  BY <1>9, <1>10
<1> QED BY <1>11 DEF goal

\* A checkpoint never shrinks.
LEMMA DoneGrows ==
    ASSUME Typed, EngineInv, [Next]_vars, NEW r \in Runs
    PROVE  run[r].done \subseteq run'[r].done
BY RowHistory DEF EngineInv, RowInv, Blank

\* How an execution can come by its run.
LEMMA SlotHistory ==
    ASSUME Typed, [Next]_vars, NEW s \in Slots
    PROVE  \/ slot'[s].at = "idle"
           \/ slot[s].at # "idle" /\ slot'[s].run = slot[s].run
           \/ \E r \in Runs : ClaimRun(s, r) /\ slot'[s].run = r
<1> DEFINE goal == \/ slot'[s].at = "idle"
                   \/ slot[s].at # "idle" /\ slot'[s].run = slot[s].run
                   \/ \E r \in Runs : ClaimRun(s, r) /\ slot'[s].run = r
<1>0. slot \in [Slots -> Executions]
  BY DEF Typed, TypeOK, Executions
<1>1. ASSUME UNCHANGED slot PROVE goal
  BY <1>1, RowOfSlot
<1>2. ASSUME NEW t \in Slots, NEW r \in Runs, ClaimRun(t, r) PROVE goal
  <2>1. slot' = [slot EXCEPT ![t] = [IdleSlot EXCEPT !.at = "start", !.run = r]]
    BY <1>2 DEF ClaimRun
  <2>2. CASE t = s
    BY <1>0, <1>2, <2>1, <2>2, Blanks DEF Executions
  <2>3. CASE t # s
    BY <1>0, <2>1, <2>3
  <2> QED BY <2>2, <2>3
<1>3. ASSUME NEW t \in Slots, Execute(t) PROVE goal
  <2>1. CASE t # s
    <3>1. slot'[s] = slot[s]
      BY <1>0, <1>3, <2>1
      DEF Execute, StartRun, FetchWindow, PersistWindow, CheckpointWindow, WindowThrows,
          RecordFailure, CompleteSyncRun, ResolveErrors, SetCursor, WriteFreshness,
          MarkConnection, RequeueRun, RunThrows, CatchRun, Crash
    <3> QED BY <3>1
  <2>2. CASE t = s
    <3>1. slot[s].at # "idle"
      BY <1>3, <2>2
      DEF Execute, StartRun, FetchWindow, PersistWindow, CheckpointWindow, WindowThrows,
          RecordFailure, CompleteSyncRun, ResolveErrors, SetCursor, WriteFreshness,
          MarkConnection, RequeueRun, RunThrows, CatchRun, Crash
    <3>2. slot'[s] = IdleSlot \/ slot'[s].run = slot[s].run
      <4>1. CASE StartRun(s)
        BY <1>0, <4>1 DEF StartRun, Executions
      <4>2. CASE FetchWindow(s)
        BY <1>0, <4>2 DEF FetchWindow, Executions
      <4>3. CASE PersistWindow(s) \/ ResolveErrors(s) \/ SetCursor(s) \/ WriteFreshness(s)
        BY <1>0, <4>3 DEF PersistWindow, ResolveErrors, SetCursor, WriteFreshness, Executions
      <4>4. CASE CheckpointWindow(s)
        BY <1>0, <4>4 DEF CheckpointWindow, Executions
      <4>5. CASE WindowThrows(s) \/ RunThrows(s) \/ CompleteSyncRun(s)
        BY <1>0, <4>5 DEF WindowThrows, RunThrows, CompleteSyncRun, Executions
      <4>6. CASE RecordFailure(s)
        BY <1>0, <4>6 DEF RecordFailure, Executions
      <4>7. CASE MarkConnection(s)
        BY <1>0, <4>7 DEF MarkConnection, Executions
      <4>8. CASE RequeueRun(s) \/ CatchRun(s) \/ Crash(s)
        BY <1>0, <4>8 DEF RequeueRun, CatchRun, Crash
      <4> QED BY <1>3, <2>2, <4>1, <4>2, <4>3, <4>4, <4>5, <4>6, <4>7, <4>8 DEF Execute
    <3> QED BY <3>1, <3>2, Blanks
  <2> QED BY <2>1, <2>2
<1> HIDE DEF goal
<1>4. ASSUME Next PROVE goal
  BY <1>1, <1>2, <1>3, <1>4 DEF Next, NextDay, Plan, EnqueueScheduled, EnqueueBackfill,
                                EnqueueExplicit, Enqueue
<1>5. ASSUME UNCHANGED vars PROVE goal
  BY <1>1, <1>5 DEF vars
<1>6. goal
  BY <1>4, <1>5
<1> QED BY <1>6 DEF goal

\* How an error row can come to be as it is.
LEMMA ErrorHistory ==
    ASSUME Typed, [Next]_vars, NEW f \in errors'
    PROVE  \/ f \in errors
           \/ \E s \in Slots, e \in errors :
                 /\ slot[s].at = "resolve" /\ ResolveErrors(s)
                 /\ Alike(e, f) /\ f.class = e.class /\ f.seen = e.seen
                 /\ f.by = slot[s].run /\ e.run # slot[s].run
                 /\ \E w \in slot[s].covered : Supersedes(w, e.class, e.window)
           \/ \E s \in Slots :
                 /\ slot[s].at = "record" /\ f.run = slot[s].run /\ f.by = NoRun
                 /\ f.window = IF slot[s].refused THEN Row(s).window ELSE Earliest(slot[s].left)
                 /\ f.seen = UNION {{r} \X run[r].done : r \in Runs}
<1>1. ASSUME NEW s \in Slots, ResolveErrors(s), f \notin errors
      PROVE  \E e \in errors :
                 /\ slot[s].at = "resolve" /\ ResolveErrors(s)
                 /\ Alike(e, f) /\ f.class = e.class /\ f.seen = e.seen
                 /\ f.by = slot[s].run /\ e.run # slot[s].run
                 /\ \E w \in slot[s].covered : Supersedes(w, e.class, e.window)
  <2>1. slot[s].at = "resolve"
    BY <1>1 DEF ResolveErrors
  <2> QED BY <1>1, <2>1, Closing
<1>2. ASSUME NEW s \in Slots, RecordFailure(s), f \notin errors
      PROVE  /\ slot[s].at = "record" /\ f.run = slot[s].run /\ f.by = NoRun
             /\ f.window = IF slot[s].refused THEN Row(s).window ELSE Earliest(slot[s].left)
             /\ f.seen = UNION {{r} \X run[r].done : r \in Runs}
  <2> DEFINE w == IF slot[s].refused THEN Row(s).window ELSE Earliest(slot[s].left)
             seen == UNION {{r} \X run[r].done : r \in Runs}
  <2> HIDE DEF w, seen
  <2>1. f = [run |-> slot[s].run, attempt |-> Row(s).attempt, window |-> w,
             class |-> slot[s].why, by |-> NoRun, seen |-> seen]
    BY <1>2 DEF RecordFailure, w, seen
  <2>2. f.run = slot[s].run /\ f.by = NoRun /\ f.window = w /\ f.seen = seen
    BY <2>1
  <2>3. slot[s].at = "record"
    BY <1>2 DEF RecordFailure
  <2> QED BY <2>2, <2>3 DEF w, seen
<1>3. \/ UNCHANGED errors
      \/ \E s \in Slots : ResolveErrors(s) \/ RecordFailure(s)
  <2>1. ASSUME NEW s \in Slots, Execute(s)
        PROVE  UNCHANGED errors \/ ResolveErrors(s) \/ RecordFailure(s)
    BY <2>1 DEF Execute, StartRun, FetchWindow, PersistWindow, CheckpointWindow, WindowThrows,
                CompleteSyncRun, SetCursor, WriteFreshness, MarkConnection, RequeueRun,
                RunThrows, CatchRun, Crash, rows
  <2>2. CASE Next
    BY <2>1, <2>2 DEF Next, NextDay, Plan, EnqueueScheduled, EnqueueBackfill,
                      EnqueueExplicit, Enqueue, ClaimRun, rows
  <2>3. CASE UNCHANGED vars
    BY <2>3 DEF vars
  <2> QED BY <2>2, <2>3
<1> QED BY <1>1, <1>2, <1>3

\* A run whose checkpoint is still blank can have been seen by no error: what an
\* error saw was checkpointed when it was recorded.
SeenIsDone == \A e \in errors : \A r \in Runs, w \in Windows : <<r, w>> \in e.seen => w \in run[r].done

LEMMA SeenStep ==
    ASSUME Typed, Typed', EngineInv, SeenIsDone, [Next]_vars
    PROVE  SeenIsDone'
<1>1. ASSUME NEW f \in errors', NEW r \in Runs, NEW w \in Windows, <<r, w>> \in f.seen
      PROVE  w \in run'[r].done
  <2>1. CASE \E e \in errors : f.seen = e.seen
    BY <1>1, <2>1, DoneGrows DEF SeenIsDone
  <2>2. CASE f.seen = UNION {{p} \X run[p].done : p \in Runs}
    <3>1. w \in run[r].done
      BY <1>1, <2>2
    <3> QED BY <3>1, DoneGrows
  <2> QED BY <2>1, <2>2, ErrorHistory
<1> QED BY <1>1 DEF SeenIsDone

LEMMA ProofStep ==
    ASSUME Typed, Typed', EngineInv, ResolvedWithProof, [Next]_vars
    PROVE  ResolvedWithProof'
<1>1. ASSUME NEW f \in errors', f.by # NoRun
      PROVE  f.by # f.run /\ \E w \in run'[f.by].done : Supersedes(w, f.class, f.window)
  <2>1. f.by \in Runs
    BY <1>1 DEF Typed, TypeOK
  <2>2. CASE f \in errors
    BY <1>1, <2>1, <2>2, DoneGrows DEF ResolvedWithProof
  <2>3. ASSUME NEW s \in Slots, NEW e \in errors, slot[s].at = "resolve",
               Alike(e, f), f.class = e.class, f.by = slot[s].run, e.run # slot[s].run,
               NEW w \in slot[s].covered, Supersedes(w, e.class, e.window)
        PROVE  f.by # f.run /\ \E v \in run'[f.by].done : Supersedes(v, f.class, f.window)
    <3>1. w \in run[f.by].done
      BY <2>3 DEF EngineInv, SlotInv, CheckpointIsOwn, Row, Settling
    <3> QED BY <2>1, <2>3, <3>1, DoneGrows DEF Alike
  <2> QED BY <1>1, <2>2, <2>3, ErrorHistory
<1> QED BY <1>1 DEF ResolvedWithProof

\* A closed error was closed by another run, by a window that run checkpointed
\* and that supersedes it, whatever overlapped, died or failed around it.
THEOREM ClosedWithProof == Spec => []ResolvedWithProof
<1>1. Init => ResolvedWithProof
  BY DEF Init, ResolvedWithProof
<1>2. Typed /\ EngineInv /\ (Typed /\ EngineInv)' /\ ResolvedWithProof /\ [Next]_vars
         => ResolvedWithProof'
  BY ProofStep
<1> QED BY <1>1, <1>2, EngineInvariant, PTL DEF Spec

\* With one execution at a time, no error has seen the run at work.
ReadAfter ==
    \A s \in Slots : slot[s].at # "idle" =>
       \A e \in errors : e.run # slot[s].run =>
          \A w \in Windows : <<slot[s].run, w>> \notin e.seen

LEMMA ReadAfterStep ==
    ASSUME \A s, t \in Slots : s = t, Typed, Typed', EngineInv, SeenIsDone, ReadAfter, [Next]_vars
    PROVE  ReadAfter'
<1>1. ASSUME NEW s \in Slots, slot'[s].at # "idle", NEW f \in errors', f.run # slot'[s].run,
             NEW w \in Windows
      PROVE  <<slot'[s].run, w>> \notin f.seen
  <2>1. CASE slot[s].at # "idle" /\ slot'[s].run = slot[s].run
    <3>1. CASE \E e \in errors : f.run = e.run /\ f.seen = e.seen
      BY <1>1, <2>1, <3>1 DEF ReadAfter
    <3>2. CASE \E t \in Slots : f.run = slot[t].run
      BY <1>1, <2>1, <3>2
    <3> QED BY <3>1, <3>2, ErrorHistory DEF Alike
  <2>2. ASSUME NEW r \in Runs, ClaimRun(s, r), slot'[s].run = r
        PROVE  <<slot'[s].run, w>> \notin f.seen
    <3>1. run[r].done = {} /\ f \in errors
      BY <2>2 DEF ClaimRun, rows, EngineInv, RowInv, Blank
    <3> QED BY <2>2, <3>1 DEF SeenIsDone
  <2> QED BY <1>1, <2>1, <2>2, SlotHistory
<1> QED BY <1>1 DEF ReadAfter

LEMMA LaterReadStep ==
    ASSUME Typed, Typed', EngineInv, ReadAfter, ResolvedByLaterRead, [Next]_vars
    PROVE  ResolvedByLaterRead'
<1>1. ASSUME NEW f \in errors', f.by # NoRun
      PROVE  \E w \in run'[f.by].done : Supersedes(w, f.class, f.window) /\ <<f.by, w>> \notin f.seen
  <2>1. f.by \in Runs
    BY <1>1 DEF Typed, TypeOK
  <2>2. CASE f \in errors
    BY <1>1, <2>1, <2>2, DoneGrows DEF ResolvedByLaterRead
  <2>3. ASSUME NEW s \in Slots, NEW e \in errors, slot[s].at = "resolve",
               Alike(e, f), f.class = e.class, f.seen = e.seen, f.by = slot[s].run,
               e.run # slot[s].run,
               NEW w \in slot[s].covered, Supersedes(w, e.class, e.window)
        PROVE  \E v \in run'[f.by].done : Supersedes(v, f.class, f.window) /\ <<f.by, v>> \notin f.seen
    <3>1. w \in run[f.by].done /\ w \in Windows
      BY <2>3, RowOfSlot DEF EngineInv, SlotInv, CheckpointIsOwn, Row, Settling, Executions
    <3>2. <<f.by, w>> \notin f.seen
      BY <2>3, <3>1 DEF ReadAfter
    <3> QED BY <2>1, <2>3, <3>1, <3>2, DoneGrows DEF Alike
  <2> QED BY <1>1, <2>2, <2>3, ErrorHistory
<1> QED BY <1>1 DEF ResolvedByLaterRead

\* With one execution at a time, the window that closed an error was read after
\* the error was recorded: the proof is never older than the failure.
THEOREM ClosedByLaterRead ==
    ASSUME \A s, t \in Slots : s = t
    PROVE  Spec => []ResolvedByLaterRead
<1>1. Init => SeenIsDone /\ ReadAfter /\ ResolvedByLaterRead
  BY DEF Init, SeenIsDone, ReadAfter, ResolvedByLaterRead
<1>2. /\ Typed /\ EngineInv /\ (Typed /\ EngineInv)' /\ [Next]_vars
      /\ SeenIsDone /\ ReadAfter /\ ResolvedByLaterRead
      => (SeenIsDone /\ ReadAfter /\ ResolvedByLaterRead)'
  BY SeenStep, ReadAfterStep, LaterReadStep
<1> QED BY <1>1, <1>2, EngineInvariant, PTL DEF Spec

\* Where no statement fails, nothing is caught and success is for good.
NobodyCatches == \A s \in Slots : slot[s].at # "catch"

CreditIsDue == \A e \in errors : e.by # NoRun => run[e.by].status \in Succeeded

LEMMA NobodyCatchesStep ==
    ASSUME MaxFaults = 0, Typed, Typed', NobodyCatches, [Next]_vars
    PROVE  NobodyCatches'
<1>0. /\ slot \in [Slots -> Executions] /\ ~(faults < MaxFaults)
  BY DEF Typed, TypeOK, Executions
<1>1. ASSUME NEW s \in Slots, NEW t \in Slots, Execute(t) PROVE slot'[s].at # "catch"
  <2>1. CASE StartRun(t)
    BY <1>0, <2>1 DEF StartRun, Executions, NobodyCatches
  <2>2. CASE FetchWindow(t)
    BY <1>0, <2>2 DEF FetchWindow, Executions, NobodyCatches
  <2>3. CASE PersistWindow(t) \/ ResolveErrors(t) \/ SetCursor(t) \/ WriteFreshness(t)
    BY <1>0, <2>3 DEF PersistWindow, ResolveErrors, SetCursor, WriteFreshness, Executions,
                      NobodyCatches
  <2>4. CASE CheckpointWindow(t)
    BY <1>0, <2>4 DEF CheckpointWindow, Executions, NobodyCatches
  <2>5. CASE RecordFailure(t)
    BY <1>0, <2>5 DEF RecordFailure, Executions, NobodyCatches
  <2>6. CASE CompleteSyncRun(t)
    BY <1>0, <2>6 DEF CompleteSyncRun, Executions, NobodyCatches
  <2>7. CASE MarkConnection(t)
    BY <1>0, <2>7, Blanks DEF MarkConnection, Executions, NobodyCatches
  <2>8. CASE RequeueRun(t) \/ CatchRun(t) \/ Crash(t)
    BY <1>0, <2>8, Blanks DEF RequeueRun, CatchRun, Crash, NobodyCatches
  <2>9. CASE WindowThrows(t) \/ RunThrows(t)
    BY <1>0, <2>9 DEF WindowThrows, RunThrows
  <2> QED BY <1>1, <2>1, <2>2, <2>3, <2>4, <2>5, <2>6, <2>7, <2>8, <2>9 DEF Execute
<1>2. ASSUME NEW s \in Slots, NEW t \in Slots, NEW r \in Runs, ClaimRun(t, r)
      PROVE  slot'[s].at # "catch"
  <2>1. [IdleSlot EXCEPT !.at = "start", !.run = r].at = "start"
    BY Blanks DEF Executions
  <2> QED BY <1>0, <1>2, <2>1 DEF ClaimRun, NobodyCatches
<1>3. CASE UNCHANGED slot
  BY <1>3 DEF NobodyCatches
<1> QED BY <1>1, <1>2, <1>3 DEF Next, NextDay, Plan, EnqueueScheduled, EnqueueBackfill,
                                EnqueueExplicit, Enqueue, vars, NobodyCatches

LEMMA CreditStep ==
    ASSUME NobodyCatches, Typed, Typed', EngineInv, CreditIsDue, [Next]_vars
    PROVE  CreditIsDue'
<1>1. ASSUME NEW r \in Runs, run[r].status \in Succeeded PROVE run'[r].status \in Succeeded
  <2>1. ASSUME NEW s \in Slots, slot[s].run = r, slot[s].at \in {"loop", "requeue", "catch"}
        PROVE  FALSE
    BY <1>1, <2>1 DEF NobodyCatches, EngineInv, SlotInv, PhaseMatchesRow, Row, Trying, Settling,
                      Succeeded
  <2> QED BY <1>1, <2>1, RowHistory DEF Succeeded
<1>2. ASSUME NEW f \in errors', f.by # NoRun PROVE run'[f.by].status \in Succeeded
  <2>1. f.by \in Runs
    BY <1>2 DEF Typed, TypeOK
  <2>2. CASE f \in errors
    BY <1>1, <1>2, <2>1, <2>2 DEF CreditIsDue
  <2>3. ASSUME NEW s \in Slots, slot[s].at = "resolve", f.by = slot[s].run
        PROVE  run'[f.by].status \in Succeeded
    <3>1. run[f.by].status = Outcome(s) /\ Outcome(s) # "failed"
      BY <2>3 DEF EngineInv, SlotInv, PhaseMatchesRow, Row, Settling
    <3>2. run[f.by].status \in Succeeded
      BY <3>1 DEF Outcome, RunStatus, Succeeded
    <3> QED BY <1>1, <2>1, <3>2
  <2> QED BY <1>2, <2>2, <2>3, ErrorHistory
<1> QED BY <1>2 DEF CreditIsDue

\* As long as no statement fails, the run credited with closing an error is on
\* record as a success, overlapping executions and dying workers included.
THEOREM CreditedRunsSucceed ==
    ASSUME MaxFaults = 0
    PROVE  Spec => []CreditedRunSucceeded
<1>1. Init => NobodyCatches /\ CreditIsDue
  BY Blanks DEF Init, NobodyCatches, CreditIsDue
<1>2. Typed /\ EngineInv /\ (Typed /\ EngineInv)' /\ [Next]_vars /\ NobodyCatches /\ CreditIsDue
         => (NobodyCatches /\ CreditIsDue)'
  BY NobodyCatchesStep, CreditStep
<1>3. CreditIsDue => CreditedRunSucceeded
  BY DEF CreditIsDue, CreditedRunSucceeded, Succeeded
<1> QED BY <1>1, <1>2, <1>3, EngineInvariant, PTL DEF Spec

-----------------------------------------------------------------------------
\* Dates and planning.

LEMMA OnlyOwnSlot ==
    ASSUME Typed, NEW s \in Slots, Execute(s) \/ \E r \in Runs : ClaimRun(s, r)
    PROVE  \A t \in Slots : t # s => slot'[t] = slot[t]
BY DEF Typed, TypeOK, Execute, ClaimRun, StartRun, FetchWindow, PersistWindow, CheckpointWindow,
       WindowThrows, RecordFailure, CompleteSyncRun, ResolveErrors, SetCursor, WriteFreshness,
       MarkConnection, RequeueRun, RunThrows, CatchRun, Crash

\* The days an execution has in hand: read, and stored by its next statement.
Fetched(s) ==
    IF slot[s].at = "persist" /\ supported THEN DaysOf(Earliest(slot[s].left)) ELSE {}

\* What an execution of a supported stream stores, statement by statement, and
\* what it notes as its newest date, where no statement fails.
LEMMA DateHistory ==
    ASSUME MaxFaults = 0, Typed, NEW s \in Slots, Execute(s) \/ \E r \in Runs : ClaimRun(s, r)
    PROVE  /\ UNCHANGED supported
           /\ stored' = stored \cup (IF PersistWindow(s) THEN Fetched(s) ELSE {})
           /\ \/ slot'[s].latest = NoDay
              \/ /\ slot[s].at # "persist" \/ PersistWindow(s)
                 /\ slot'[s].at # "persist" /\ slot'[s].latest = slot[s].latest
              \/ /\ slot[s].at = "loop" /\ slot[s].left # {} /\ slot'[s].at = "persist"
                 /\ slot'[s].left = slot[s].left /\ slot'[s].run = slot[s].run
                 /\ slot'[s].bad = slot[s].bad
                 /\ \E d \in IF supported THEN {NoDay} \cup DaysOf(Earliest(slot[s].left)) ELSE {NoDay} :
                       slot'[s].latest = Later(slot[s].latest, d)
<1> DEFINE goal ==
        /\ UNCHANGED supported
        /\ stored' = stored \cup (IF PersistWindow(s) THEN Fetched(s) ELSE {})
        /\ \/ slot'[s].latest = NoDay
           \/ /\ slot[s].at # "persist" \/ PersistWindow(s)
              /\ slot'[s].at # "persist" /\ slot'[s].latest = slot[s].latest
           \/ /\ slot[s].at = "loop" /\ slot[s].left # {} /\ slot'[s].at = "persist"
              /\ slot'[s].left = slot[s].left /\ slot'[s].run = slot[s].run
              /\ slot'[s].bad = slot[s].bad
              /\ \E d \in IF supported THEN {NoDay} \cup DaysOf(Earliest(slot[s].left)) ELSE {NoDay} :
                    slot'[s].latest = Later(slot[s].latest, d)
<1>0. slot \in [Slots -> Executions] /\ ~(faults < MaxFaults)
  BY DEF Typed, TypeOK, Executions
<1>1. ASSUME NEW r \in Runs, ClaimRun(s, r) PROVE goal
  <2>1. [IdleSlot EXCEPT !.at = "start", !.run = r].latest = NoDay
    BY Blanks DEF Executions
  <2> QED BY <1>0, <1>1, <2>1 DEF ClaimRun, rows, PersistWindow
<1>2. ASSUME StartRun(s) PROVE goal
  <2>1. slot'[s].latest = slot[s].latest /\ slot[s].latest = NoDay
    BY <1>0, <1>2 DEF StartRun, Executions, Typed, AtWork
  <2> QED BY <1>2, <2>1 DEF StartRun, PersistWindow
<1>3. ASSUME FetchWindow(s) PROVE goal
  <2> DEFINE w == Earliest(slot[s].left)
             days == IF supported THEN {NoDay} \cup DaysOf(w) ELSE {NoDay}
  <2>1. /\ slot[s].at = "loop" /\ slot[s].left # {} /\ ~PersistWindow(s)
        /\ UNCHANGED <<supported, stored>>
        /\ \/ slot' = [slot EXCEPT ![s].left = @ \ {w}, ![s].some = TRUE]
           \/ \E d \in days : slot' = [slot EXCEPT ![s].at = "persist", ![s].latest = Later(@, d)]
           \/ \E k \in Failures : slot' = [slot EXCEPT ![s].at = "record", ![s].why = k]
    BY <1>3 DEF FetchWindow, rows, PersistWindow
  <2> HIDE DEF w, days
  <2>2. CASE slot' = [slot EXCEPT ![s].left = @ \ {w}, ![s].some = TRUE]
    BY <1>0, <2>1, <2>2 DEF Executions
  <2>3. ASSUME NEW d \in days,
               slot' = [slot EXCEPT ![s].at = "persist", ![s].latest = Later(@, d)]
        PROVE  goal
    <3>1. /\ slot'[s].at = "persist" /\ slot'[s].left = slot[s].left
          /\ slot'[s].run = slot[s].run /\ slot'[s].bad = slot[s].bad
          /\ slot'[s].latest = Later(slot[s].latest, d)
      BY <1>0, <2>3 DEF Executions
    <3> QED BY <2>1, <3>1 DEF days, w
  <2>4. CASE \E k \in Failures : slot' = [slot EXCEPT ![s].at = "record", ![s].why = k]
    BY <1>0, <2>1, <2>4 DEF Executions
  <2> QED BY <2>1, <2>2, <2>3, <2>4
<1>4. ASSUME PersistWindow(s) PROVE goal
  <2>1. slot'[s].latest = slot[s].latest /\ slot'[s].at = "checkpoint"
    BY <1>0, <1>4 DEF PersistWindow, Executions
  <2> QED BY <1>4, <2>1 DEF PersistWindow, Fetched
<1>5. ASSUME CheckpointWindow(s) PROVE goal
  BY <1>0, <1>5 DEF CheckpointWindow, rows, Executions, PersistWindow
<1>6. ASSUME RecordFailure(s) PROVE goal
  BY <1>0, <1>6 DEF RecordFailure, Executions, PersistWindow
<1>7. ASSUME CompleteSyncRun(s) PROVE goal
  BY <1>0, <1>7 DEF CompleteSyncRun, rows, Executions, PersistWindow
<1>8. ASSUME ResolveErrors(s) \/ SetCursor(s) \/ WriteFreshness(s) PROVE goal
  BY <1>0, <1>8 DEF ResolveErrors, SetCursor, WriteFreshness, Executions, PersistWindow
<1>9. ASSUME MarkConnection(s) PROVE goal
  <2>1. slot'[s].latest \in {slot[s].latest, NoDay} /\ slot'[s].at # "persist"
    BY <1>0, <1>9, Blanks DEF MarkConnection, Executions
  <2> QED BY <1>9, <2>1 DEF MarkConnection, PersistWindow
<1>10. ASSUME RequeueRun(s) \/ CatchRun(s) \/ Crash(s) PROVE goal
  <2>1. slot'[s].latest = NoDay
    BY <1>0, <1>10, Blanks DEF RequeueRun, CatchRun, Crash
  <2>2. UNCHANGED <<supported, stored>> /\ slot'[s].at # "checkpoint"
    BY <1>0, <1>10, Blanks DEF RequeueRun, CatchRun, Crash, rows
  <2>3. ~PersistWindow(s)
    <3>1. PersistWindow(s) => slot'[s].at = "checkpoint"
      BY <1>0 DEF PersistWindow, Executions
    <3> QED BY <2>2, <3>1
  <2> QED BY <2>1, <2>2, <2>3
<1>11. ~WindowThrows(s) /\ ~RunThrows(s)
  BY <1>0 DEF WindowThrows, RunThrows
<1> HIDE DEF goal
<1>12. goal
  BY <1>1, <1>2, <1>3, <1>4, <1>5, <1>6, <1>7, <1>8, <1>9, <1>10, <1>11 DEF Execute
<1> QED BY <1>12 DEF goal

\* The newest date an execution has noted is stored, or will be by its next
\* statement.
NotedIsStored(s) ==
    slot[s].latest # NoDay => supported /\ slot[s].latest \in stored \cup Fetched(s)

DatesInv == DatesAreStored /\ \A s \in Slots : NotedIsStored(s)

LEMMA DatesStep ==
    ASSUME MaxFaults = 0, Typed, Typed', DatesInv, [Next]_vars
    PROVE  DatesInv'
<1>1. CASE UNCHANGED <<supported, stored, cursor, fresh, slot>>
  BY <1>1 DEF DatesInv, DatesAreStored, CursorIsStored, NotedIsStored, Fetched
<1>2. ASSUME NEW s \in Slots, Execute(s) \/ \E r \in Runs : ClaimRun(s, r) PROVE DatesInv'
  <2>1. /\ UNCHANGED supported
        /\ stored' = stored \cup (IF PersistWindow(s) THEN Fetched(s) ELSE {})
    BY <1>2, DateHistory
  <2>2. \A t \in Slots : t # s => NotedIsStored(t)'
    <3>1. \A t \in Slots : t # s => slot'[t] = slot[t]
      BY <1>2, OnlyOwnSlot
    <3> QED BY <2>1, <3>1 DEF DatesInv, NotedIsStored, Fetched
  <2>3. NotedIsStored(s)'
    <3>1. CASE slot'[s].latest = NoDay
      BY <3>1 DEF NotedIsStored
    <3>2. CASE /\ slot[s].at # "persist" \/ PersistWindow(s)
               /\ slot'[s].at # "persist" /\ slot'[s].latest = slot[s].latest
      BY <2>1, <3>2 DEF DatesInv, NotedIsStored, Fetched
    <3>3. CASE /\ slot[s].at = "loop" /\ slot'[s].at = "persist"
               /\ slot'[s].left = slot[s].left
               /\ \E d \in IF supported THEN {NoDay} \cup DaysOf(Earliest(slot[s].left)) ELSE {NoDay} :
                     slot'[s].latest = Later(slot[s].latest, d)
      <4>1. slot[s].latest # NoDay => supported /\ slot[s].latest \in stored
        BY <3>3 DEF DatesInv, NotedIsStored, Fetched
      <4>2. PICK d \in IF supported THEN {NoDay} \cup DaysOf(Earliest(slot[s].left)) ELSE {NoDay} :
                     slot'[s].latest = Later(slot[s].latest, d)
        BY <3>3
      <4>3. slot'[s].latest \in {slot[s].latest, d}
        BY <4>2 DEF Later
      <4>4. slot'[s].latest = d /\ d # NoDay => supported /\ d \in Fetched(s)'
        BY <2>1, <3>3, <4>2 DEF Fetched
      <4> QED BY <2>1, <4>1, <4>3, <4>4 DEF NotedIsStored
    <3> QED BY <1>2, <3>1, <3>2, <3>3, DateHistory
  <2>4. DatesAreStored'
    <3>1. \/ UNCHANGED <<cursor, fresh>>
          \/ SetCursor(s) \/ WriteFreshness(s) \/ StartRun(s)
      BY <1>2 DEF Execute, ClaimRun, rows, FetchWindow, PersistWindow, CheckpointWindow,
                  WindowThrows, RecordFailure, CompleteSyncRun, ResolveErrors, MarkConnection,
                  RequeueRun, RunThrows, CatchRun, Crash
    <3>2. CASE UNCHANGED <<cursor, fresh>>
      BY <2>1, <3>2 DEF DatesInv, DatesAreStored, CursorIsStored
    <3>3. CASE SetCursor(s)
      <4>1. slot[s].latest # NoDay => slot[s].latest \in stored
        BY <3>3 DEF SetCursor, DatesInv, NotedIsStored, Fetched
      <4> QED BY <2>1, <3>3, <4>1 DEF SetCursor, DatesInv, DatesAreStored, CursorIsStored
    <3>4. CASE WriteFreshness(s)
      <4>1. slot[s].latest # NoDay => slot[s].latest \in stored
        BY <3>4 DEF WriteFreshness, DatesInv, NotedIsStored, Fetched
      <4>2. fresh'.latest \in {fresh.latest, slot[s].latest} /\ UNCHANGED cursor
        BY <3>4 DEF WriteFreshness, Later
      <4> QED BY <2>1, <4>1, <4>2 DEF DatesInv, DatesAreStored, CursorIsStored
    <3>5. CASE StartRun(s)
      <4>1. fresh'.latest = fresh.latest /\ UNCHANGED cursor
        BY <3>5 DEF StartRun, Typed, FreshRows
      <4> QED BY <2>1, <4>1 DEF DatesInv, DatesAreStored, CursorIsStored
    <3> QED BY <3>1, <3>2, <3>3, <3>4, <3>5
  <2> QED BY <2>2, <2>3, <2>4 DEF DatesInv
<1> QED BY <1>1, <1>2 DEF Next, NextDay, Plan, EnqueueScheduled, EnqueueBackfill,
                          EnqueueExplicit, Enqueue, rows, vars

\* As long as no statement fails, neither the cursor nor the date the freshness
\* row shows names a day whose window was not stored: the date noted before the
\* rows are written is published only by an execution that wrote them.
THEOREM DatesStayStored ==
    ASSUME MaxFaults = 0
    PROVE  Spec => []DatesAreStored
<1>1. Init => DatesInv
  BY Blanks DEF Init, DatesInv, DatesAreStored, CursorIsStored, NotedIsStored, NoDay
<1>2. Typed /\ EngineInv /\ (Typed /\ EngineInv)' /\ [Next]_vars /\ DatesInv => DatesInv'
  BY DatesStep
<1>3. DatesInv => DatesAreStored
  BY DEF DatesInv
<1> QED BY <1>1, <1>2, <1>3, EngineInvariant, PTL DEF Spec

\* A schedule without requests of its own, where no statement fails, every
\* failure ends the loop, and the calendar is not longer than the backfill.
Stopping ==
    /\ MaxFaults = 0 /\ ~Explicit /\ LastDay <= BackfillDays
    /\ \A k \in Failures : Fatal(k)

\* Storage has no hole below the cursor, below a row's window, nor, in an
\* execution, below the newest date it noted.
Past == cursor # NoDay => supported /\ 1 .. cursor \subseteq stored

PlannedAfterPast(r) == 1 .. (run[r].window.from - 1) \subseteq stored /\ run[r].window.to <= today

FailedInTime == \A e \in errors : e.window.to <= today

Within(s) ==
    slot[s].at # "idle" =>
       \A c \in slot[s].left : Row(s).window.from <= c.from /\ c.to <= Row(s).window.to

\* While nothing failed, a day of the window is stored or still to be read.
NothingSkipped(s) ==
    slot[s].at \in {"loop", "persist", "checkpoint"} /\ supported /\ ~slot[s].bad =>
       \A d \in DaysOf(Row(s).window) : d \in stored \/ \E c \in slot[s].left : d \in DaysOf(c)

Reached(s) ==
    /\ slot[s].latest # NoDay => supported /\ 1 .. slot[s].latest \subseteq stored \cup Fetched(s)
    /\ slot[s].at = "checkpoint" /\ supported => DaysOf(Earliest(slot[s].left)) \subseteq stored
    /\ slot[s].bad => slot[s].left = {}
    /\ slot[s].at = "record" /\ ~slot[s].refused => Fatal(slot[s].why)

PlanInv ==
    /\ Past /\ FailedInTime
    /\ \A r \in Runs : PlannedAfterPast(r)
    /\ \A s \in Slots : Within(s) /\ NothingSkipped(s) /\ Reached(s)

LEMMA NextWindow ==
    ASSUME Stopping, Typed, Past
    PROVE  LET w == IncrementalWindow(cursor, today, LookbackDays, BackfillDays)
               b == BackfillWindow(today, BackfillDays)
           IN  /\ 1 .. (w.from - 1) \subseteq stored /\ w.to <= today
               /\ 1 .. (b.from - 1) \subseteq stored /\ b.to <= today
               /\ \A d \in 1 .. today : d \in stored \/ d \in DaysOf(w)
<1> DEFINE w == IncrementalWindow(cursor, today, LookbackDays, BackfillDays)
           b == BackfillWindow(today, BackfillDays)
<1>1. /\ today \in Days /\ cursor \in Days \cup {NoDay} /\ LastDay <= BackfillDays
      /\ LookbackDays \in Nat /\ BackfillDays \in Nat /\ LastDay \in Nat
  BY EngineAssumption DEF Typed, TypeOK, Stopping, EngineAssumption
<1>2. b.from = 1 /\ b.to = today
  BY <1>1 DEF BackfillWindow, Window, Later, Days
<1>3. CASE cursor = NoDay
  <2>1. w = b
    BY <1>3 DEF IncrementalWindow
  <2>2. 1 .. (1 - 1) = {} /\ today <= today
    BY <1>1 DEF Days
  <2>3. \A d \in 1 .. today : d \in DaysOf(b)
    BY <1>2 DEF DaysOf
  <2> QED BY <1>2, <2>1, <2>2, <2>3
<1>4. CASE cursor # NoDay
  <2>1. /\ w.to = today /\ w.from \in Nat /\ w.from - 1 <= cursor /\ w.from <= cursor + 1
        /\ cursor \in Nat /\ today \in Nat
    BY <1>1, <1>4 DEF IncrementalWindow, Window, Later, Lesser, Days, NoDay
  <2>2. 1 .. cursor \subseteq stored
    BY <1>4 DEF Past
  <2> HIDE DEF w, b
  <2>3. 1 .. (w.from - 1) \subseteq 1 .. cursor
    BY <2>1
  <2>4. \A d \in 1 .. today : d \in 1 .. cursor \/ d \in w.from .. w.to
    BY <2>1
  <2>5. 1 .. (1 - 1) = {} /\ today <= today
    BY <1>1 DEF Days
  <2>6. /\ 1 .. (w.from - 1) \subseteq stored /\ w.to <= today
        /\ 1 .. (b.from - 1) \subseteq stored /\ b.to <= today
    BY <1>2, <2>1, <2>2, <2>3, <2>5
  <2>7. \A d \in 1 .. today : d \in stored \/ d \in DaysOf(w)
    BY <2>2, <2>4 DEF DaysOf
  <2> QED BY <2>6, <2>7 DEF w, b
<1> QED BY <1>3, <1>4

LEMMA WindowKept ==
    ASSUME Typed, [Next]_vars, NEW r \in Runs, run[r].status # "absent"
    PROVE  run'[r].window = run[r].window
BY RowHistory

\* Planning and the passing of a day.
LEMMA PlanInvPlan ==
    ASSUME Stopping, Typed, Typed', PlanInv, Plan \/ NextDay
    PROVE  PlanInv'
<1>1. UNCHANGED <<supported, stored, errors, cursor, slot>>
  BY DEF Plan, EnqueueScheduled, EnqueueBackfill, EnqueueExplicit, Enqueue, NextDay, rows
<1>2. today \in Nat /\ today' \in Nat /\ today <= today'
  <2>1. today' = today \/ today' = today + 1
    BY DEF Plan, EnqueueScheduled, EnqueueBackfill, EnqueueExplicit, Enqueue, NextDay
  <2>2. today \in Nat
    BY EngineAssumption DEF Typed, TypeOK, Days, EngineAssumption
  <2> QED BY <2>1, <2>2
<1>3. \A s \in Slots : slot[s].at # "idle" => slot[s].run \in Runs /\ Row(s).status # "absent"
  BY RowOfSlot DEF Typed
<1>4. \A r \in Runs : run[r].status # "absent" => run'[r].window = run[r].window
  BY WindowKept DEF Next
<1>5. \A s \in Slots : Within(s)' /\ NothingSkipped(s)' /\ Reached(s)'
  <2> SUFFICES ASSUME NEW s \in Slots PROVE Within(s)' /\ NothingSkipped(s)' /\ Reached(s)'
    OBVIOUS
  <2>1. Within(s) /\ NothingSkipped(s) /\ Reached(s)
    BY DEF PlanInv
  <2>2. slot[s].at # "idle" => Row(s)'.window = Row(s).window
    BY <1>1, <1>3, <1>4 DEF Row
  <2>3. Within(s)' /\ NothingSkipped(s)'
    BY <1>1, <2>1, <2>2 DEF Within, NothingSkipped
  <2>4. Reached(s)'
    BY <1>1, <2>1 DEF Reached, Fetched
  <2> QED BY <2>3, <2>4
<1>6. \A r \in Runs : PlannedAfterPast(r)'
  <2>1. ASSUME NEW r \in Runs, run'[r].window = run[r].window PROVE PlannedAfterPast(r)'
    <3>1. run[r].window.to \in Nat
      BY EngineAssumption DEF Typed, TypeOK, Windows, Days, EngineAssumption
    <3> QED BY <1>1, <1>2, <2>1, <3>1 DEF PlanInv, PlannedAfterPast
  <2>2. CASE NextDay
    BY <2>1, <2>2 DEF NextDay
  <2>3. CASE Plan
    <3>1. PICK w : /\ Enqueue(w)
                   /\ 1 .. (w.from - 1) \subseteq stored /\ w.to <= today
      BY <2>3, NextWindow DEF Plan, EnqueueScheduled, EnqueueBackfill, EnqueueExplicit, Stopping,
                              PlanInv
    <3>2. PICK r \in Runs :
             run' = [run EXCEPT ![r] = [NewRun EXCEPT !.status = "queued", !.window = w,
                                                      !.attempt = 1]]
      BY <3>1 DEF Enqueue
    <3>3. run'[r].window = w /\ \A q \in Runs : q # r => run'[q] = run[q]
      BY <3>2, Blanks DEF Typed, TypeOK, RunRows
    <3>4. UNCHANGED today
      BY <3>1 DEF Enqueue
    <3> QED BY <1>1, <2>1, <3>1, <3>3, <3>4 DEF PlannedAfterPast
  <2> QED BY <2>2, <2>3
<1>7. FailedInTime'
  <2>1. \A e \in errors : e.window.to \in Nat
    BY EngineAssumption DEF Typed, TypeOK, Windows, Days, EngineAssumption
  <2> QED BY <1>1, <1>2, <2>1 DEF PlanInv, FailedInTime
<1> QED BY <1>1, <1>5, <1>6, <1>7 DEF PlanInv, Past

\* An execution never changes a window.
LEMMA WindowsKept ==
    ASSUME Typed, NEW s \in Slots, Execute(s) \/ \E r \in Runs : ClaimRun(s, r)
    PROVE  \A r \in Runs : run'[r].window = run[r].window
<1>0. run \in [Runs -> RunRows]
  BY DEF Typed, TypeOK, RunRows
<1>1. ASSUME NEW r \in Runs, ClaimRun(s, r) PROVE \A q \in Runs : run'[q].window = run[q].window
  BY <1>0, <1>1 DEF ClaimRun, RunRows
<1>2. CASE CheckpointWindow(s)
  BY <1>0, <1>2 DEF CheckpointWindow, RunRows
<1>3. CASE CompleteSyncRun(s)
  BY <1>0, <1>3 DEF CompleteSyncRun, RunRows
<1>4. CASE RequeueRun(s)
  BY <1>0, <1>4 DEF RequeueRun, RunRows
<1>5. CASE CatchRun(s)
  BY <1>0, <1>5 DEF CatchRun, RunRows
<1>6. Execute(s) => \/ CheckpointWindow(s) \/ CompleteSyncRun(s) \/ RequeueRun(s) \/ CatchRun(s)
                    \/ UNCHANGED run
  BY DEF Execute, StartRun, FetchWindow, PersistWindow, WindowThrows, RecordFailure,
         ResolveErrors, SetCursor, WriteFreshness, MarkConnection, RunThrows, Crash
<1> QED BY <1>1, <1>2, <1>3, <1>4, <1>5, <1>6

\* Past the loop an execution only carries its newest date along.
LEMMA Carries ==
    ASSUME NEW s \in Slots, Within(s), Reached(s), UNCHANGED supported, stored \subseteq stored',
           slot[s].at \notin {"idle", "persist"},
           slot'[s].at \notin {"loop", "persist", "checkpoint", "record"},
           slot'[s].left = slot[s].left, slot'[s].bad = slot[s].bad,
           slot'[s].run = slot[s].run, slot'[s].latest = slot[s].latest,
           run'[slot[s].run].window = Row(s).window
    PROVE  Within(s)' /\ NothingSkipped(s)' /\ Reached(s)'
<1>1. Within(s)' /\ NothingSkipped(s)'
  BY DEF Within, NothingSkipped, Row
<1>2. Reached(s)'
  BY DEF Reached, Fetched
<1> QED BY <1>1, <1>2

\* An execution of a run with no failure it could skip past reads on from where
\* storage ends.
LEMMA ReadsOn ==
    ASSUME Stopping, Typed, Typed', EngineInv, PlanInv,
           NEW s \in Slots, Execute(s) \/ \E r \in Runs : ClaimRun(s, r)
    PROVE  Within(s)' /\ NothingSkipped(s)' /\ Reached(s)'
<1> DEFINE me == slot[s]
           you == slot'[s]
           goal == Within(s)' /\ NothingSkipped(s)' /\ Reached(s)'
<1>0. /\ me \in Executions /\ AtWork(me) /\ SlotInv(s)
      /\ Within(s) /\ NothingSkipped(s) /\ Reached(s)
      /\ me.at # "idle" => me.run \in Runs /\ Row(s) \in RunRows
  BY RowOfSlot DEF EngineInv, PlanInv
<1>1. slot \in [Slots -> Executions] /\ ~(faults < MaxFaults) /\ supported \in BOOLEAN
  BY DEF Typed, TypeOK, Executions, Stopping
<1>2. /\ UNCHANGED supported /\ stored \subseteq stored'
  <2>1. MaxFaults = 0
    BY DEF Stopping
  <2> QED BY <2>1, DateHistory
<1>3. \A r \in Runs : run'[r].window = run[r].window
  BY WindowsKept
<1>4. me.left # {} => /\ Earliest(me.left) \in me.left /\ Earliest(me.left) \in Windows
                      /\ \A v \in me.left : Earliest(me.left).from <= v.from
  BY <1>0, EarliestIsFirst DEF Executions
<1>5. ASSUME you.at = "idle", you.latest = NoDay, ~you.bad PROVE goal
  BY <1>5 DEF Within, NothingSkipped, Reached
<1>6. ASSUME NEW r \in Runs, ClaimRun(s, r) PROVE goal
  <2>1. you.at = "start" /\ you.latest = NoDay /\ ~you.bad /\ you.left = {}
    BY <1>1, <1>6, Blanks DEF ClaimRun, Executions
  <2> QED BY <2>1 DEF Within, NothingSkipped, Reached
<1>7. ASSUME StartRun(s) PROVE goal
  <2> DEFINE chunks == Chunks(Row(s).window.from, Row(s).window.to, ChunkDays)
  <2>1. me.at = "start" /\ me.left = {} /\ me.latest = NoDay /\ ~me.bad /\ UNCHANGED run
    BY <1>0, <1>7 DEF StartRun, AtWork
  <2>2. CASE slot' = [slot EXCEPT ![s].at = "loop", ![s].left = chunks]
    <3>1. you.at = "loop" /\ you.left = chunks /\ you.latest = NoDay /\ ~you.bad /\ you.run = me.run
      BY <1>1, <2>1, <2>2 DEF Executions
    <3>2. Row(s)' = Row(s) /\ Row(s).window \in Windows
      BY <1>0, <2>1, <3>1 DEF Row, RunRows
    <3>3. \A c \in chunks : Row(s).window.from <= c.from /\ c.to <= Row(s).window.to
      BY <3>2, ChunksAreWindows
    <3>4. \A d \in DaysOf(Row(s).window) : \E c \in chunks : d \in DaysOf(c)
      BY <3>2, ChunksCover
    <3> HIDE DEF chunks
    <3> QED BY <3>1, <3>2, <3>3, <3>4 DEF Within, NothingSkipped, Reached
  <2>3. ASSUME NEW k, slot' = [slot EXCEPT ![s].at = "record", ![s].why = k, ![s].refused = TRUE]
        PROVE  goal
    <3>1. /\ you.at = "record" /\ you.left = {} /\ you.latest = NoDay /\ ~you.bad
          /\ you.refused
      BY <1>1, <2>1, <2>3 DEF Executions
    <3> QED BY <3>1 DEF Within, NothingSkipped, Reached
  <2> QED BY <1>7, <2>2, <2>3 DEF StartRun
<1>8. ASSUME FetchWindow(s) PROVE goal
  <2> DEFINE w == Earliest(me.left)
             days == IF supported THEN {NoDay} \cup DaysOf(w) ELSE {NoDay}
  <2>1. me.at = "loop" /\ me.left # {} /\ UNCHANGED <<run, stored>>
    BY <1>8 DEF FetchWindow, rows
  <2>2. w \notin Row(s).done /\ ~me.bad
    BY <1>0, <1>4, <2>1 DEF SlotInv, CheckpointIsOwn, Trying, Reached
  <2>3. ASSUME NEW d \in days,
               slot' = [slot EXCEPT ![s].at = "persist", ![s].latest = Later(@, d)]
        PROVE  goal
    <3>1. /\ you.at = "persist" /\ you.left = me.left /\ you.bad = me.bad
          /\ you.run = me.run /\ you.latest = Later(me.latest, d)
      BY <1>1, <2>3 DEF Executions
    <3>2. Row(s)' = Row(s)
      BY <2>1, <3>1 DEF Row
    <3>3. Within(s)' /\ NothingSkipped(s)'
      BY <1>0, <1>2, <2>1, <3>1, <3>2 DEF Within, NothingSkipped
    <3>4. you.latest # NoDay => supported /\ 1 .. you.latest \subseteq stored \cup DaysOf(w)
      <4>1. me.latest # NoDay => supported /\ 1 .. me.latest \subseteq stored
        BY <1>0, <2>1 DEF Reached, Fetched
      <4>2. CASE you.latest = me.latest
        BY <4>1, <4>2
      <4>3. CASE you.latest = d /\ d # NoDay
        <5>1. supported /\ d \in DaysOf(w)
          BY <4>3 DEF days
        <5>2. ASSUME NEW x \in 1 .. d PROVE x \in stored \cup DaysOf(w)
          <6>1. /\ w \in Windows /\ d \in Nat /\ x \in Nat /\ x <= d /\ w.from <= d /\ d <= w.to
                /\ 1 <= x /\ Row(s).window \in Windows
            BY <1>0, <1>4, <2>1, <5>1, <5>2, EngineAssumption
            DEF Windows, Days, DaysOf, RunRows, EngineAssumption
          <6>2. Row(s).window.from \in Nat /\ Row(s).window.to \in Nat /\ w.from \in Nat /\ w.to \in Nat
            BY <6>1, EngineAssumption DEF Windows, Days, EngineAssumption
          <6>3. CASE x < Row(s).window.from
            <7>1. x \in 1 .. (Row(s).window.from - 1)
              BY <6>1, <6>2, <6>3
            <7>2. 1 .. (Row(s).window.from - 1) \subseteq stored
              BY <1>0, <2>1 DEF PlanInv, PlannedAfterPast, Row
            <7> QED BY <7>1, <7>2
          <6>4. CASE ~(x < Row(s).window.from)
            <7>1. w.to <= Row(s).window.to
              BY <1>0, <1>4, <2>1 DEF Within
            <7>2. x \in DaysOf(Row(s).window)
              BY <6>1, <6>2, <6>4, <7>1 DEF DaysOf
            <7>3. x \in stored \/ \E c \in me.left : x \in DaysOf(c)
              BY <1>0, <2>1, <2>2, <5>1, <7>2 DEF NothingSkipped
            <7>4. ASSUME NEW c \in me.left, x \in DaysOf(c) PROVE x \in DaysOf(w)
              <8>1. w.from <= c.from /\ c \in Windows
                BY <1>0, <1>4, <2>1 DEF Executions
              <8>2. c.from \in Nat /\ c.to \in Nat
                BY <8>1, EngineAssumption DEF Windows, Days, EngineAssumption
              <8> QED BY <6>1, <6>2, <7>4, <8>1, <8>2 DEF DaysOf
            <7> QED BY <7>3, <7>4
          <6> QED BY <6>3, <6>4
        <5> QED BY <4>3, <5>1, <5>2
      <4> QED BY <3>1, <4>2, <4>3 DEF Later
    <3>5. Reached(s)'
      BY <1>2, <2>1, <2>2, <3>1, <3>4 DEF Reached, Fetched
    <3> QED BY <3>3, <3>5
  <2>4. ASSUME NEW k \in Failures, slot' = [slot EXCEPT ![s].at = "record", ![s].why = k]
        PROVE  goal
    <3>1. /\ you.at = "record" /\ you.left = me.left /\ you.bad = me.bad /\ you.why = k
          /\ you.run = me.run /\ you.latest = me.latest
      BY <1>1, <2>4 DEF Executions
    <3>2. Row(s)' = Row(s) /\ Fatal(k)
      BY <2>1, <3>1 DEF Row, Stopping
    <3>3. Within(s)' /\ NothingSkipped(s)'
      BY <1>0, <2>1, <3>1, <3>2 DEF Within, NothingSkipped
    <3>4. Reached(s)'
      BY <1>0, <1>2, <2>1, <2>2, <3>1, <3>2 DEF Reached, Fetched
    <3> QED BY <3>3, <3>4
  <2> HIDE DEF goal
  <2> QED BY <1>8, <2>2, <2>3, <2>4 DEF FetchWindow
<1>9. ASSUME PersistWindow(s) PROVE goal
  <2>1. /\ me.at = "persist" /\ UNCHANGED run /\ slot' = [slot EXCEPT ![s].at = "checkpoint"]
        /\ stored' = IF supported THEN stored \cup DaysOf(Earliest(me.left)) ELSE stored
    BY <1>9 DEF PersistWindow
  <2>2. /\ you.at = "checkpoint" /\ you.left = me.left /\ you.bad = me.bad
        /\ you.run = me.run /\ you.latest = me.latest
    BY <1>1, <2>1 DEF Executions
  <2>3. Row(s)' = Row(s)
    BY <2>1, <2>2 DEF Row
  <2>4. Within(s)' /\ NothingSkipped(s)'
    BY <1>0, <1>2, <2>1, <2>2, <2>3 DEF Within, NothingSkipped
  <2>5. Reached(s)'
    BY <1>0, <1>2, <2>1, <2>2 DEF Reached, Fetched
  <2> QED BY <2>4, <2>5
<1>10. ASSUME CheckpointWindow(s) PROVE goal
  <2> DEFINE w == Earliest(me.left)
  <2>1. /\ me.at = "checkpoint" /\ UNCHANGED stored
        /\ slot' = [slot EXCEPT ![s].at = "loop", ![s].left = @ \ {w},
                       ![s].covered = @ \cup {w}, ![s].some = TRUE]
    BY <1>10 DEF CheckpointWindow, rows
  <2> HIDE DEF w
  <2>2. /\ you.at = "loop" /\ you.left = me.left \ {w} /\ you.bad = me.bad
        /\ you.run = me.run /\ you.latest = me.latest
    BY <1>1, <2>1 DEF Executions
  <2>3. Row(s)'.window = Row(s).window /\ (supported => DaysOf(w) \subseteq stored)
        /\ me.left # {}
    BY <1>0, <1>3, <2>1, <2>2 DEF Row, Reached, w, AtWork
  <2>4. Within(s)'
    BY <1>0, <2>1, <2>2, <2>3 DEF Within
  <2>5. NothingSkipped(s)'
    BY <1>0, <1>2, <2>1, <2>2, <2>3 DEF NothingSkipped
  <2>6. Reached(s)'
    BY <1>0, <1>2, <2>1, <2>2, <2>3 DEF Reached, Fetched
  <2> QED BY <2>4, <2>5, <2>6
<1>11. ASSUME RecordFailure(s) PROVE goal
  <2> DEFINE w == IF me.refused THEN Row(s).window ELSE Earliest(me.left)
             stop == me.refused \/ Fatal(me.why)
  <2>1. /\ me.at = "record" /\ UNCHANGED <<run, stored>>
        /\ slot' = [slot EXCEPT ![s].at = "loop", ![s].bad = TRUE,
                          ![s].left = IF stop THEN {} ELSE @ \ {w},
                          ![s].why = IF stop THEN @ ELSE "none"]
    BY <1>11 DEF RecordFailure
  <2>2. stop
    BY <1>0, <2>1 DEF Reached
  <2> HIDE DEF stop, w
  <2>3. you.at = "loop" /\ you.left = {} /\ you.bad /\ you.latest = me.latest
    BY <1>1, <2>1, <2>2 DEF Executions
  <2> QED BY <1>0, <1>2, <2>1, <2>3 DEF Within, NothingSkipped, Reached, Fetched
<1>12. ASSUME \/ CompleteSyncRun(s) \/ ResolveErrors(s) \/ SetCursor(s) \/ WriteFreshness(s)
       PROVE  goal
  <2>1. /\ me.at \notin {"idle", "persist"}
        /\ \E at \in {"freshness", "resolve", "cursor", "connection"} :
              slot' = [slot EXCEPT ![s].at = at]
    BY <1>12 DEF CompleteSyncRun, ResolveErrors, SetCursor, WriteFreshness
  <2>2. /\ you.at \in {"freshness", "resolve", "cursor", "connection"}
        /\ you.left = me.left /\ you.bad = me.bad /\ you.run = me.run /\ you.latest = me.latest
    BY <1>1, <2>1 DEF Executions
  <2> QED BY <1>0, <1>2, <1>3, <2>1, <2>2, Carries DEF Row
<1>13. ASSUME MarkConnection(s) PROVE goal
  <2>1. me.at = "connection"
    BY <1>13 DEF MarkConnection
  <2>2. CASE Outcome(s) = "failed" /\ Retryable(me.why)
    <3>1. /\ you.at = "requeue"
          /\ you.left = me.left /\ you.bad = me.bad /\ you.run = me.run /\ you.latest = me.latest
      BY <1>1, <1>13, <2>2 DEF MarkConnection, Executions
    <3> QED BY <1>0, <1>2, <1>3, <2>1, <3>1, Carries DEF Row
  <2>3. CASE ~(Outcome(s) = "failed" /\ Retryable(me.why))
    <3>1. you = IdleSlot
      BY <1>1, <1>13, <2>3 DEF MarkConnection
    <3> QED BY <1>5, <3>1, Blanks
  <2> QED BY <2>2, <2>3
<1>14. ASSUME RequeueRun(s) \/ CatchRun(s) \/ Crash(s) PROVE goal
  <2>1. you = IdleSlot
    BY <1>1, <1>14 DEF RequeueRun, CatchRun, Crash
  <2> QED BY <1>5, <2>1, Blanks
<1>15. ~WindowThrows(s) /\ ~RunThrows(s)
  BY <1>1 DEF WindowThrows, RunThrows
<1> HIDE DEF goal
<1>16. goal
  BY <1>6, <1>7, <1>8, <1>9, <1>10, <1>11, <1>12, <1>13, <1>14, <1>15 DEF Execute
<1> QED BY <1>16 DEF goal

LEMMA PlanInvExecution ==
    ASSUME Stopping, Typed, Typed', EngineInv, PlanInv,
           NEW s \in Slots, Execute(s) \/ \E r \in Runs : ClaimRun(s, r)
    PROVE  PlanInv'
<1>0. \A e \in errors' : e.window \in Windows
  BY DEF Typed, TypeOK
<1>1. /\ UNCHANGED <<today, supported>> /\ stored \subseteq stored'
      /\ \A t \in Slots : t # s => slot'[t] = slot[t]
      /\ \A r \in Runs : run'[r].window = run[r].window
  <2>1. UNCHANGED today
    BY DEF Execute, ClaimRun, StartRun, FetchWindow, PersistWindow, CheckpointWindow,
           WindowThrows, RecordFailure, CompleteSyncRun, ResolveErrors, SetCursor, WriteFreshness,
           MarkConnection, RequeueRun, RunThrows, CatchRun, Crash
  <2>2. MaxFaults = 0
    BY DEF Stopping
  <2> QED BY <2>1, <2>2, DateHistory, OnlyOwnSlot, WindowsKept
<1>2. ASSUME NEW t \in Slots, t # s PROVE Within(t)' /\ NothingSkipped(t)' /\ Reached(t)'
  <2>1. Within(t) /\ NothingSkipped(t) /\ Reached(t) /\ slot'[t] = slot[t]
    BY <1>1, <1>2 DEF PlanInv
  <2>2. slot[t].at # "idle" => Row(t)'.window = Row(t).window
    BY <1>1, <2>1, RowOfSlot DEF Row
  <2>3. Within(t)' /\ NothingSkipped(t)'
    BY <1>1, <2>1, <2>2 DEF Within, NothingSkipped
  <2>4. Reached(t)'
    BY <1>1, <2>1 DEF Reached, Fetched
  <2> QED BY <2>3, <2>4
<1>3. Within(s)' /\ NothingSkipped(s)' /\ Reached(s)'
  BY ReadsOn
<1>4. \A r \in Runs : PlannedAfterPast(r)'
  BY <1>1 DEF PlanInv, PlannedAfterPast
<1>5. Past'
  <2>1. CASE UNCHANGED cursor
    BY <1>1, <2>1 DEF PlanInv, Past
  <2>2. CASE SetCursor(s)
    <3>1. slot[s].latest # NoDay => supported /\ 1 .. slot[s].latest \subseteq stored
      BY <2>2 DEF SetCursor, PlanInv, Reached, Fetched
    <3> QED BY <1>1, <2>2, <3>1 DEF SetCursor, PlanInv, Past
  <2> QED BY <2>1, <2>2
      DEF Execute, ClaimRun, rows, StartRun, FetchWindow, PersistWindow, CheckpointWindow,
          WindowThrows, RecordFailure, CompleteSyncRun, ResolveErrors, WriteFreshness,
          MarkConnection, RequeueRun, RunThrows, CatchRun, Crash
<1>6. FailedInTime'
  <2> SUFFICES ASSUME NEW f \in errors' PROVE f.window.to <= today
    BY <1>1 DEF FailedInTime
  <2>1. CASE \E e \in errors : f.window = e.window
    BY <2>1 DEF PlanInv, FailedInTime
  <2>2. ASSUME NEW t \in Slots, slot[t].at = "record",
               f.window = IF slot[t].refused THEN Row(t).window ELSE Earliest(slot[t].left)
        PROVE  f.window.to <= today
    <3>1. /\ slot[t] \in Executions /\ AtWork(slot[t]) /\ slot[t].run \in Runs
          /\ Row(t) \in RunRows
      BY <2>2, RowOfSlot
    <3>2. /\ Row(t).window.to \in Nat /\ today \in Nat /\ Row(t).window.to <= today
          /\ f.window.to \in Nat
      BY <1>0, <3>1, EngineAssumption
      DEF Typed, TypeOK, RunRows, Windows, Days, EngineAssumption, PlanInv, PlannedAfterPast, Row
    <3>3. CASE slot[t].refused
      BY <2>2, <3>2, <3>3
    <3>4. CASE ~slot[t].refused
      <4>1. Earliest(slot[t].left) \in slot[t].left
        BY <2>2, <3>1, <3>4, EarliestIsFirst DEF AtWork, Executions
      <4>2. f.window.to <= Row(t).window.to
        BY <2>2, <3>4, <4>1 DEF PlanInv, Within
      <4> QED BY <3>2, <4>2
    <3> QED BY <3>3, <3>4
  <2>3. [Next]_vars
    BY DEF Next
  <2> QED BY <2>1, <2>2, <2>3, ErrorHistory DEF Alike
<1> QED BY <1>2, <1>3, <1>4, <1>5, <1>6 DEF PlanInv

\* What a failed window left unstored is in the next scheduled window, for any
\* overlapping executions and dying workers: a retryable failure or a rejected
\* credential ends the loop before a later window can move the cursor past it.
\* A failure the loop goes on after refutes it (MCSyncEngineSkip).
THEOREM FailuresAreReplanned ==
    ASSUME Stopping
    PROVE  Spec => []FailedWindowsAreReplanned
<1>1. Init => PlanInv
  <2> SUFFICES ASSUME Init PROVE PlanInv
    OBVIOUS
  <2>1. \A r \in Runs : run[r].window.from = 1 /\ run[r].window.to = 1
    BY DEF Init, NewRun, Window
  <2>2. 1 .. (1 - 1) = {} /\ today = 1
    BY DEF Init
  <2>3. \A r \in Runs : PlannedAfterPast(r)
    BY <2>1, <2>2 DEF PlannedAfterPast
  <2>4. Past /\ FailedInTime
    BY DEF Init, Past, FailedInTime
  <2>5. \A s \in Slots : Within(s) /\ NothingSkipped(s) /\ Reached(s)
    BY Blanks DEF Init, Within, NothingSkipped, Reached
  <2> QED BY <2>3, <2>4, <2>5 DEF PlanInv
<1>2. Typed /\ EngineInv /\ (Typed /\ EngineInv)' /\ [Next]_vars /\ PlanInv => PlanInv'
  <2>1. PlanInv /\ UNCHANGED vars => PlanInv'
    BY DEF vars, PlanInv, Past, FailedInTime, PlannedAfterPast, Within, NothingSkipped, Reached,
           Fetched, Row
  <2>2. Typed /\ Typed' /\ PlanInv /\ (Plan \/ NextDay) => PlanInv'
    BY PlanInvPlan
  <2>3. \A s \in Slots : /\ Typed /\ Typed' /\ EngineInv /\ PlanInv
                         /\ Execute(s) \/ \E r \in Runs : ClaimRun(s, r)
                         => PlanInv'
    BY PlanInvExecution
  <2> QED BY <2>1, <2>2, <2>3 DEF Next
<1>3. Typed /\ PlanInv => FailedWindowsAreReplanned
  <2> SUFFICES ASSUME Typed, PlanInv, NEW e \in errors, NEW d \in DaysOf(e.window) \ stored
               PROVE  d \in DaysOf(IncrementalWindow(cursor, today, LookbackDays, BackfillDays))
    BY DEF FailedWindowsAreReplanned
  <2>1. d \in 1 .. today
    BY EngineAssumption DEF PlanInv, FailedInTime, Typed, TypeOK, Windows, Days, DaysOf,
                            EngineAssumption
  <2> QED BY <2>1, NextWindow DEF PlanInv
<1> QED BY <1>1, <1>2, <1>3, EngineInvariant, PTL DEF Spec

-----------------------------------------------------------------------------
\* SyncEngine implements RunLifecycle: a statement of an execution is one step
\* of its run's life, or none.

\* Where a run is depends only on its row and on who executes it.
LEMMA PlaceUnchanged ==
    ASSUME NEW q \in Runs, UNCHANGED Executing(q), UNCHANGED run[q].status
    PROVE  Place(q)' = Place(q)
BY DEF Place

LEMMA Invisible == UNCHANGED <<run, slot>> => UNCHANGED Lifecycle!lifecycleVars
BY DEF Lifecycle!lifecycleVars, Place, Executing

\* What an execution's statement writes: its own row, whose run has begun, and
\* whose attempts only a requeue counts.
LEMMA OwnRow ==
    ASSUME Typed, EngineInv, NEW s \in Slots, Execute(s)
    PROVE  /\ slot[s].at # "idle"
           /\ \A q \in Runs : q # slot[s].run => run'[q] = run[q]
           /\ \/ RequeueRun(s) /\ Row(s).attempt < MaxAttempts
              \/ /\ run'[slot[s].run].attempt = run[slot[s].run].attempt
                 /\ run'[slot[s].run].status \in Settled \cup {"running"}
<1>0. /\ run \in [Runs -> RunRows]
  BY DEF Typed, TypeOK, RunRows
<1>1. slot[s].at # "idle"
  BY DEF Execute, StartRun, FetchWindow, PersistWindow, CheckpointWindow, WindowThrows,
         RecordFailure, CompleteSyncRun, ResolveErrors, SetCursor, WriteFreshness,
         MarkConnection, RequeueRun, RunThrows, CatchRun, Crash
<1>2. slot[s].run \in Runs /\ run[slot[s].run].status \in Settled \cup {"running"}
  BY <1>1, RowOfSlot, HeldHasBegun DEF Row
<1>3. CASE CheckpointWindow(s)
  BY <1>0, <1>1, <1>2, <1>3 DEF CheckpointWindow, RunRows
<1>4. CASE CompleteSyncRun(s)
  <2>1. Outcome(s) \in Settled
    BY DEF Outcome, RunStatus, Settled, Succeeded
  <2> QED BY <1>0, <1>1, <1>2, <1>4, <2>1 DEF CompleteSyncRun, RunRows
<1>5. CASE CatchRun(s)
  BY <1>0, <1>1, <1>2, <1>5 DEF CatchRun, RunRows, Settled
<1>6. CASE RequeueRun(s) /\ Row(s).attempt < MaxAttempts
  BY <1>0, <1>1, <1>2, <1>6 DEF RequeueRun, RunRows
<1>7. CASE UNCHANGED run
  BY <1>1, <1>2, <1>7
<1> QED BY <1>3, <1>4, <1>5, <1>6, <1>7
    DEF Execute, StartRun, FetchWindow, PersistWindow, WindowThrows, RecordFailure,
        ResolveErrors, SetCursor, WriteFreshness, MarkConnection, RequeueRun, RunThrows, Crash

\* Who executes what, after a statement that keeps or lets go of its run.
LEMMA ExecutingStep ==
    ASSUME Typed, Typed', EngineInv, NEW s \in Slots, Execute(s), NEW r, r = slot[s].run
    PROVE  /\ r \in Runs /\ Executing(r) = {s}
           /\ \A q \in Runs : q # r => Executing(q)' = Executing(q)
           /\ \/ slot'[s].run = r /\ Executing(r)' = {s}
              \/ slot'[s].at = "idle" /\ Executing(r)' = {}
<1>1. /\ slot[s].at # "idle"
      /\ \A t \in Slots : t # s => slot'[t] = slot[t]
  BY OwnRow, OnlyOwnSlot
<1>2. r \in Runs /\ \A t \in Slots : t # s => slot[t].run # r
  BY <1>1, NobodyElse
<1>3. \/ slot'[s].run = r
      \/ slot'[s].at = "idle" /\ slot'[s].run = NoRun
  <2>1. [Next]_vars /\ \A q \in Runs : ~ClaimRun(s, q)
    BY <1>1 DEF Next, ClaimRun
  <2>2. slot'[s].at = "idle" => slot'[s].run = NoRun
    BY DEF Typed, AtWork
  <2> QED BY <2>1, <2>2, SlotHistory
<1>4. NoRun \notin Runs
  BY EngineAssumption DEF EngineAssumption
<1> QED BY <1>1, <1>2, <1>3, <1>4 DEF Executing

\* A statement keeps its run in hand, gives it back for one more attempt, or
\* lets go of it, settled or abandoned.
LEMMA ExecuteRefines ==
    ASSUME Typed, Typed', EngineInv, NEW s \in Slots, Execute(s)
    PROVE  [Lifecycle!LifecycleNext]_Lifecycle!lifecycleVars
<1>0. PICK r : r = slot[s].run
  OBVIOUS
<1>1. /\ r \in Runs /\ Executing(r) = {s}
      /\ \A q \in Runs : q # r => Executing(q)' = Executing(q)
      /\ \/ slot'[s].run = r /\ Executing(r)' = {s}
         \/ slot'[s].at = "idle" /\ Executing(r)' = {}
  BY <1>0, ExecutingStep
<1>2. /\ \A q \in Runs : q # r => run'[q] = run[q]
      /\ \/ RequeueRun(s) /\ run[r].attempt < MaxAttempts
         \/ /\ run'[r].attempt = run[r].attempt
            /\ run'[r].status \in Settled \cup {"running"}
  BY <1>0, OwnRow DEF Row
<1>3. Place(r) = "held" /\ \A q \in Runs : q # r => Place(q)' = Place(q)
  <2>1. \A q \in Runs : q # r => Place(q)' = Place(q)
    BY <1>1, <1>2, PlaceUnchanged
  <2> QED BY <1>1, <2>1 DEF Place
<1>4. CASE RequeueRun(s) /\ run[r].attempt < MaxAttempts
  <2>1. run'[r].status = "queued" /\ run'[r].attempt = run[r].attempt + 1
    <3>1. run' = [run EXCEPT ![r].status = "queued", ![r].attempt = @ + 1]
      BY <1>0, <1>4 DEF RequeueRun, Row
    <3>2. run \in [Runs -> RunRows]
      BY DEF Typed, TypeOK, RunRows
    <3> QED BY <1>1, <3>1, <3>2 DEF RunRows
  <2>2. slot'[s] = IdleSlot
    BY <1>4 DEF RequeueRun, Typed, TypeOK
  <2>3. Executing(r)' = {}
    BY <1>1, <2>2, Blanks, EngineAssumption DEF EngineAssumption
  <2>4. Place(r)' = "queued"
    BY <2>1, <2>3 DEF Place
  <2>5. Lifecycle!Retry(s, r)
    BY <1>1, <1>2, <1>3, <1>4, <2>1, <2>3, <2>4 DEF Lifecycle!Retry
  <2> QED BY <1>1, <2>5 DEF Lifecycle!LifecycleNext
<1>5. CASE run'[r].attempt = run[r].attempt /\ run'[r].status \in Settled \cup {"running"}
  <2>1. \A q \in Runs : run'[q].attempt = run[q].attempt
    BY <1>2, <1>5
  <2>2. CASE Executing(r)' = {s}
    <3>1. \A q \in Runs : Executing(q)' = Executing(q)
      BY <1>1, <2>2
    <3>2. \A q \in Runs : Place(q)' = Place(q)
      BY <1>1, <1>3, <2>2 DEF Place
    <3> QED BY <2>1, <3>1, <3>2 DEF Lifecycle!lifecycleVars
  <2>3. CASE Executing(r)' = {} /\ run'[r].status = "running"
    <3>1. Place(r)' = "abandoned"
      BY <2>3 DEF Place
    <3>2. Lifecycle!Release(s, {}, {r})
      BY <1>1, <1>3, <2>1, <2>3, <3>1 DEF Lifecycle!Release
    <3> QED BY <1>1, <3>2 DEF Lifecycle!LifecycleNext
  <2>4. CASE Executing(r)' = {} /\ run'[r].status # "running"
    <3>1. Place(r)' = "settled"
      BY <1>5, <2>4 DEF Place, Settled, Succeeded
    <3>2. Lifecycle!Release(s, {r}, {})
      BY <1>1, <1>3, <2>1, <2>4, <3>1 DEF Lifecycle!Release
    <3> QED BY <1>1, <3>2 DEF Lifecycle!LifecycleNext
  <2> QED BY <1>1, <2>2, <2>3, <2>4
<1> QED BY <1>2, <1>4, <1>5

\* A claim takes one queued run, which nobody executes.
LEMMA ClaimRefines ==
    ASSUME Typed, Typed', EngineInv, NEW s \in Slots, NEW r \in Runs, ClaimRun(s, r)
    PROVE  Lifecycle!LifecycleNext
<1>1. /\ slot[s].at = "idle" /\ run[r].status = "queued"
      /\ run' = [run EXCEPT ![r].status = "running"]
      /\ slot' = [slot EXCEPT ![s] = [IdleSlot EXCEPT !.at = "start", !.run = r]]
  BY DEF ClaimRun
<1>2. \A t \in Slots : slot'[t].run = IF t = s THEN r ELSE slot[t].run
  <2>1. [IdleSlot EXCEPT !.at = "start", !.run = r].run = r
    BY Blanks DEF Executions
  <2> QED BY <1>1, <2>1 DEF Typed, TypeOK
<1>3. \A t \in Slots : slot[t].run # r
  <2>1. \A t \in Slots : slot[t].at # "idle" => slot[t].run # r
    BY <1>1, HeldHasBegun DEF Row, Settled, Succeeded
  <2> QED BY <2>1, EngineAssumption DEF Typed, AtWork, EngineAssumption
<1>4. slot[s].run = NoRun /\ NoRun \notin Runs
  BY <1>1, EngineAssumption DEF Typed, AtWork, EngineAssumption
<1>5. /\ Executing(r) = {} /\ Executing(r)' = {s}
      /\ \A q \in Runs : q # r => Executing(q)' = Executing(q)
  BY <1>2, <1>3, <1>4 DEF Executing
<1>6. /\ \A q \in Runs : q # r => run'[q] = run[q]
      /\ \A q \in Runs : run'[q].attempt = run[q].attempt
  BY <1>1 DEF Typed, TypeOK
<1>7. /\ Place(r) = "queued" /\ Place(r)' = "held"
      /\ \A q \in Runs : q # r => Place(q)' = Place(q)
  <2>1. \A q \in Runs : q # r => Place(q)' = Place(q)
    BY <1>5, <1>6, PlaceUnchanged
  <2> QED BY <1>1, <1>5, <2>1 DEF Place
<1>8. Lifecycle!Take(s, {r})
  BY <1>5, <1>6, <1>7 DEF Lifecycle!Take
<1> QED BY <1>8 DEF Lifecycle!LifecycleNext

\* The INSERT of a run is its creation.
LEMMA EnqueueRefines ==
    ASSUME Typed, Typed', EngineInv, NEW w, Enqueue(w)
    PROVE  Lifecycle!LifecycleNext
<1>1. PICK r \in Runs :
         /\ run[r].status = "absent"
         /\ run' = [run EXCEPT ![r] = [NewRun EXCEPT !.status = "queued", !.window = w,
                                                     !.attempt = 1]]
  BY DEF Enqueue
<1>2. /\ run'[r].status = "queued" /\ run'[r].attempt = 1
      /\ \A q \in Runs : q # r => run'[q] = run[q]
  BY <1>1, Blanks DEF Typed, TypeOK, RunRows
<1>3. \A q \in Runs : Executing(q)' = Executing(q)
  BY DEF Enqueue, Executing
<1>4. Executing(r) = {}
  <2>1. \A t \in Slots : slot[t].at # "idle" => slot[t].run # r
    BY <1>1, HeldHasBegun DEF Row, Settled, Succeeded
  <2> QED BY <2>1, EngineAssumption DEF Typed, AtWork, EngineAssumption, Executing
<1>5. /\ Place(r) = "absent" /\ Place(r)' = "queued"
      /\ \A q \in Runs : q # r => Place(q)' = Place(q)
  <2>1. \A q \in Runs : q # r => Place(q)' = Place(q)
    BY <1>2, <1>3, PlaceUnchanged
  <2>2. Executing(r)' = {}
    BY <1>3, <1>4
  <2> QED BY <1>1, <1>2, <1>4, <2>1, <2>2 DEF Place
<1>6. Lifecycle!Create(r)
  BY <1>2, <1>3, <1>5 DEF Lifecycle!Create
<1> QED BY <1>6 DEF Lifecycle!LifecycleNext

LEMMA NextRefines ==
    ASSUME Typed, Typed', EngineInv, [Next]_vars
    PROVE  [Lifecycle!LifecycleNext]_Lifecycle!lifecycleVars
<1>1. CASE UNCHANGED vars
  BY <1>1, Invisible DEF vars
<1>2. CASE NextDay
  BY <1>2, Invisible DEF NextDay
<1>3. CASE Plan
  <2>1. \E w : Enqueue(w)
    BY <1>3 DEF Plan, EnqueueScheduled, EnqueueBackfill, EnqueueExplicit
  <2> QED BY <2>1, EnqueueRefines
<1> QED BY <1>1, <1>2, <1>3, ExecuteRefines, ClaimRefines DEF Next

\* The engine's statements keep the promise the queue makes about a run: one
\* execution at a time, attempts within SYNC_MAX_ATTEMPTS, and a settled or
\* abandoned run is never taken again.
THEOREM LifecycleImplemented == Spec => ImplementsLifecycle
<1>1. Init => Lifecycle!LifecycleInit
  <2> SUFFICES ASSUME Init PROVE Lifecycle!LifecycleInit
    OBVIOUS
  <2>1. \A r \in Runs : /\ Executing(r) = {} /\ run[r].status = "absent" /\ run[r].attempt = 0
    BY Blanks, EngineAssumption DEF Init, Executing, EngineAssumption
  <2> QED BY <2>1 DEF Lifecycle!LifecycleInit, Place
<1>2. Typed /\ Typed' /\ EngineInv /\ [Next]_vars =>
        [Lifecycle!LifecycleNext]_Lifecycle!lifecycleVars
  BY NextRefines
<1> QED BY <1>1, <1>2, EngineInvariant, PTL DEF Spec, ImplementsLifecycle, Lifecycle!LifecycleSpec

=============================================================================
