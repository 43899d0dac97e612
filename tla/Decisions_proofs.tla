-------------------------- MODULE Decisions_proofs --------------------------
(***************************************************************************)
(* Theorems about Cohorts and Decisions, for any calendar, cohort age,     *)
(* saved reports and operator's edits, number of syncs, circumstances and  *)
(* policies.                                                               *)
(***************************************************************************)
EXTENDS Decisions, FiniteSums, SequenceTheorems

(***************************************************************************)
(* What is stored.  A value is of an earlier moment, so never more than    *)
(* the cohort has earned by now; one that a run read after the age was     *)
(* reached is what the cohort earned, for good.                            *)
(***************************************************************************)
Stored == [value : Nat, seen : Nat]

TablesTyped ==
    /\ today \in Days /\ earned \in [Days -> [Components -> Nat]]
    /\ rows \in [Days -> [RevenueTypes -> Stored]]
    /\ answers \subseteq RevenueTypes

\* A run that has not read yet, that failed before it could, and that has read.
Fetching == [phase : {"fetch"}, from : Days, to : Days, report : Reports, read : {NoDay},
             rows : {<< >>}, failed : {FALSE}]
Broken == [phase : {"complete"}, from : Days, to : Days, report : Reports \cup {None},
           read : {NoDay}, rows : {<< >>}, failed : {TRUE}]
RowsOf(days) == UNION {[days -> [types -> Nat]] : types \in SUBSET RevenueTypes}
ReadRows == UNION {RowsOf(days) : days \in SUBSET Days}
Reading == [phase : {"persist", "complete"}, from : Days, to : Days, report : Reports,
            failed : BOOLEAN, read : Nat, types : SUBSET RevenueTypes, odd : SUBSET Days,
            rows : ReadRows]

RowOk(d, t) ==
    /\ rows[d][t].value <= Reported(d, t) /\ rows[d][t].seen <= today
    /\ rows[d][t] # NoRow => rows[d][t].value # 0

\* The days and types are stored as they finally are.
Final(d, t) == rows[d][t].value = Reported(d, t) /\ rows[d][t].seen > d + Age

Kept(days, types, read) ==
    \A d \in days, t \in types : read > d + Age /\ Reported(d, t) # 0 => Final(d, t)

\* What a run holds is no older than what is stored, and final where it was
\* read after the age was reached.
HeldOk ==
    /\ run.read <= today /\ \A w \in windows : w.read <= run.read
    /\ CoveredDays(DOMAIN run.rows, run.to) = DOMAIN run.rows /\ DOMAIN run.rows \subseteq Days
    /\ \A d \in DOMAIN run.rows, t \in run.types :
          /\ run.rows[d][t] \in Nat
          /\ rows[d][t].value <= run.rows[d][t] /\ run.rows[d][t] <= Reported(d, t)
          /\ run.read > d + Age => run.rows[d][t] = Reported(d, t)

RunOk ==
    /\ run \in {Idle} \cup Fetching \cup Broken \cup Reading
    /\ run.phase = "persist" => run \in Reading /\ HeldOk
    /\ run.phase = "complete" /\ ~run.failed =>
          /\ run \in Reading /\ run.read <= today
          /\ CoveredDays(DOMAIN run.rows, run.to) = DOMAIN run.rows
          /\ DOMAIN run.rows \subseteq Days
          /\ Kept(DOMAIN run.rows, run.types, run.read)

WindowOk(w) ==
    /\ w.days \subseteq Days /\ w.types \subseteq RevenueTypes
    /\ w.read \in Nat /\ w.read <= today
    /\ Kept(w.days, w.types, w.read)

CohortInv ==
    /\ TablesTyped /\ RunOk /\ reports \subseteq Reports
    /\ \A d \in Days, t \in RevenueTypes : RowOk(d, t)
    /\ \A w \in windows : WindowOk(w)

LEMMA DaysAreNat == /\ Days \subseteq Nat /\ Age \in Nat /\ LastDay \in Nat
                    /\ Components = {"iap", "ad"} /\ RevenueTypes = {"iap", "ad", "total"}
BY CohortsAssumption DEF CohortsAssumption, Days, Components, RevenueTypes

LEMMA ReportedIsNat ==
    ASSUME TablesTyped, NEW d \in Days, NEW t \in RevenueTypes PROVE Reported(d, t) \in Nat
BY DaysAreNat DEF TablesTyped, Reported

\* What a cohort has earned grows until the age is reached, and then stays.
LEMMA ReportedGrows ==
    ASSUME TablesTyped, [Next]_vars
    PROVE  /\ today' \in Days /\ today <= today'
           /\ earned' \in [Days -> [Components -> Nat]]
           /\ \A d \in Days, t \in RevenueTypes :
                 /\ Reported(d, t) \in Nat /\ Reported(d, t)' \in Nat
                 /\ Reported(d, t) <= Reported(d, t)'
                 /\ today > d + Age => Reported(d, t)' = Reported(d, t)
<1> USE DaysAreNat
<1>1. today \in Days /\ \A d \in Days, c \in Components : earned[d][c] \in Nat
  BY DEF TablesTyped
<1>2. today' \in Days /\ today <= today'
  <2>1. CASE NextDay
    BY <1>1, <2>1 DEF NextDay, Days
  <2>2. ASSUME ~NextDay PROVE today' = today
    <3>1. (\E d \in Earning, c \in Components : Earn(d, c)) => today' = today
      BY DEF Earn
    <3>2. EditReports \/ StartRun \/ Fetch \/ PersistWindow => today' = today
      BY DEF EditReports, StartRun, Fetch, PersistWindow
    <3>3. CompleteRun \/ Die \/ UNCHANGED vars => today' = today
      BY DEF CompleteRun, Die, vars
    <3> QED BY <2>2, <3>1, <3>2, <3>3 DEF Next
  <2> QED BY <1>1, <2>1, <2>2
<1>3. /\ earned' \in [Days -> [Components -> Nat]]
      /\ \A d \in Days, c \in Components :
            /\ earned[d][c] <= earned'[d][c]
            /\ today > d + Age => earned'[d][c] = earned[d][c]
  <2>1. ASSUME NEW e \in Earning, NEW k \in Components, Earn(e, k)
        PROVE  /\ earned' \in [Days -> [Components -> Nat]]
               /\ \A d \in Days, c \in Components :
                     /\ earned[d][c] <= earned'[d][c]
                     /\ today > d + Age => earned'[d][c] = earned[d][c]
    <3>1. e \in Days /\ today \in e .. e + Age /\ earned[e][k] = 0
          /\ earned' = [earned EXCEPT ![e][k] = 1]
      BY <2>1, CohortsAssumption DEF Earn, CohortsAssumption
    <3>2. earned' \in [Days -> [Components -> Nat]]
      BY <3>1 DEF TablesTyped
    <3>3. \A d \in Days, c \in Components :
              earned'[d][c] = IF d = e /\ c = k THEN 1 ELSE earned[d][c]
      BY <3>1 DEF TablesTyped
    <3> QED BY <1>1, <3>1, <3>2, <3>3
  <2>2. ASSUME ~\E d \in Earning, c \in Components : Earn(d, c) PROVE earned' = earned
    <3>1. NextDay \/ EditReports \/ StartRun \/ Fetch \/ PersistWindow => earned' = earned
      BY DEF NextDay, EditReports, StartRun, Fetch, PersistWindow
    <3>2. CompleteRun \/ Die \/ UNCHANGED vars => earned' = earned
      BY DEF CompleteRun, Die, vars
    <3> QED BY <2>2, <3>1, <3>2 DEF Next
  <2> QED BY <1>1, <2>1, <2>2 DEF TablesTyped
<1>4. ASSUME NEW d \in Days, NEW t \in RevenueTypes
      PROVE  /\ Reported(d, t) \in Nat /\ Reported(d, t)' \in Nat
             /\ Reported(d, t) <= Reported(d, t)'
             /\ today > d + Age => Reported(d, t)' = Reported(d, t)
  <2>1. \A c \in Components : earned[d][c] \in Nat /\ earned'[d][c] \in Nat
    BY <1>1, <1>3
  <2>2. CASE t = "total"
    BY <1>3, <2>1, <2>2 DEF Reported
  <2>3. CASE t # "total"
    BY <1>3, <2>1, <2>3 DEF Reported
  <2> QED BY <2>2, <2>3
<1> QED BY <1>2, <1>3, <1>4

\* The days a report returns reach to the end of the request.
LEMMA ReturnedAreCovered ==
    ASSUME NEW r, r.past \in Nat, NEW from \in Days, NEW to \in Days, NEW now \in Days
    PROVE  LET days == DaysReturned(r, from, to, now)
           IN days \subseteq Days /\ CoveredDays(days, to) = days
<1> DEFINE days == DaysReturned(r, from, to, now)
<1>1. days = {d \in from .. to : d > now - r.past}
  BY DEF DaysReturned
<1>2. days \subseteq Days
  BY <1>1, DaysAreNat DEF Days
<1>3. \A d \in CoveredDays(days, to) : d \in days
  BY <1>1, DaysAreNat DEF CoveredDays, Days
<1>4. \A d \in days : d \in CoveredDays(days, to)
  BY <1>1, DaysAreNat DEF CoveredDays, Days
<1> QED BY <1>2, <1>3, <1>4

\* Steps that store nothing.
LEMMA RowsStay ==
    ASSUME TablesTyped, [Next]_vars, rows' = rows, answers' \subseteq RevenueTypes,
           \A d \in Days, t \in RevenueTypes : RowOk(d, t)
    PROVE  /\ TablesTyped' /\ \A d \in Days, t \in RevenueTypes : RowOk(d, t)'
           /\ \A d \in Days, t \in RevenueTypes :
                  today > d + Age => Reported(d, t)' = Reported(d, t)
                                     /\ (Final(d, t) => Final(d, t)')
<1>1. TablesTyped'
  BY ReportedGrows DEF TablesTyped
<1>2. ASSUME NEW d \in Days, NEW t \in RevenueTypes
      PROVE  /\ RowOk(d, t)'
             /\ today > d + Age => Reported(d, t)' = Reported(d, t)
                                   /\ (Final(d, t) => Final(d, t)')
  <2>1. /\ Reported(d, t) \in Nat /\ Reported(d, t)' \in Nat
        /\ Reported(d, t) <= Reported(d, t)'
        /\ today > d + Age => Reported(d, t)' = Reported(d, t)
        /\ today \in Nat /\ today' \in Nat /\ today <= today'
    BY ReportedGrows, DaysAreNat DEF TablesTyped
  <2>2. rows[d][t].value \in Nat /\ rows[d][t].seen \in Nat
    BY DEF TablesTyped, Stored
  <2>3. RowOk(d, t)'
    BY <2>1, <2>2 DEF RowOk
  <2> QED BY <2>1, <2>3 DEF Final
<1> QED BY <1>1, <1>2

\* A recorded window stays good while nothing is stored.
LEMMA WindowsStay ==
    ASSUME CohortInv, [Next]_vars, rows' = rows, answers' \subseteq RevenueTypes
    PROVE  \A w \in windows : WindowOk(w)'
<1> SUFFICES ASSUME NEW w \in windows PROVE WindowOk(w)'
  OBVIOUS
<1>1. WindowOk(w) /\ today \in Nat /\ today' \in Nat /\ today <= today'
  BY ReportedGrows, DaysAreNat DEF CohortInv, TablesTyped
<1>2. w.read <= today'
  BY <1>1 DEF WindowOk
<1>3. ASSUME NEW d \in w.days, NEW t \in w.types, w.read > d + Age, Reported(d, t)' # 0
      PROVE  Final(d, t)'
  <2>1. d \in Days /\ t \in RevenueTypes /\ w.read \in Nat /\ d \in Nat /\ Age \in Nat
    BY <1>1, DaysAreNat DEF WindowOk
  <2>2. today > d + Age
    BY <1>1, <1>3, <2>1 DEF WindowOk
  <2>3. Reported(d, t)' = Reported(d, t) /\ (Final(d, t) => Final(d, t)')
    BY <2>1, <2>2, RowsStay DEF CohortInv
  <2>4. Final(d, t)
    BY <1>1, <1>3, <2>3 DEF WindowOk, Kept
  <2> QED BY <2>3, <2>4
<1>4. Kept(w.days, w.types, w.read)'
  BY <1>3 DEF Kept
<1> QED BY <1>1, <1>2, <1>4 DEF WindowOk

\* What a run that has read holds stays as good while nothing is stored.
LEMMA RunStays ==
    ASSUME CohortInv, [Next]_vars, rows' = rows, answers' \subseteq RevenueTypes,
           run' = run, windows' = windows
    PROVE  RunOk'
<1>1. today \in Nat /\ today' \in Nat /\ today <= today'
  BY ReportedGrows, DaysAreNat DEF CohortInv, TablesTyped
<1>2. CASE run.phase = "persist"
  <2>1. run \in Reading /\ HeldOk
    BY <1>2 DEF CohortInv, RunOk
  <2>2. run.read \in Nat /\ run.types \subseteq RevenueTypes
    BY <2>1 DEF Reading
  <2>3. ASSUME NEW d \in DOMAIN run.rows, NEW t \in run.types
        PROVE  /\ run.rows[d][t] <= Reported(d, t)'
               /\ run.read > d + Age => run.rows[d][t] = Reported(d, t)'
    <3>1. d \in Days /\ t \in RevenueTypes /\ d \in Nat /\ Age \in Nat
      BY <2>1, <2>2, DaysAreNat DEF HeldOk
    <3>2. /\ run.rows[d][t] \in Nat /\ run.rows[d][t] <= Reported(d, t)
          /\ run.read > d + Age => run.rows[d][t] = Reported(d, t)
          /\ run.read <= today
      BY <2>1 DEF HeldOk
    <3>3. /\ Reported(d, t) \in Nat /\ Reported(d, t)' \in Nat
          /\ Reported(d, t) <= Reported(d, t)'
          /\ today > d + Age => Reported(d, t)' = Reported(d, t)
      BY <3>1, ReportedGrows DEF CohortInv
    <3>4. run.read > d + Age => today > d + Age
      BY <1>1, <2>2, <3>1, <3>2
    <3> QED BY <3>2, <3>3, <3>4
  <2>4. run.read <= today'
    BY <1>1, <2>1, <2>2 DEF HeldOk
  <2>5. HeldOk'
    BY <2>1, <2>3, <2>4 DEF HeldOk, CoveredDays
  <2> QED BY <1>2, <2>1, <2>5 DEF RunOk, CohortInv
<1>3. CASE run.phase = "complete" /\ ~run.failed
  <2>1. /\ run \in Reading /\ run.read <= today
        /\ DOMAIN run.rows \subseteq Days
        /\ Kept(DOMAIN run.rows, run.types, run.read)
    BY <1>3 DEF CohortInv, RunOk
  <2>2. run.read \in Nat /\ run.types \subseteq RevenueTypes
    BY <2>1 DEF Reading
  <2>3. ASSUME NEW d \in DOMAIN run.rows, NEW t \in run.types,
               run.read > d + Age, Reported(d, t)' # 0
        PROVE  Final(d, t)'
    <3>1. d \in Days /\ t \in RevenueTypes /\ d \in Nat /\ Age \in Nat
      BY <2>1, <2>2, DaysAreNat
    <3>2. today > d + Age
      BY <1>1, <2>1, <2>2, <2>3, <3>1
    <3>3. Reported(d, t)' = Reported(d, t) /\ (Final(d, t) => Final(d, t)')
      BY <3>1, <3>2, RowsStay DEF CohortInv
    <3>4. Final(d, t)
      BY <2>1, <2>3, <3>3 DEF Kept
    <3> QED BY <3>3, <3>4
  <2>4. Kept(DOMAIN run.rows, run.types, run.read)'
    BY <2>3 DEF Kept
  <2>5. run.read <= today'
    BY <1>1, <2>1, <2>2
  <2> QED BY <1>3, <2>1, <2>4, <2>5 DEF RunOk, CohortInv, CoveredDays
<1>4. CASE run.phase # "persist" /\ ~(run.phase = "complete" /\ ~run.failed)
  BY <1>4 DEF RunOk, CohortInv
<1> QED BY <1>2, <1>3, <1>4

\* A run that ends in the air owes nothing.
LEMMA NothingHeld ==
    ASSUME run' \in {Idle} \cup Fetching \cup Broken \cup Reading,
           run'.phase # "persist", run'.phase = "complete" => run'.failed
    PROVE  RunOk'
BY DEF RunOk

\* What a run reads is what the provider says of the day, and final after the age.
LEMMA FetchHolds == CohortInv /\ [Next]_vars /\ Fetch => RunOk'
<1> SUFFICES ASSUME CohortInv, [Next]_vars, Fetch PROVE RunOk'
  OBVIOUS
<1>1. run \in Fetching /\ run.phase = "fetch"
  <2>1. run.phase = "fetch" /\ run \in {Idle} \cup Fetching \cup Broken \cup Reading
    BY DEF Fetch, CohortInv, RunOk
  <2>2. \A r \in Broken \cup Reading : r.phase # "fetch"
    BY DEF Broken, Reading
  <2>3. Idle.phase # "fetch"
    BY DEF Idle
  <2> QED BY <2>1, <2>2, <2>3
<1>2. CASE FailWindow
  <2>1. run' \in Broken
    BY <1>1, <1>2 DEF FailWindow, Fetching, Broken
  <2> QED BY <2>1, NothingHeld DEF Broken
<1>3. CASE ~FailWindow
  <2>1. PICK r \in reports, odd \in SUBSET Earning :
            LET days == DaysReturned(r, run.from, run.to, today)
                types == EmittedTypes(run.report.cohort, r.cohort)
            IN run' = [phase |-> "persist", from |-> run.from, to |-> run.to,
                       report |-> run.report, failed |-> FALSE,
                       read |-> today, types |-> types, odd |-> odd,
                       rows |-> [d \in days |-> [t \in types |-> Reported(d, t)]]]
    BY <1>3 DEF Fetch
  <2> DEFINE days == DaysReturned(r, run.from, run.to, today)
             types == EmittedTypes(run.report.cohort, r.cohort)
  <2>2. run.from \in Days /\ run.to \in Days /\ run.report \in Reports /\ today \in Days
    BY <1>1 DEF Fetching, CohortInv, TablesTyped
  <2>3. r.past \in Nat
    BY CohortsAssumption DEF CohortsAssumption, IsReport, CohortInv
  <2>4. days \subseteq Days /\ CoveredDays(days, run.to) = days
    BY <2>2, <2>3, ReturnedAreCovered
  <2>5. types \subseteq RevenueTypes /\ odd \subseteq Days
    BY CohortsAssumption DEF EmittedTypes, RevenueTypes, CohortsAssumption
  <2>6. UNCHANGED <<today, earned, rows, windows>>
    BY DEF Fetch
  <2> DEFINE held == [d \in days |-> [t \in types |-> Reported(d, t)]]
  <2>7. /\ run'.phase = "persist" /\ run'.from = run.from /\ run'.to = run.to
        /\ run'.report = run.report /\ run'.failed = FALSE /\ run'.read = today
        /\ run'.types = types /\ run'.odd = odd /\ run'.rows = held
        /\ run' = [phase |-> "persist", from |-> run.from, to |-> run.to,
                   report |-> run.report, failed |-> FALSE,
                   read |-> today, types |-> types, odd |-> odd, rows |-> held]
    BY <2>1
  <2> HIDE DEF days, types
  <2>8. \A d \in days, t \in types : /\ Reported(d, t) \in Nat
                                     /\ held[d][t] = Reported(d, t)
                                     /\ rows[d][t].value <= Reported(d, t)
    BY <2>4, <2>5, ReportedIsNat DEF CohortInv, RowOk
  <2>9. DOMAIN held = days /\ held \in [days -> [types -> Nat]]
    BY <2>8
  <2>10. held \in ReadRows
    <3>1. days \in SUBSET Days /\ types \in SUBSET RevenueTypes
      BY <2>4, <2>5
    <3>2. held \in RowsOf(days)
      BY <2>9, <3>1 DEF RowsOf
    <3> QED BY <3>1, <3>2 DEF ReadRows
  <2> HIDE DEF held
  <2>11. run' \in Reading
    <3>1. today \in Nat
      BY <2>2, DaysAreNat
    <3> QED BY <2>2, <2>5, <2>7, <2>10, <3>1 DEF Reading
  <2>12. HeldOk'
    <3>1. \A d, t : Reported(d, t)' = Reported(d, t)
      BY <2>6 DEF Reported
    <3>2. today \in Nat
      BY <2>2, DaysAreNat
    <3>3. run'.read <= today' /\ \A w \in windows' : w.read <= run'.read
      BY <2>6, <2>7, <3>2 DEF CohortInv, WindowOk
    <3>4. /\ CoveredDays(DOMAIN run.rows, run.to)' = DOMAIN run'.rows
          /\ DOMAIN run'.rows \subseteq Days
      BY <2>4, <2>7, <2>9 DEF CoveredDays
    <3>5. \A d \in DOMAIN run'.rows, t \in run'.types :
              /\ run'.rows[d][t] = Reported(d, t) /\ run'.rows[d][t] \in Nat
              /\ rows'[d][t].value <= run'.rows[d][t]
      BY <2>6, <2>7, <2>8, <2>9
    <3> QED BY <3>1, <3>3, <3>4, <3>5 DEF HeldOk
  <2> QED BY <2>7, <2>11, <2>12 DEF RunOk
<1> QED BY <1>2, <1>3

\* Whether the run in flight stores a value of its own for d and t.
Stores(d, t) == d \in DOMAIN run.rows /\ t \in run.types /\ run.rows[d][t] # 0

\* A row is as it was, or the value the run holds, stamped today.
LEMMA UpsertedRow ==
    ASSUME CohortInv, run.phase = "persist", rows' \in {rows, Upserted},
           NEW d \in Days, NEW t \in RevenueTypes
    PROVE  /\ rows'[d][t] \in {rows[d][t], [value |-> run.rows[d][t], seen |-> today]}
           /\ rows'[d][t] # rows[d][t] => Stores(d, t)
           /\ rows' = Upserted /\ Stores(d, t)
                 => rows'[d][t] = [value |-> run.rows[d][t], seen |-> today]
           /\ Stores(d, t) =>
                 /\ run.rows[d][t] \in Nat /\ rows[d][t].value <= run.rows[d][t]
                 /\ run.rows[d][t] <= Reported(d, t)
                 /\ run.read > d + Age => run.rows[d][t] = Reported(d, t)
<1>1. rows' = Upserted => rows'[d][t] = IF Stores(d, t)
                                       THEN [value |-> run.rows[d][t], seen |-> today]
                                       ELSE rows[d][t]
  BY DEF Upserted, Stores
<1>2. HeldOk
  BY DEF CohortInv, RunOk
<1>3. Stores(d, t) =>
          /\ run.rows[d][t] \in Nat /\ rows[d][t].value <= run.rows[d][t]
          /\ run.rows[d][t] <= Reported(d, t)
          /\ run.read > d + Age => run.rows[d][t] = Reported(d, t)
  BY <1>2 DEF HeldOk, Stores
<1> QED BY <1>1, <1>3

\* Storing what a run read.
LEMMA UpsertKeeps ==
    ASSUME CohortInv, PersistWindow
    PROVE  /\ run \in Reading /\ HeldOk /\ run.phase = "persist"
           /\ rows' \in {rows, Upserted}
           /\ TablesTyped' /\ (\A d \in Days, t \in RevenueTypes : RowOk(d, t)')
           /\ \A w \in windows' : WindowOk(w)'
           /\ rows' = Upserted =>
                 \A d \in DOMAIN run.rows, t \in run.types :
                    run.read > d + Age /\ Reported(d, t)' # 0 => Final(d, t)'
<1> USE DaysAreNat
<1>1. run \in Reading /\ HeldOk /\ run.phase = "persist"
  BY DEF PersistWindow, CohortInv, RunOk
<1>2. rows' \in {rows, Upserted} /\ UNCHANGED <<today, earned, windows, answers>>
  BY DEF PersistWindow
<1>3. \A d, t : Reported(d, t)' = Reported(d, t)
  BY <1>2 DEF Reported
<1>4. today \in Nat /\ run.read \in Nat /\ run.read <= today /\ run.types \subseteq RevenueTypes
  BY <1>1 DEF CohortInv, TablesTyped, HeldOk, Reading
<1>5. ASSUME NEW d \in Days, NEW t \in RevenueTypes
      PROVE  /\ rows'[d][t] \in Stored /\ RowOk(d, t)'
             /\ \A n \in Nat : n <= run.read /\ n > d + Age =>
                   (Final(d, t) => Final(d, t)')
             /\ rows' = Upserted /\ Stores(d, t) /\ run.read > d + Age => Final(d, t)'
  <2>1. RowOk(d, t) /\ rows[d][t] \in Stored /\ Reported(d, t) \in Nat
    BY ReportedIsNat DEF CohortInv, TablesTyped
  <2>2. CASE rows'[d][t] = rows[d][t] /\ ~(rows' = Upserted /\ Stores(d, t))
    BY <1>2, <1>3, <2>1, <2>2 DEF RowOk, Final
  <2>3. CASE rows'[d][t] # rows[d][t] \/ (rows' = Upserted /\ Stores(d, t))
    <3>1. Stores(d, t) /\ rows'[d][t] = [value |-> run.rows[d][t], seen |-> today]
      BY <1>1, <1>2, <2>3, UpsertedRow
    <3>2. /\ run.rows[d][t] \in Nat /\ run.rows[d][t] # 0
          /\ run.rows[d][t] <= Reported(d, t)
          /\ run.read > d + Age => run.rows[d][t] = Reported(d, t)
      BY <1>1, <1>2, <3>1, UpsertedRow DEF Stores
    <3>3. rows'[d][t].value = run.rows[d][t] /\ rows'[d][t].seen = today
      BY <3>1
    <3>4. rows'[d][t] \in Stored
      BY <1>4, <3>1, <3>2 DEF Stored
    <3>5. RowOk(d, t)'
      BY <1>2, <1>3, <1>4, <3>2, <3>3 DEF RowOk
    <3>6. run.read > d + Age => Final(d, t)'
      <4> SUFFICES ASSUME run.read > d + Age PROVE Final(d, t)'
        OBVIOUS
      <4>1. rows'[d][t].value = Reported(d, t)'
        BY <1>3, <3>2, <3>3
      <4>2. rows'[d][t].seen > d + Age
        <5>1. d + Age \in Nat
          OBVIOUS
        <5>2. today > d + Age
          BY <1>4, <5>1
        <5> QED BY <3>3, <5>2
      <4> QED BY <4>1, <4>2 DEF Final
    <3>7. ASSUME NEW n \in Nat, n <= run.read, n > d + Age PROVE Final(d, t)'
      <4>1. d + Age \in Nat /\ run.read \in Nat
        BY <1>4
      <4>2. run.read > d + Age
        BY <3>7, <4>1
      <4> QED BY <3>6, <4>2
    <3> QED BY <3>4, <3>5, <3>6, <3>7
  <2> QED BY <2>2, <2>3
<1>6. TablesTyped'
  <2>1. rows' \in [Days -> [RevenueTypes -> Stored]]
    <3>1. \E f : rows' = [d \in Days |-> [t \in RevenueTypes |-> f[d][t]]]
      <4>1. rows = [d \in Days |-> [t \in RevenueTypes |-> rows[d][t]]]
        BY DEF CohortInv, TablesTyped
      <4>2. CASE rows' = rows
        BY <4>1, <4>2
      <4>3. CASE rows' = Upserted
        <5>1. Upserted = [d \in Days |-> [t \in RevenueTypes |-> Upserted[d][t]]]
          BY DEF Upserted
        <5> QED BY <4>3, <5>1
      <4> QED BY <1>2, <4>2, <4>3
    <3>2. rows' = [d \in Days |-> [t \in RevenueTypes |-> rows'[d][t]]]
      BY <3>1
    <3> QED BY <1>5, <3>2
  <2> QED BY <1>2, <2>1 DEF CohortInv, TablesTyped
<1>7. ASSUME NEW w \in windows' PROVE WindowOk(w)'
  <2>1. WindowOk(w) /\ w.read <= run.read
    BY <1>1, <1>2, <1>7 DEF CohortInv, HeldOk
  <2>2. ASSUME NEW d \in w.days, NEW t \in w.types, w.read > d + Age, Reported(d, t)' # 0
        PROVE  Final(d, t)'
    <3>1. d \in Days /\ t \in RevenueTypes /\ w.read \in Nat
      BY <2>1 DEF WindowOk
    <3>2. Final(d, t)
      BY <1>3, <2>1, <2>2 DEF WindowOk, Kept
    <3>3. \A n \in Nat : n <= run.read /\ n > d + Age => (Final(d, t) => Final(d, t)')
      BY <1>5, <3>1
    <3>4. w.read <= run.read /\ w.read > d + Age
      BY <2>1, <2>2
    <3> QED BY <3>1, <3>2, <3>3, <3>4
  <2>3. Kept(w.days, w.types, w.read)'
    BY <2>2 DEF Kept
  <2> QED BY <1>2, <2>1, <2>3 DEF WindowOk
<1>8. ASSUME rows' = Upserted, NEW d \in DOMAIN run.rows, NEW t \in run.types,
             run.read > d + Age, Reported(d, t)' # 0
      PROVE  Final(d, t)'
  <2>1. d \in Days /\ t \in RevenueTypes
    BY <1>1, <1>4, <1>8 DEF HeldOk
  <2>2. run.rows[d][t] = Reported(d, t)
    BY <1>1, <1>8 DEF HeldOk
  <2>3. Stores(d, t)
    BY <1>3, <1>8, <2>2 DEF Stores
  <2> QED BY <1>5, <1>8, <2>1, <2>3
<1> QED BY <1>1, <1>2, <1>5, <1>6, <1>7, <1>8

\* A run that has stored all it read owes only its record.
LEMMA PersistHolds == CohortInv /\ PersistWindow => RunOk'
<1> SUFFICES ASSUME CohortInv, PersistWindow PROVE RunOk'
  OBVIOUS
<1>1. run \in Reading /\ HeldOk /\ run.phase = "persist"
  BY UpsertKeeps
<1>2. CASE FailWindow
  <2>1. run' \in Reading /\ run'.phase = "complete" /\ run'.failed
    BY <1>1, <1>2 DEF FailWindow, Reading
  <2> QED BY <2>1, NothingHeld
<1>3. CASE rows' = Upserted /\ run' = [run EXCEPT !.phase = "complete"]
  <2>1. /\ run' \in Reading /\ run'.phase = "complete"
        /\ run'.rows = run.rows /\ run'.types = run.types /\ run'.read = run.read
        /\ run'.to = run.to
    BY <1>1, <1>3 DEF Reading
  <2>2. Kept(DOMAIN run.rows, run.types, run.read)'
    BY <1>3, <2>1, UpsertKeeps DEF Kept
  <2>3. today' = today
    BY DEF PersistWindow
  <2> QED BY <1>1, <2>1, <2>2, <2>3 DEF HeldOk, RunOk, CoveredDays
<1> QED BY <1>2, <1>3 DEF PersistWindow

\* A run that ends well is recorded with the days and types it has stored.
LEMMA CompleteKeeps ==
    ASSUME CohortInv, [Next]_vars, CompleteRun
    PROVE  answers' \subseteq RevenueTypes /\ \A w \in windows' : WindowOk(w)'
<1>1. /\ answers' \subseteq RevenueTypes
      /\ UNCHANGED <<rows, today, earned>>
  <2>1. answers' = answers \/ answers' = ProbedRevenue(run.report)
    BY DEF CompleteRun
  <2>2. ProbedRevenue(run.report) \subseteq RevenueTypes
    BY DEF ProbedRevenue
  <2> QED BY <2>1, <2>2 DEF CompleteRun, CohortInv, TablesTyped
<1>2. \A w \in windows : WindowOk(w)'
  BY <1>1, WindowsStay
<1>3. windows' = windows \/ (~run.failed /\ windows' = windows \cup {ReadWindow})
  BY DEF CompleteRun
<1>4. ASSUME ~run.failed, NEW w, w = ReadWindow PROVE WindowOk(w)'
  <2>1. /\ run \in Reading /\ run.read <= today /\ today' = today
        /\ CoveredDays(DOMAIN run.rows, run.to) = DOMAIN run.rows /\ DOMAIN run.rows \subseteq Days
        /\ Kept(DOMAIN run.rows, run.types, run.read)
    BY <1>1, <1>4 DEF CompleteRun, CohortInv, RunOk
  <2>2. w.days = DOMAIN run.rows /\ w.types = run.types /\ w.read = run.read
    BY <1>4, <2>1 DEF ReadWindow
  <2>3. \A d, t : (Reported(d, t)' = Reported(d, t)) /\ (Final(d, t)' <=> Final(d, t))
    BY <1>1 DEF Reported, Final
  <2>4. Kept(w.days, w.types, w.read)'
    BY <2>1, <2>2, <2>3 DEF Kept
  <2> QED BY <2>1, <2>2, <2>4 DEF WindowOk, Reading
<1> QED BY <1>1, <1>2, <1>3, <1>4

\* A run starts with nothing in hand, or fails for want of a report.
LEMMA StartHolds == CohortInv /\ StartRun => RunOk'
<1> SUFFICES ASSUME CohortInv, StartRun PROVE RunOk'
  OBVIOUS
<1>1. today \in Days /\ \A now \in Days : 1 \in Days /\ (now > Lookback => now - Lookback \in Days)
  BY CohortsAssumption DEF CohortInv, TablesTyped, Days, CohortsAssumption
<1>2. PICK from \in Days :
          \/ \E r \in Selected(reports) :
                run' = [phase |-> "fetch", from |-> from, to |-> today,
                        report |-> r, read |-> NoDay, rows |-> << >>, failed |-> FALSE]
          \/ run' = [phase |-> "complete", from |-> from, to |-> today,
                     report |-> None, read |-> NoDay, rows |-> << >>, failed |-> TRUE]
  BY <1>1 DEF StartRun
<1>3. \A r \in Selected(reports) : r \in Reports
  BY DEF Selected, CohortInv
<1>4. run' \in Fetching \/ run' \in Broken
  <2>1. ASSUME NEW r \in Selected(reports),
               run' = [phase |-> "fetch", from |-> from, to |-> today,
                       report |-> r, read |-> NoDay, rows |-> << >>, failed |-> FALSE]
        PROVE  run' \in Fetching
    BY <1>1, <1>3, <2>1 DEF Fetching
  <2>2. ASSUME run' = [phase |-> "complete", from |-> from, to |-> today,
                       report |-> None, read |-> NoDay, rows |-> << >>, failed |-> TRUE]
        PROVE  run' \in Broken
    BY <1>1, <2>2 DEF Broken
  <2> QED BY <1>2, <2>1, <2>2
<1>5. /\ \A r \in Fetching : r.phase = "fetch"
      /\ \A r \in Broken : r.phase = "complete" /\ r.failed = TRUE
  BY DEF Fetching, Broken
<1> QED BY <1>4, <1>5, NothingHeld

\* The invariant, action by action.
LEMMA CohortStep == CohortInv /\ [Next]_vars => CohortInv'
<1> SUFFICES ASSUME CohortInv, [Next]_vars PROVE CohortInv'
  OBVIOUS
<1>1. reports' \subseteq Reports
  <2>1. CASE EditReports
    BY <2>1 DEF EditReports, CohortInv
  <2>2. ASSUME ~EditReports PROVE reports' = reports
    <3>1. (\E d \in Earning, c \in Components : Earn(d, c)) \/ NextDay => reports' = reports
      BY DEF Earn, NextDay
    <3>2. StartRun \/ Fetch \/ PersistWindow => reports' = reports
      BY DEF StartRun, Fetch, PersistWindow
    <3>3. CompleteRun \/ Die \/ UNCHANGED vars => reports' = reports
      BY DEF CompleteRun, Die, vars
    <3> QED BY <2>2, <3>1, <3>2, <3>3 DEF Next
  <2> QED BY <2>1, <2>2 DEF CohortInv
<1>2. ASSUME rows' = rows, windows' = windows, answers' = answers, RunOk' PROVE CohortInv'
  <2>1. answers' \subseteq RevenueTypes
    BY <1>2 DEF CohortInv, TablesTyped
  <2> QED BY <1>1, <1>2, <2>1, RowsStay, WindowsStay DEF CohortInv
<1>3. CASE PersistWindow
  BY <1>1, <1>3, UpsertKeeps, PersistHolds DEF CohortInv
<1>4. CASE CompleteRun
  <2>1. rows' = rows /\ run' = Idle
    BY <1>4 DEF CompleteRun
  <2>2. RunOk'
    BY <2>1, NothingHeld DEF Idle
  <2> QED BY <1>1, <1>4, <2>1, <2>2, CompleteKeeps, RowsStay DEF CohortInv
<1>5. CASE Die
  <2>1. run' = Idle /\ UNCHANGED <<rows, windows, answers>>
    BY <1>5 DEF Die
  <2>2. RunOk'
    BY <2>1, NothingHeld DEF Idle
  <2> QED BY <1>2, <2>1, <2>2
<1>6. CASE Fetch
  <2>1. UNCHANGED <<rows, windows, answers>>
    BY <1>6 DEF Fetch
  <2> QED BY <1>2, <1>6, <2>1, FetchHolds
<1>7. CASE StartRun
  <2>1. UNCHANGED <<rows, windows, answers>>
    BY <1>7 DEF StartRun
  <2> QED BY <1>2, <1>7, <2>1, StartHolds
<1>8. CASE (\E d \in Earning, c \in Components : Earn(d, c)) \/ NextDay \/ EditReports
           \/ UNCHANGED vars
  <2>1. UNCHANGED <<rows, windows, answers, run>>
    BY <1>8 DEF Earn, NextDay, EditReports, vars
  <2>2. answers' \subseteq RevenueTypes
    BY <2>1 DEF CohortInv, TablesTyped
  <2>3. RunOk'
    BY <2>1, <2>2, RunStays
  <2> QED BY <1>2, <2>1, <2>3
<1> QED BY <1>3, <1>4, <1>5, <1>6, <1>7, <1>8 DEF Next

\* Nothing is stored or recorded at first.
LEMMA CohortStarts == Init => CohortInv
<1> SUFFICES ASSUME Init PROVE CohortInv
  OBVIOUS
<1> USE DaysAreNat
<1>1. 1 \in Days /\ reports \subseteq Reports
  BY CohortsAssumption DEF Init, Days, CohortsAssumption
<1>2. \A d \in Days, t \in RevenueTypes : rows[d][t] = NoRow
  BY DEF Init
<1>3. NoRow \in Stored /\ NoRow.value = 0 /\ NoRow.seen = 0
  BY DEF NoRow, Stored, NoDay
<1>4. TablesTyped
  BY <1>1, <1>3 DEF Init, TablesTyped
<1>5. ASSUME NEW d \in Days, NEW t \in RevenueTypes PROVE RowOk(d, t)
  <2>1. Reported(d, t) \in Nat /\ today \in Nat
    BY <1>4, ReportedIsNat DEF TablesTyped
  <2>2. rows[d][t] = NoRow
    BY <1>2
  <2>3. rows[d][t].value = 0 /\ rows[d][t].seen = 0
    BY <1>3, <2>2
  <2> QED BY <2>1, <2>2, <2>3 DEF RowOk
<1>6. RunOk
  <2>1. run = Idle /\ Idle.phase = "idle"
    BY DEF Init, Idle
  <2> QED BY <2>1 DEF RunOk
<1>7. windows = {}
  BY DEF Init
<1> QED BY <1>1, <1>4, <1>5, <1>6, <1>7 DEF CohortInv

(***************************************************************************)
(* Figures of one cohort day.                                              *)
(***************************************************************************)

\* The three revenue types, added one by one.
LEMMA SumOverTypes ==
    ASSUME NEW f \in [RevenueTypes -> Int]
    PROVE  SumFunction(f) = f["iap"] + f["ad"] + f["total"]
<1> DEFINE sum(T) == SumFunctionOnSet(f, T)
<1>1. SumFunction(f) = sum({"iap", "ad", "total"})
  BY DaysAreNat DEF SumFunction
<1>2. \A T \in SUBSET {"iap", "ad", "total"} :
          IsFiniteSet(T) /\ (\A x \in T : f[x] \in Int) /\ sum(T) \in Int
  <2> SUFFICES ASSUME NEW T \in SUBSET {"iap", "ad", "total"}
               PROVE  IsFiniteSet(T) /\ (\A x \in T : f[x] \in Int) /\ sum(T) \in Int
    OBVIOUS
  <2>1. IsFiniteSet({"iap"} \cup {"ad"} \cup {"total"})
    BY FS_Singleton, FS_Union
  <2>2. T \subseteq {"iap"} \cup {"ad"} \cup {"total"}
    OBVIOUS
  <2>3. IsFiniteSet(T)
    BY <2>1, <2>2, FS_Subset
  <2>4. \A x \in T : f[x] \in Int
    BY DaysAreNat
  <2> QED BY <2>3, <2>4, SumIsInt
<1>3. sum({"iap", "ad", "total"}) = f["iap"] + sum({"ad", "total"})
  <2>1. {"iap", "ad", "total"} \ {"iap"} = {"ad", "total"}
    OBVIOUS
  <2> QED BY <1>2, <2>1, SumFromAny
<1>4. sum({"ad", "total"}) = f["ad"] + sum({"total"})
  <2>1. {"ad", "total"} \ {"ad"} = {"total"}
    OBVIOUS
  <2> QED BY <1>2, <2>1, SumFromAny
<1>5. sum({"total"}) = f["total"] + sum({})
  <2>1. {"total"} \ {"total"} = {}
    OBVIOUS
  <2> QED BY <1>2, <2>1, SumFromAny
<1>6. sum({}) = 0
  BY SumOfNothing
<1>7. f["iap"] \in Int /\ f["ad"] \in Int /\ f["total"] \in Int
  BY DaysAreNat
<1> HIDE DEF sum
<1> QED BY <1>1, <1>3, <1>4, <1>5, <1>6, <1>7

\* A total is its own row's, or where a component is stored, the components'.
LEMMA FigureIs ==
    ASSUME CohortInv, NEW d \in Days
    PROVE  /\ \A t \in RevenueTypes : Counted(d, t) \in Nat
           /\ \A c \in Components : Figure(d, c) = Counted(d, c)
           /\ Figure(d, "total") = Counted(d, "iap") + Counted(d, "ad") + Counted(d, "total")
<1>1. \A t \in RevenueTypes : Counted(d, t) \in Nat
  BY DEF CohortInv, TablesTyped, Stored, Counted
<1>2. \A c \in Components : Figure(d, c) = Counted(d, c)
  BY DaysAreNat DEF Figure
<1> DEFINE f == [u \in RevenueTypes |-> Counted(d, u)]
<1>3. f \in [RevenueTypes -> Int]
  BY <1>1
<1>4. f["iap"] = Counted(d, "iap") /\ f["ad"] = Counted(d, "ad") /\ f["total"] = Counted(d, "total")
  BY DaysAreNat
<1>5. Figure(d, "total") = SumFunction(f)
  BY DEF Figure
<1> HIDE DEF f
<1>6. SumFunction(f) = f["iap"] + f["ad"] + f["total"]
  BY <1>3, SumOverTypes
<1> QED BY <1>1, <1>2, <1>4, <1>5, <1>6

\* A day finally read has its final values stored, of the types its read had.
LEMMA FinallyStored ==
    ASSUME CohortInv, NEW d \in Days, NEW t \in RevenueTypes, FinallyRead(d, t)
    PROVE  /\ t \in Components => (Reported(d, t) # 0 => Final(d, t))
           /\ t = "total" =>
                 \/ \A c \in Components : Reported(d, c) # 0 => Final(d, c)
                 \/ ~HasComponent(d) /\ (Reported(d, t) # 0 => Final(d, t))
<1>1. PICK w \in windows :
          /\ d \in w.days /\ w.read > d + Age
          /\ \/ t = "total" /\ Components \subseteq w.types
             \/ t = "total" /\ "total" \in w.types /\ ~HasComponent(d)
             \/ t \in w.types \cap Components
  BY DEF FinallyRead
<1>2. Kept(w.days, w.types, w.read)
  BY DEF CohortInv, WindowOk
<1>3. \A u \in w.types : Reported(d, u) # 0 => Final(d, u)
  BY <1>1, <1>2 DEF Kept
<1>4. t = "total" => t \notin Components
  BY DaysAreNat
<1> QED BY <1>1, <1>3, <1>4

\* Where a component is counted no more than the cohort earned can be.
LEMMA NoMoreThanEarned ==
    ASSUME CohortInv, NEW d \in Days
    PROVE  \A t \in RevenueTypes : Figure(d, t) <= Reported(d, t) /\ Figure(d, t) \in Nat
<1>1. \A t \in RevenueTypes : /\ Counted(d, t) <= rows[d][t].value \/ Counted(d, t) = 0
                              /\ Counted(d, t) \in Nat
                              /\ rows[d][t].value \in Nat /\ Reported(d, t) \in Nat
                              /\ rows[d][t].value <= Reported(d, t)
  BY FigureIs, ReportedIsNat DEF Counted, CohortInv, TablesTyped, Stored, RowOk
<1>2. \A t \in RevenueTypes : Counted(d, t) <= Reported(d, t)
  BY <1>1
<1>3. \A c \in Components : Figure(d, c) <= Reported(d, c) /\ Figure(d, c) \in Nat
  BY <1>1, <1>2, FigureIs, DaysAreNat
<1>4. Reported(d, "total") = Reported(d, "iap") + Reported(d, "ad")
  BY DEF Reported
<1>5. CASE HasComponent(d)
  <2>1. Counted(d, "total") = 0
    BY <1>5 DEF Counted, Counts
  <2>2. Figure(d, "total") = Counted(d, "iap") + Counted(d, "ad") + 0
    BY <2>1, FigureIs
  <2> QED BY <1>1, <1>2, <1>3, <1>4, <2>2, DaysAreNat
<1>6. CASE ~HasComponent(d)
  <2>1. Counted(d, "iap") = 0 /\ Counted(d, "ad") = 0
    BY <1>6, DaysAreNat DEF HasComponent, Counted, Counts
  <2>2. Figure(d, "total") = 0 + 0 + Counted(d, "total")
    BY <2>1, FigureIs
  <2> QED BY <1>1, <1>2, <1>3, <2>2, DaysAreNat
<1> QED BY <1>5, <1>6

\* The figure of a day held mature and finally read is what its cohort earned.
LEMMA FinalFigure ==
    ASSUME CohortInv, NEW d \in Days, NEW t \in RevenueTypes,
           FinallyRead(d, t), OldEnough(d), Covered(d)
    PROVE  Figure(d, t) = Reported(d, t)
<1>1. \A u \in RevenueTypes : /\ Reported(d, u) \in Nat /\ rows[d][u].value \in Nat
                              /\ rows[d][u].value <= Reported(d, u)
                              /\ rows[d][u] # NoRow => rows[d][u].value # 0
  BY ReportedIsNat DEF CohortInv, TablesTyped, Stored, RowOk
<1>2. \A u \in RevenueTypes : Final(d, u) /\ Reported(d, u) # 0 =>
          rows[d][u] # NoRow /\ ReadAfter(rows[d][u], d) /\ rows[d][u].value = Reported(d, u)
  BY DEF Final, ReadAfter, NoRow
<1>3. \A u \in RevenueTypes : Reported(d, u) = 0 => rows[d][u] = NoRow
  BY <1>1
<1>4. ASSUME NEW c \in Components, Reported(d, c) # 0 => Final(d, c)
      PROVE  Counted(d, c) = Reported(d, c)
  <2>1. c \in RevenueTypes /\ c # "total"
    BY DaysAreNat
  <2>2. CASE Reported(d, c) = 0
    BY <1>3, <2>1, <2>2 DEF Counted, Counts
  <2>3. CASE Reported(d, c) # 0
    <3>1. Counts(d, c)
      BY <1>2, <1>4, <2>1, <2>3 DEF Counts
    <3> QED BY <1>2, <1>4, <2>1, <2>3, <3>1 DEF Counted
  <2> QED BY <2>2, <2>3
<1>5. CASE t \in Components
  BY <1>4, <1>5, FinallyStored, FigureIs
<1>6. Reported(d, "total") = Reported(d, "iap") + Reported(d, "ad")
  BY DEF Reported
<1>7. CASE t = "total" /\ \A c \in Components : Reported(d, c) # 0 => Final(d, c)
  <2>1. Counted(d, "iap") = Reported(d, "iap") /\ Counted(d, "ad") = Reported(d, "ad")
    BY <1>4, <1>7, DaysAreNat
  <2>2. Counted(d, "total") = 0
    <3>1. CASE HasComponent(d)
      BY <3>1 DEF Counted, Counts
    <3>2. CASE ~HasComponent(d)
      <4>1. \A c \in Components : rows[d][c] = NoRow
        BY <3>2 DEF HasComponent
      <4>2. \A c \in Components : Reported(d, c) = 0
        BY <1>2, <1>7, <4>1, DaysAreNat
      <4>3. Reported(d, "total") = 0
        BY <1>6, <4>2, DaysAreNat
      <4> QED BY <1>3, <4>3, DaysAreNat DEF Counted, Counts
    <3> QED BY <3>1, <3>2
  <2>3. Figure(d, "total") = Reported(d, "iap") + Reported(d, "ad") + 0
    BY <2>1, <2>2, FigureIs
  <2> QED BY <1>1, <1>6, <1>7, <2>3, DaysAreNat
<1>8. CASE t = "total" /\ ~HasComponent(d) /\ (Reported(d, t) # 0 => Final(d, t))
  <2>1. Counted(d, "iap") = 0 /\ Counted(d, "ad") = 0
    BY <1>8, DaysAreNat DEF HasComponent, Counted, Counts
  <2>2. Counted(d, "total") = Reported(d, "total")
    <3>1. CASE Reported(d, "total") = 0
      BY <1>3, <3>1, DaysAreNat DEF Counted, Counts
    <3>2. CASE Reported(d, "total") # 0
      <4>1. Counts(d, "total")
        BY <1>2, <1>8, <3>2 DEF Counts
      <4> QED BY <1>2, <1>8, <3>2, <4>1 DEF Counted
    <3> QED BY <3>1, <3>2
  <2>3. Figure(d, "total") = 0 + 0 + Reported(d, "total")
    BY <2>1, <2>2, FigureIs
  <2> QED BY <1>1, <1>8, <2>3
<1>9. t \in Components \/ t = "total"
  BY DaysAreNat
<1> QED BY <1>5, <1>7, <1>8, <1>9, FinallyStored

(***************************************************************************)
(* What a reading shows.                                                   *)
(***************************************************************************)

FiguresHold ==
    \A d \in Days, t \in RevenueTypes :
        /\ Figure(d, t) \in Nat /\ Figure(d, t) <= Reported(d, t)
        /\ FinallyRead(d, t) /\ OldEnough(d) /\ Covered(d) => Figure(d, t) = Reported(d, t)

LEMMA FiguresHolding == CohortInv => FiguresHold
BY NoMoreThanEarned, FinalFigure DEF FiguresHold

\* A day that is not mature shows nothing.
LEMMA ImmatureShowsNothing ==
    ASSUME CohortInv, NEW d \in Days, NEW t \in RevenueTypes, ~(OldEnough(d) /\ Covered(d))
    PROVE  Figure(d, t) = 0
<1>1. \A u \in RevenueTypes : Counted(d, u) = 0
  BY DEF Counted, Counts
<1>2. t \in Components \/ t = "total"
  BY DaysAreNat
<1>3. Figure(d, "total") = 0 + 0 + 0
  BY <1>1, FigureIs, DaysAreNat
<1> QED BY <1>1, <1>2, <1>3, FigureIs, DaysAreNat

\* The invariant holds of every behaviour, and so do the figures.
LEMMA CohortInvariant == Spec => [](CohortInv /\ FiguresHold)
<1> QED BY CohortStarts, CohortStep, FiguresHolding, PTL DEF Spec

\* A sync takes nothing back: whatever columns and days the reports had, have or
\* lost, storing never lowers the figure of a day that stands finally read.
THEOREM FinalFiguresStay == Spec => StoredStays
<1>1. ASSUME CohortInv, FiguresHold, FiguresHold', [Next]_vars
      PROVE  [\A d \in Days, t \in answers :
                FinallyRead(d, t)' => Figure(d, t)' >= Figure(d, t)]_rows
  <2> SUFFICES ASSUME rows' # rows, NEW d \in Days, NEW t \in answers, FinallyRead(d, t)'
               PROVE  Figure(d, t)' >= Figure(d, t)
    OBVIOUS
  <2>1. PersistWindow
    <3>1. (\E e \in Earning, c \in Components : Earn(e, c)) \/ NextDay \/ EditReports
              => rows' = rows
      BY DEF Earn, NextDay, EditReports
    <3>2. StartRun \/ Fetch => rows' = rows
      BY DEF StartRun, Fetch
    <3>3. CompleteRun \/ Die \/ UNCHANGED vars => rows' = rows
      BY DEF CompleteRun, Die, vars
    <3> QED BY <1>1, <3>1, <3>2, <3>3 DEF Next
  <2>2. UNCHANGED <<installsTo, latest, windows, earned>>
    BY <2>1 DEF PersistWindow
  <2>3. /\ OldEnough(d)' <=> OldEnough(d)
        /\ Covered(d)' <=> Covered(d)
        /\ Reported(d, t)' = Reported(d, t)
    BY <2>2 DEF OldEnough, Horizon, Covered, Reported
  <2>4. t \in RevenueTypes /\ Reported(d, t) \in Nat
    BY <1>1, ReportedIsNat DEF CohortInv, TablesTyped
  <2>5. /\ Figure(d, t) \in Nat /\ Figure(d, t)' \in Nat
        /\ Figure(d, t) <= Reported(d, t)
        /\ OldEnough(d) /\ Covered(d) => Figure(d, t)' = Reported(d, t)
    BY <1>1, <2>3, <2>4 DEF FiguresHold
  <2>6. ~(OldEnough(d) /\ Covered(d)) => Figure(d, t) = 0
    BY <1>1, <2>4, ImmatureShowsNothing
  <2> QED BY <2>4, <2>5, <2>6
<1>2. Spec => [][Next]_vars
  BY PTL DEF Spec
<1> QED BY <1>1, <1>2, CohortInvariant, PTL DEF StoredStays

\* A figure without a caveat is of mature days alone.
LEMMA ShownInFull ==
    ASSUME NEW type, NEW measure, NEW days, NEW facts,
           CohortMetric(type, measure, days, facts).availability = "available"
    PROVE  \A x \in days : Mature(x)
<1> DEFINE metric == CohortDefinition(type, measure, MinInstalls)
           gate == Availability(metric, CohortContext(facts))
           mature == {x \in days : Mature(x)}
<1>1. mature = days
  <2> SUFFICES ASSUME mature # days
               PROVE  CohortMetric(type, measure, days, facts).availability # "available"
    OBVIOUS
  <2> HIDE DEF gate, metric
  <2> QED BY DEF CohortMetric, gate, metric
<1> QED BY <1>1

\* A mature day that is not merely held covered has been finally read.
LEMMA MatureIsRead ==
    ASSUME NEW d, NEW t, Covered(d), ~HeldCovered(d, t) PROVE FinallyRead(d, t)
BY DEF Covered, HeldCovered

\* A figure of the cohorts of some days is shown without a caveat only if it is what
\* they earned by the age and every day of the window is in it, whatever columns
\* and days the reports had, however syncs ran, failed and died in between; unless
\* one of the days is held covered although no run finally read it.
THEOREM AvailableFiguresAreComplete == Spec => []AvailableIsComplete
<1>1. ASSUME CohortInv, FiguresHold, NEW from \in Days, NEW to \in Days, NEW t \in RevenueTypes
      PROVE  LET days == CohortDays(from, to)
             IN  (\A x \in days : Mature(x) /\ ~HeldCovered(x.day, t))
                    => SumFunction([x \in days |-> x.revenue[t]]) = Truth({x.day : x \in days}, t)
  <2> DEFINE days == CohortDays(from, to)
             D == {e \in from .. to : e <= installsTo}
             g == [d \in D |-> CohortDay(d)]
             f == [x \in days |-> x.revenue[t]]
  <2> SUFFICES ASSUME \A x \in days : Mature(x) /\ ~HeldCovered(x.day, t)
               PROVE  SumFunction(f) = Truth({x.day : x \in days}, t)
    OBVIOUS
  <2>1. D \subseteq Days /\ IsFiniteSet(D)
    <3>1. from \in Int /\ to \in Int
      BY DaysAreNat
    <3>2. IsFiniteSet(from .. to)
      BY <3>1, FS_Interval
    <3>3. IsFiniteSet(D)
      BY <3>2, FS_Subset
    <3>4. D \subseteq Days
      BY DaysAreNat DEF Days
    <3> QED BY <3>3, <3>4
  <2>2. days = {g[d] : d \in D}
    BY DEF CohortDays
  <2>3. ASSUME NEW d \in D
        PROVE  g[d] \in days /\ g[d].day = d /\ f[g[d]] = Reported(d, t) /\ Reported(d, t) \in Int
    <3>1. g[d] \in days /\ g[d] = CohortDay(d)
      BY <2>2
    <3>2. g[d].day = d /\ (Mature(g[d]) <=> OldEnough(d) /\ Covered(d))
          /\ g[d].revenue[t] = Figure(d, t)
      BY <3>1 DEF CohortDay, Mature
    <3>3. FinallyRead(d, t) /\ OldEnough(d) /\ Covered(d)
      BY <3>1, <3>2, MatureIsRead
    <3>4. Figure(d, t) = Reported(d, t) /\ Reported(d, t) \in Nat
      BY <1>1, <2>1, <3>3, ReportedIsNat DEF FiguresHold, CohortInv
    <3> QED BY <3>1, <3>2, <3>4
  <2>4. SumFunction(f) = SumFunctionOnSet(f, days)
    BY DEF SumFunction
  <2> HIDE DEF f, g, days, D
  <2>5. SumFunctionOnSet(f, days) = SumFunction([d \in D |-> f[g[d]]])
    <3>1. (\A d, e \in D : g[d] = g[e] => d = e) /\ \A d \in D : f[g[d]] \in Int
      BY <2>3
    <3> QED BY <2>1, <2>2, <3>1, SumOfNamed
  <2>6. {x.day : x \in days} = D
    BY <2>2, <2>3
  <2>7. [d \in D |-> f[g[d]]]
        = [d \in D |-> IF t = "total" THEN earned[d]["iap"] + earned[d]["ad"] ELSE earned[d][t]]
    BY <2>3 DEF Reported
  <2>8. Truth(D, t) = SumFunction([d \in D |-> f[g[d]]])
    BY <2>7 DEF Truth
  <2> QED BY <2>4, <2>5, <2>6, <2>8
<1>2. CohortInv /\ FiguresHold => AvailableIsComplete
  <2> SUFFICES ASSUME CohortInv, FiguresHold, NEW days \in Readings, NEW t \in answers,
                      ~\E x \in days : HeldCovered(x.day, t),
                      ~\A measure \in {"revenue", "rpi"} :
                          CohortMetric(t, measure, days, MetricFacts).availability # "available"
               PROVE  /\ SumFunction([x \in days |-> x.revenue[t]]) = Truth({x.day : x \in days}, t)
                      /\ \A x \in days : Mature(x)
    BY DEF AvailableIsComplete
  <2>1. PICK from \in Days, to \in Days : days = CohortDays(from, to)
    BY DEF Readings
  <2>2. \A x \in days : Mature(x)
    BY ShownInFull
  <2>3. t \in RevenueTypes
    BY DEF CohortInv, TablesTyped
  <2> QED BY <1>1, <2>1, <2>2, <2>3
<1> QED BY <1>2, CohortInvariant, PTL

(***************************************************************************)
(* Gates.                                                                  *)
(***************************************************************************)

\* Of gates one of which is closed, the first that is names the signal.
LEMMA FirstClosedIs ==
    ASSUME NEW gates, NEW n \in Nat, DOMAIN gates = 1 .. n, \E k \in 1 .. n : gates[k].closed
    PROVE  \E k \in 1 .. n : /\ gates[k].closed /\ \A m \in 1 .. k - 1 : ~gates[m].closed
                             /\ FirstClosed(gates).signal = gates[k].signal
<1> DEFINE closed == {k \in 1 .. n : gates[k].closed}
           First(k) == gates[k].closed /\ \A m \in 1 .. k - 1 : ~gates[m].closed
<1>1. PICK k \in closed : \A m \in closed : k <= m
  <2>1. closed \subseteq Nat /\ closed # {}
    OBVIOUS
  <2> HIDE DEF closed
  <2> QED BY <2>1, SmallestNumber
<1>2. First(k)
  BY <1>1
<1> DEFINE i == CHOOSE l \in 1 .. n : First(l)
<1>3. i \in 1 .. n /\ First(i)
  <2> HIDE DEF First
  <2> QED BY <1>1, <1>2
<1>4. FirstClosed(gates).signal = gates[i].signal
  BY DEF FirstClosed
<1> QED BY <1>3, <1>4

\* Nothing that keeps a scope from being judged speaks for or against it.
LEMMA ImpedimentsAbstain ==
    ASSUME NEW facts, NEW moves, NEW i \in Impediments(facts, moves)
    PROVE  i.signal \in {"insufficient_data", "investigate"}
<1> DEFINE mapping == MappingGates(facts)
           data == DataGates(facts)
           movement == MovementGates(facts, moves)
           Abstaining(gates, n) ==
               DOMAIN gates = 1 .. n
               /\ \A k \in 1 .. n : gates[k].signal \in {"insufficient_data", "investigate"}
<1>1. Abstaining(mapping, 5)
  BY DEF MappingGates, Gate
<1>2. Abstaining(data, 5)
  BY DEF DataGates, Gate
<1>3. Abstaining(movement, 2)
  BY DEF MovementGates, Gate
<1>4. ASSUME NEW gates, NEW n \in Nat, Abstaining(gates, n), \E k \in DOMAIN gates : gates[k].closed
      PROVE  FirstClosed(gates).signal \in {"insufficient_data", "investigate"}
  BY <1>4, FirstClosedIs
<1>5. \/ i = FirstClosed(mapping) /\ \E k \in DOMAIN mapping : mapping[k].closed
      \/ i = FirstClosed(data) /\ \E k \in DOMAIN data : data[k].closed
      \/ i = FirstClosed(movement) /\ \E k \in DOMAIN movement : movement[k].closed
  BY DEF Impediments
<1> HIDE DEF mapping, data, movement, Abstaining
<1> QED BY <1>1, <1>2, <1>3, <1>4, <1>5

\* A verdict by the return: the part of it that was read is above the band, or the
\* whole of it is below.
LEMMA ReturnVerdict ==
    ASSUME NEW type, NEW days, NEW target
    PROVE  LET mature == {x \in days : x.spend > 0 /\ Mature(x)}
               spend == SumFunction([x \in mature |-> x.spend])
               revenue == SumFunction([x \in mature |-> x.revenue[type]])
               verdict == FirstClosed(ReturnGates(type, days) \o BandGates(type, days, target))
           IN /\ verdict.signal = "scale" => AboveBand(revenue, spend, target)
              /\ verdict.signal = "reduce" => BelowBand(revenue, spend, target) /\ type = "total"
<1> DEFINE mature == {x \in days : x.spend > 0 /\ Mature(x)}
           spend == SumFunction([x \in mature |-> x.spend])
           revenue == SumFunction([x \in mature |-> x.revenue[type]])
           above == AboveBand(revenue, spend, target)
           below == BelowBand(revenue, spend, target)
           first == ReturnGates(type, days)
           second == BandGates(type, days, target)
           gates == first \o second
           values == {first[k] : k \in 1 .. 4} \cup {second[k] : k \in 1 .. 6}
<1>1. /\ DOMAIN first = 1 .. 4 /\ Len(first) = 4 /\ first \in Seq(values)
      /\ \A k \in 1 .. 4 : first[k].signal = "insufficient_data"
  BY DEF ReturnGates, Gate
<1> DEFINE trend == Trend(type, days)
<1>2. second = <<[closed |-> above /\ trend = "deteriorating", signal |-> "hold",
                  blocker |-> "trend_contradicts"],
                 [closed |-> above, signal |-> "scale", blocker |-> None],
                 [closed |-> below /\ type # "total", signal |-> "hold",
                  blocker |-> "partial_return"],
                 [closed |-> below /\ trend = "improving", signal |-> "hold",
                  blocker |-> "trend_contradicts"],
                 [closed |-> below, signal |-> "reduce", blocker |-> None],
                 [closed |-> TRUE, signal |-> "hold", blocker |-> None]>>
  BY DEF BandGates, Gate
<1> HIDE DEF first, second, above, below, trend
<1>3. /\ DOMAIN second = 1 .. 6 /\ Len(second) = 6 /\ second \in Seq(values)
      /\ second[1].signal = "hold" /\ second[3].signal = "hold" /\ second[4].signal = "hold"
      /\ second[6].signal = "hold" /\ second[2].signal = "scale" /\ second[5].signal = "reduce"
      /\ (second[2].closed <=> above) /\ (second[5].closed <=> below)
      /\ (second[3].closed <=> below /\ type # "total") /\ second[6].closed
  <2>1. DOMAIN second = 1 .. 6 /\ Len(second) = 6
    BY <1>2
  <2>2. /\ second[1] \in values /\ second[2] \in values /\ second[3] \in values
        /\ second[4] \in values /\ second[5] \in values /\ second[6] \in values
    OBVIOUS
  <2> HIDE DEF values
  <2>3. second \in Seq(values)
    BY <1>2, <2>2
  <2> QED BY <1>2, <2>1, <2>3
<1>4. /\ DOMAIN gates = 1 .. 10
      /\ \A k \in 1 .. 4 : gates[k] = first[k]
      /\ \A k \in 5 .. 10 : gates[k] = second[k - 4]
  <2> HIDE DEF values
  <2>1. /\ first \in Seq(values) /\ second \in Seq(values)
        /\ Len(first) = 4 /\ Len(second) = 6
    BY <1>1, <1>3
  <2>2. /\ gates \in Seq(values) /\ Len(gates) = Len(first) + Len(second)
        /\ \A k \in 1 .. Len(first) + Len(second) :
              gates[k] = IF k <= Len(first) THEN first[k] ELSE second[k - Len(first)]
    <3> HIDE DEF gates
    <3> QED BY <2>1, ConcatProperties, Zenon DEF gates
  <2> HIDE DEF gates
  <2> QED BY <2>1, <2>2
<1> HIDE DEF gates
<1>5. PICK k \in 1 .. 10 : /\ gates[k].closed /\ \A m \in 1 .. k - 1 : ~gates[m].closed
                           /\ FirstClosed(gates).signal = gates[k].signal
  <2>1. gates[10] = second[6] /\ 10 \in 1 .. 10 /\ 10 \in Nat
    BY <1>4
  <2>2. \E k \in 1 .. 10 : gates[k].closed
    BY <1>3, <2>1, Zenon
  <2> QED BY <1>4, <2>1, <2>2, FirstClosedIs, Zenon
<1>6. ASSUME gates[k].signal = "scale" PROVE above
  <2>1. k = 6
    BY <1>1, <1>3, <1>4, <1>6
  <2> QED BY <1>3, <1>4, <1>5, <2>1
<1>7. ASSUME gates[k].signal = "reduce" PROVE below /\ type = "total"
  <2>1. k = 9
    BY <1>1, <1>3, <1>4, <1>7
  <2>2. ~second[3].closed
    BY <1>4, <1>5, <2>1
  <2> QED BY <1>3, <1>4, <1>5, <2>1, <2>2
<1> QED BY <1>5, <1>6, <1>7 DEF gates, first, second, above, below

\* A verdict by the cost of an install.
LEMMA CostVerdict ==
    ASSUME NEW days, NEW facts, NEW policy
    PROVE  LET settled == {x \in days : x.spend > 0 /\ x.settled}
               spend == SumFunction([x \in settled |-> x.spend])
               installs == SumFunction([x \in settled |-> x.installs])
               verdict == FirstClosed(CpiGates(days, facts, policy))
           IN /\ verdict.signal = "scale" => BelowBand(spend, installs, policy.cpi)
              /\ verdict.signal = "reduce" => AboveBand(spend, installs, policy.cpi)
<1> DEFINE settled == {x \in days : x.spend > 0 /\ x.settled}
           spend == SumFunction([x \in settled |-> x.spend])
           installs == SumFunction([x \in settled |-> x.installs])
           above == AboveBand(spend, installs, policy.cpi)
           below == BelowBand(spend, installs, policy.cpi)
           gates == CpiGates(days, facts, policy)
<1> DEFINE mixed == \E c \in facts.spendIn : policy.currency \notin {None, c}
           few == spend < MinSpend \/ installs < MinInstalls
<1>1. gates = <<[closed |-> mixed, signal |-> "hold", blocker |-> "mixed_currency"],
                [closed |-> few, signal |-> "insufficient_data",
                 blocker |-> "missing_denominator"],
                [closed |-> below, signal |-> "scale", blocker |-> None],
                [closed |-> above, signal |-> "reduce", blocker |-> None],
                [closed |-> TRUE, signal |-> "hold", blocker |-> None]>>
  BY DEF CpiGates, Gate
<1> HIDE DEF gates, above, below, mixed, few
<1>2. /\ DOMAIN gates = 1 .. 5
      /\ gates[1].signal = "hold" /\ gates[2].signal = "insufficient_data"
      /\ gates[3].signal = "scale" /\ gates[4].signal = "reduce" /\ gates[5].signal = "hold"
      /\ (gates[3].closed <=> below) /\ (gates[4].closed <=> above) /\ gates[5].closed
  BY <1>1
<1>3. PICK k \in 1 .. 5 : gates[k].closed /\ FirstClosed(gates).signal = gates[k].signal
  <2>1. 5 \in Nat /\ \E k \in 1 .. 5 : gates[k].closed
    BY <1>2
  <2> QED BY <1>2, <2>1, FirstClosedIs, Zenon
<1>4. gates[k].signal = "scale" => below
  BY <1>2, <1>3
<1>5. gates[k].signal = "reduce" => above
  BY <1>2, <1>3
<1> QED BY <1>3, <1>4, <1>5 DEF gates, above, below

\* Without a target there is nothing to say but 'hold'.
LEMMA NoTargetHolds ==
    ASSUME NEW closed, NEW blocker, NEW other
    PROVE  FirstClosed(<<Gate(closed, "hold", blocker), Gate(TRUE, "hold", other)>>).signal = "hold"
<1> DEFINE gates == <<Gate(closed, "hold", blocker), Gate(TRUE, "hold", other)>>
<1>1. /\ DOMAIN gates = 1 .. 2 /\ gates[1].signal = "hold" /\ gates[2].signal = "hold"
      /\ gates[2].closed
  BY DEF Gate
<1> HIDE DEF gates
<1>2. 2 \in Nat /\ \E k \in 1 .. 2 : gates[k].closed
  BY <1>1
<1>3. PICK k \in 1 .. 2 : FirstClosed(gates).signal = gates[k].signal
  BY <1>1, <1>2, FirstClosedIs, Zenon
<1>4. k = 1 \/ k = 2
  OBVIOUS
<1> QED BY <1>1, <1>3, <1>4 DEF gates

(***************************************************************************)
(* The newest day of either stream.                                        *)
(***************************************************************************)

HorizonsTyped == installsTo \in Nat /\ latest \in Nat

\* The newest day a run read, if it read any.
LEMMA NewestIsNat == ASSUME CohortInv, run.phase = "complete" PROVE Newest \in Nat
<1>1. run.rows = << >> \/ (DOMAIN run.rows # {} /\ DOMAIN run.rows \subseteq Days)
  <2>1. run \in {Idle} \cup Fetching \cup Broken \cup Reading
    BY DEF CohortInv, RunOk
  <2>2. run # Idle /\ run \notin Fetching
    <3>1. Idle.phase = "idle" /\ \A r \in Fetching : r.phase = "fetch"
      BY DEF Idle, Fetching
    <3> QED BY <3>1
  <2>3. CASE run \in Broken
    BY <2>3 DEF Broken
  <2>4. CASE run \in Reading
    <3>1. run.rows \in ReadRows
      BY <2>4 DEF Reading
    <3>2. PICK days \in SUBSET Days : run.rows \in RowsOf(days)
      BY <3>1 DEF ReadRows
    <3>3. PICK types \in SUBSET RevenueTypes : run.rows \in [days -> [types -> Nat]]
      BY <3>2 DEF RowsOf
    <3>4. DOMAIN run.rows = {} => run.rows = << >>
      <4>1. \A f \in [{} -> [types -> Nat]] : f = << >>
        OBVIOUS
      <4> QED BY <3>3, <4>1
    <3> QED BY <3>3, <3>4
  <2> QED BY <2>1, <2>2, <2>3, <2>4
<1>2. CASE run.rows = << >>
  BY <1>2 DEF Newest, NoDay
<1>3. CASE run.rows # << >>
  <2> DEFINE days == DOMAIN run.rows
  <2>1. days # {} /\ days \subseteq 0 .. LastDay /\ LastDay \in Nat
    BY <1>1, <1>3, DaysAreNat DEF Days
  <2> HIDE DEF days
  <2>2. \E x \in days : \A y \in days : y <= x
    BY <2>1, GreatestNumber
  <2>3. \A x, y \in days : (x >= y <=> y <= x) /\ x \in Nat
    BY <2>1
  <2>4. Max(days) \in days
    BY <2>2, <2>3 DEF Max
  <2>5. Newest = Max(days)
    BY <1>3 DEF Newest, days
  <2> QED BY <2>3, <2>4, <2>5
<1> QED BY <1>2, <1>3

\* Days pass and runs complete; no other step moves a horizon.
LEMMA HorizonsStep == CohortInv /\ HorizonsTyped /\ [Next]_vars => HorizonsTyped'
<1> SUFFICES ASSUME CohortInv, HorizonsTyped, [Next]_vars PROVE HorizonsTyped'
  OBVIOUS
<1>1. CASE NextDay
  <2>1. today \in Nat
    BY DaysAreNat DEF CohortInv, TablesTyped
  <2> QED BY <1>1, <2>1 DEF NextDay, HorizonsTyped
<1>2. CASE CompleteRun
  <2>1. Newest \in Nat
    BY <1>2, NewestIsNat DEF CompleteRun
  <2> QED BY <1>2, <2>1 DEF CompleteRun, HorizonsTyped
<1>3. CASE (\E d \in Earning, c \in Components : Earn(d, c)) \/ EditReports \/ StartRun
  BY <1>3 DEF Earn, EditReports, StartRun, HorizonsTyped
<1>4. CASE Fetch \/ PersistWindow \/ Die \/ UNCHANGED vars
  BY <1>4 DEF Fetch, PersistWindow, Die, vars, HorizonsTyped
<1> QED BY <1>1, <1>2, <1>3, <1>4 DEF Next

LEMMA HorizonsStart == Init => HorizonsTyped
BY DEF Init, HorizonsTyped, NoDay

(***************************************************************************)
(* What is read of the days of a scope.                                    *)
(***************************************************************************)

Spent(c, ids, d) == {id \in ids : c.campaigns[id].spend[d] > 0}

SpendOn(c, ids, d) == SumFunction([id \in ids |-> c.campaigns[id].spend[d]])

InstallsOn(c, ids, d) == SumFunction([id \in Spent(c, ids, d) |-> c.campaigns[id].installs[d]])

\* The cohort of the one campaign that earns, on the days it spends.
CohortOn(c, ids, d, t) ==
    IF "this" \in ids /\ c.campaigns["this"].spend[d] > 0 THEN Figure(d, t) ELSE 0

DayIs(x, c, ids, d) ==
    /\ x.day = d /\ (Mature(x) <=> OldEnough(d) /\ Covered(d)) /\ (x.settled <=> d < Horizon)
    /\ x.spend = SpendOn(c, ids, d)
    /\ x.spend > 0 /\ d <= installsTo => x.installs = InstallsOn(c, ids, d)
    /\ x.spend > 0 => \A t \in RevenueTypes : x.revenue[t] = CohortOn(c, ids, d, t)

\* What is assumed of the campaigns of a circumstance.
LEMMA CampaignsAre ==
    ASSUME NEW c \in Circumstances
    PROVE  /\ IsFiniteSet(DOMAIN c.campaigns) /\ IsFiniteSet(Mapped(c))
           /\ Mapped(c) \subseteq DOMAIN c.campaigns
           /\ \A id \in DOMAIN c.campaigns, d \in Days :
                 c.campaigns[id].spend[d] \in Nat /\ c.campaigns[id].installs[d] \in Nat
<1>1. IsFiniteSet(DOMAIN c.campaigns) /\ Mapped(c) \subseteq DOMAIN c.campaigns
  BY DecisionsAssumption DEF DecisionsAssumption, Mapped
<1>2. IsFiniteSet(Mapped(c))
  BY <1>1, FS_Subset
<1> QED BY <1>1, <1>2, DecisionsAssumption DEF DecisionsAssumption

\* A day of one campaign with an operational link.
LEMMA CampaignDayIs ==
    ASSUME NEW c \in Circumstances, NEW id \in DOMAIN c.campaigns, c.campaigns[id].operational,
           NEW d \in Days
    PROVE  LET k == c.campaigns[id]
           IN DayIs(Day(d, SpendOf(k, d), AlignedInstalls(k, d), CohortOf(c, id, d)), c, {id}, d)
<1> DEFINE k == c.campaigns[id]
           x == Day(d, SpendOf(k, d), AlignedInstalls(k, d), CohortOf(c, id, d))
<1>1. k.spend[d] \in Nat /\ k.installs[d] \in Nat
  BY CampaignsAre
<1>2. /\ x.day = d /\ x.spend = k.spend[d] /\ x.installs = AlignedInstalls(k, d)
      /\ x.revenue = CohortOf(c, id, d) /\ x.oldEnough = OldEnough(d)
      /\ x.covered = Covered(d) /\ x.settled = (d < Horizon)
  BY DEF Day, SpendOf
<1>3. SpendOn(c, {id}, d) = k.spend[d]
  <2> DEFINE f == [i \in {id} |-> c.campaigns[i].spend[d]]
  <2>1. f[id] = k.spend[d] /\ DOMAIN f = {id} /\ SpendOn(c, {id}, d) = SumFunction(f)
    BY DEF SpendOn
  <2> HIDE DEF f
  <2> QED BY <1>1, <2>1, SumOfOne DEF SumFunction
<1>4. ASSUME k.spend[d] > 0, d <= installsTo
      PROVE  AlignedInstalls(k, d) = InstallsOn(c, {id}, d)
  <2> DEFINE f == [i \in {id} |-> c.campaigns[i].installs[d]]
  <2>1. Spent(c, {id}, d) = {id}
    BY <1>4 DEF Spent
  <2>2. f[id] = k.installs[d] /\ DOMAIN f = {id} /\ InstallsOn(c, {id}, d) = SumFunction(f)
    BY <2>1 DEF InstallsOn
  <2>3. AlignedInstalls(k, d) = k.installs[d]
    BY <1>4 DEF AlignedInstalls, SpendOf, InstallsOf
  <2> HIDE DEF f
  <2> QED BY <1>1, <2>2, <2>3, SumOfOne DEF SumFunction
<1>5. k.spend[d] > 0 => \A t \in RevenueTypes : CohortOf(c, id, d)[t] = CohortOn(c, {id}, d, t)
  BY DEF CohortOf, CohortOn
<1> HIDE DEF x, k
<1>6. Mature(x) <=> OldEnough(d) /\ Covered(d)
  BY <1>2 DEF Mature
<1>7. DayIs(x, c, {id}, d)
  BY <1>2, <1>3, <1>4, <1>5, <1>6 DEF DayIs
<1> QED BY <1>7 DEF x, k

\* A day of the app: its mapped campaigns, of which one has a cohort.
LEMMA AppDayIs ==
    ASSUME CohortInv, FiguresHold, NEW c \in Circumstances, NEW d \in Days, NEW x,
           LET k == c.campaigns
               spending == {id \in Mapped(c) : SpendOf(k[id], d) > 0}
           IN x = Day(d, SumFunction([id \in Mapped(c) |-> SpendOf(k[id], d)]),
                      SumFunction([id \in spending |-> InstallsOf(k[id], d)]),
                      [t \in RevenueTypes |->
                          SumFunction([id \in spending |-> CohortOf(c, id, d)[t]])])
    PROVE  DayIs(x, c, Mapped(c), d)
<1> DEFINE ids == Mapped(c)
           spending == Spent(c, ids, d)
           revenue(t) == SumFunction([id \in spending |-> CohortOf(c, id, d)[t]])
<1>1. spending = {id \in Mapped(c) : SpendOf(c.campaigns[id], d) > 0}
  BY DEF Spent, SpendOf
<1>2. /\ x.day = d /\ x.spend = SpendOn(c, ids, d)
      /\ x.installs = SumFunction([id \in spending |-> InstallsOf(c.campaigns[id], d)])
      /\ x.revenue = [t \in RevenueTypes |-> revenue(t)]
      /\ x.oldEnough = OldEnough(d) /\ x.covered = Covered(d) /\ x.settled = (d < Horizon)
  BY <1>1 DEF Day, SpendOn, SpendOf
<1>3. ASSUME d <= installsTo PROVE x.installs = InstallsOn(c, ids, d)
  <2>1. [id \in spending |-> InstallsOf(c.campaigns[id], d)]
        = [id \in spending |-> c.campaigns[id].installs[d]]
    BY <1>3 DEF InstallsOf, Spent, Mapped
  <2> HIDE DEF spending
  <2> QED BY <1>2, <2>1 DEF InstallsOn, spending
<1>4. ASSUME NEW t \in RevenueTypes PROVE revenue(t) = CohortOn(c, ids, d, t)
  <2> DEFINE f == [id \in spending |-> CohortOf(c, id, d)[t]]
  <2>1. IsFiniteSet(spending) /\ spending \subseteq Mapped(c)
    BY CampaignsAre, FS_Subset DEF Spent
  <2>2. \A id \in spending : f[id] = IF id = "this" THEN Figure(d, t) ELSE 0
    BY DEF CohortOf, Spent, Mapped
  <2>3. Figure(d, t) \in Int
    BY DEF FiguresHold
  <2>4. revenue(t) = SumFunctionOnSet(f, spending)
    BY DEF SumFunction
  <2>5. "this" \in spending <=> "this" \in ids /\ c.campaigns["this"].spend[d] > 0
    BY DEF Spent
  <2> HIDE DEF f, spending, ids
  <2>6. CASE "this" \in spending
    <3>1. {"this"} \in SUBSET spending /\ (\A id \in spending : f[id] \in Int)
          /\ (\A id \in spending \ {"this"} : f[id] = 0) /\ f["this"] = Figure(d, t)
      BY <2>2, <2>3, <2>6
    <3>2. SumFunctionOnSet(f, spending) = SumFunctionOnSet(f, {"this"})
      BY <2>1, <3>1, SumOfPart
    <3>3. SumFunctionOnSet(f, {"this"}) = Figure(d, t)
      BY <2>3, <3>1, SumOfOne
    <3> QED BY <2>4, <2>5, <2>6, <3>2, <3>3 DEF CohortOn
  <2>7. CASE "this" \notin spending
    <3>1. \A id \in spending : f[id] = 0
      BY <2>2, <2>7
    <3>2. SumFunctionOnSet(f, spending) = 0
      BY <2>1, <3>1, SumOfZeros
    <3> QED BY <2>4, <2>5, <2>7, <3>2 DEF CohortOn
  <2> QED BY <2>6, <2>7
<1>5. \A t \in RevenueTypes : x.revenue[t] = CohortOn(c, ids, d, t)
  <2> HIDE DEF revenue
  <2> QED BY <1>2, <1>4
<1>6. Mature(x) <=> OldEnough(d) /\ Covered(d)
  BY <1>2 DEF Mature
<1> HIDE DEF revenue, spending
<1>7. DayIs(x, c, ids, d)
  BY <1>2, <1>3, <1>5, <1>6 DEF DayIs
<1> QED BY <1>7

\* A campaign whose link is operational, and the app, are read day by day.
LEMMA ScopeDaysAre ==
    ASSUME CohortInv, FiguresHold, NEW c \in Circumstances, NEW from \in Days, NEW to \in Days,
           NEW scope \in Scopes(c, from, to), scope.isApp \/ scope.mapping.operational
    PROVE  /\ IsFiniteSet(scope.ids) /\ scope.ids \subseteq DOMAIN c.campaigns
           /\ \E g : /\ ScopeDays(c, scope, from, to) = {g[d] : d \in from .. to}
                    /\ \A d \in from .. to : DayIs(g[d], c, scope.ids, d)
<1>1. from .. to \subseteq Days
  BY DaysAreNat DEF Days
<1>2. CASE scope.isApp
  <2>1. scope.ids = Mapped(c)
    BY <1>2 DEF Scopes
  <2> DEFINE k == c.campaigns
             spending(d) == {id \in Mapped(c) : SpendOf(k[id], d) > 0}
             appDay(d) == Day(d, SumFunction([id \in Mapped(c) |-> SpendOf(k[id], d)]),
                              SumFunction([id \in spending(d) |-> InstallsOf(k[id], d)]),
                              [t \in RevenueTypes |->
                                  SumFunction([id \in spending(d) |-> CohortOf(c, id, d)[t]])])
             g == [d \in from .. to |-> appDay(d)]
  <2>2. \A d \in from .. to : DayIs(appDay(d), c, Mapped(c), d)
    BY <1>1, AppDayIs
  <2>3. ScopeDays(c, scope, from, to) = {appDay(d) : d \in from .. to}
    BY <1>2 DEF ScopeDays, AppDays
  <2> HIDE DEF appDay
  <2>4. /\ ScopeDays(c, scope, from, to) = {g[d] : d \in from .. to}
        /\ \A d \in from .. to : DayIs(g[d], c, scope.ids, d)
    BY <2>1, <2>2, <2>3
  <2> HIDE DEF g
  <2> QED BY <2>1, <2>4, CampaignsAre
<1>3. CASE ~scope.isApp
  <2>1. PICK id \in DOMAIN c.campaigns : scope.ids = {id} /\ scope.mapping = c.campaigns[id]
    BY <1>3 DEF Scopes
  <2> DEFINE k == c.campaigns[id]
             campaignDay(d) == Day(d, SpendOf(k, d), AlignedInstalls(k, d), CohortOf(c, id, d))
             g == [d \in from .. to |-> campaignDay(d)]
  <2>2. \A d \in from .. to : DayIs(campaignDay(d), c, {id}, d)
    BY <1>1, <1>3, <2>1, CampaignDayIs
  <2>3. (CHOOSE i \in scope.ids : TRUE) = id
    BY <2>1
  <2>4. ScopeDays(c, scope, from, to) = {campaignDay(d) : d \in from .. to}
    BY <1>3, <2>3 DEF ScopeDays, CampaignDays
  <2> HIDE DEF campaignDay
  <2>5. /\ ScopeDays(c, scope, from, to) = {g[d] : d \in from .. to}
        /\ \A d \in from .. to : DayIs(g[d], c, scope.ids, d)
    BY <2>1, <2>2, <2>4
  <2> HIDE DEF g
  <2> QED BY <2>1, <2>5, FS_Singleton
<1> QED BY <1>2, <1>3

\* Records that each carry their own day add up as their days do.
LEMMA SumOfDays ==
    ASSUME NEW D, IsFiniteSet(D), NEW g, \A d \in D : g[d].day = d,
           NEW f, DOMAIN f = {g[d] : d \in D},
           NEW h, \A d \in D : f[g[d]] = h[d] /\ h[d] \in Int
    PROVE  SumFunction(f) = SumFunction([d \in D |-> h[d]])
<1>1. \A d, e \in D : g[d] = g[e] => d = e
  OBVIOUS
<1>2. SumFunctionOnSet(f, {g[d] : d \in D}) = SumFunction([d \in D |-> f[g[d]]])
  BY <1>1, SumOfNamed
<1>3. [d \in D |-> f[g[d]]] = [d \in D |-> h[d]]
  OBVIOUS
<1> QED BY <1>2, <1>3 DEF SumFunction

LEMMA IntervalOfDays ==
    ASSUME NEW from \in Days, NEW to \in Days
    PROVE  from .. to \subseteq Days /\ IsFiniteSet(from .. to)
<1>1. from \in Int /\ to \in Int
  BY DaysAreNat
<1>2. IsFiniteSet(from .. to)
  BY <1>1, FS_Interval
<1>3. from .. to \subseteq Days
  BY DaysAreNat DEF Days
<1> QED BY <1>2, <1>3

LEMMA SpendOnIsNat ==
    ASSUME NEW c \in Circumstances, NEW ids, IsFiniteSet(ids), ids \subseteq DOMAIN c.campaigns,
           NEW d \in Days
    PROVE  SpendOn(c, ids, d) \in Nat /\ InstallsOn(c, ids, d) \in Nat
<1> DEFINE spend == [id \in ids |-> c.campaigns[id].spend[d]]
           installs == [id \in Spent(c, ids, d) |-> c.campaigns[id].installs[d]]
<1>1. /\ DOMAIN spend = ids /\ \A id \in ids : spend[id] \in Nat
      /\ DOMAIN installs = Spent(c, ids, d) /\ IsFiniteSet(Spent(c, ids, d))
      /\ \A id \in Spent(c, ids, d) : installs[id] \in Nat
  BY CampaignsAre, FS_Subset DEF Spent
<1>2. SpendOn(c, ids, d) = SumFunction(spend) /\ InstallsOn(c, ids, d) = SumFunction(installs)
  BY DEF SpendOn, InstallsOn
<1> HIDE DEF spend, installs
<1> QED BY <1>1, <1>2, SumIsNat DEF SumFunction

\* The sums of a verdict by the return, as those of the days evaluated.
LEMMA EvaluatedSums ==
    ASSUME CohortInv, FiguresHold, NEW c \in Circumstances, NEW from \in Days, NEW to \in Days,
           NEW ids, IsFiniteSet(ids), ids \subseteq DOMAIN c.campaigns,
           NEW g, NEW days, days = {g[d] : d \in from .. to},
           \A d \in from .. to : DayIs(g[d], c, ids, d), NEW t \in RevenueTypes
    PROVE  LET mature == {x \in days : x.spend > 0 /\ Mature(x)}
               on == Evaluated(days)
           IN /\ on \subseteq Days /\ IsFiniteSet(on)
              /\ \A d \in on : OldEnough(d) /\ Covered(d)
              /\ SumFunction([x \in mature |-> x.spend])
                    = SumFunction([d \in on |-> SpendOn(c, ids, d)])
              /\ SumFunction([x \in mature |-> x.revenue[t]])
                    = SumFunction([d \in on |-> CohortOn(c, ids, d, t)])
<1> DEFINE mature == {x \in days : x.spend > 0 /\ Mature(x)}
           D == {d \in from .. to : g[d].spend > 0 /\ Mature(g[d])}
           spend == [x \in mature |-> x.spend]
           revenue == [x \in mature |-> x.revenue[t]]
           spendOn == [d \in D |-> SpendOn(c, ids, d)]
           cohortOn == [d \in D |-> CohortOn(c, ids, d, t)]
<1>1. from .. to \subseteq Days /\ IsFiniteSet(from .. to)
  BY IntervalOfDays
<1>2. IsFiniteSet(D) /\ D \subseteq Days
  BY <1>1, FS_Subset
<1>3. mature = {g[d] : d \in D}
  OBVIOUS
<1>4. \A d \in D : g[d].day = d /\ OldEnough(d) /\ Covered(d)
  BY DEF DayIs
<1>5. Evaluated(days) = D
  <2>1. Evaluated(days) = {x.day : x \in mature}
    BY DEF Evaluated
  <2> QED BY <1>3, <1>4, <2>1
<1>6. ASSUME NEW d \in D
      PROVE  /\ spend[g[d]] = spendOn[d] /\ spendOn[d] \in Int
             /\ revenue[g[d]] = cohortOn[d] /\ cohortOn[d] \in Int
  <2>1. DayIs(g[d], c, ids, d) /\ g[d].spend > 0 /\ g[d] \in mature /\ d \in Days
    BY <1>2, <1>3
  <2>2. SpendOn(c, ids, d) \in Int
    BY <2>1, SpendOnIsNat
  <2>3. CohortOn(c, ids, d, t) \in Int
    BY <2>1 DEF CohortOn, FiguresHold
  <2> QED BY <2>1, <2>2, <2>3 DEF DayIs
<1>7. DOMAIN spend = {g[d] : d \in D} /\ DOMAIN revenue = {g[d] : d \in D}
  BY <1>3
<1> HIDE DEF spend, revenue, D, mature, spendOn, cohortOn
<1>8. /\ SumFunction(spend) = SumFunction([d \in D |-> spendOn[d]])
      /\ SumFunction(revenue) = SumFunction([d \in D |-> cohortOn[d]])
  <2>1. \A d \in D : g[d].day = d
    BY <1>4
  <2>2. SumFunction(spend) = SumFunction([d \in D |-> spendOn[d]])
    <3>1. \A d \in D : spend[g[d]] = spendOn[d] /\ spendOn[d] \in Int
      BY <1>6
    <3> QED BY <1>2, <1>7, <2>1, <3>1, SumOfDays
  <2>3. SumFunction(revenue) = SumFunction([d \in D |-> cohortOn[d]])
    <3>1. \A d \in D : revenue[g[d]] = cohortOn[d] /\ cohortOn[d] \in Int
      BY <1>6
    <3> QED BY <1>2, <1>7, <2>1, <3>1, SumOfDays
  <2> QED BY <2>2, <2>3
<1>9. /\ [d \in D |-> spendOn[d]] = [d \in D |-> SpendOn(c, ids, d)]
      /\ [d \in D |-> cohortOn[d]] = [d \in D |-> CohortOn(c, ids, d, t)]
  BY DEF spendOn, cohortOn
<1> QED BY <1>2, <1>4, <1>5, <1>8, <1>9 DEF spend, revenue, mature

\* And those of a verdict by the cost of an install.
SettledSpend(days) == SumFunction([x \in {y \in days : y.spend > 0 /\ y.settled} |-> x.spend])

SettledInstalls(days) ==
    SumFunction([x \in {y \in days : y.spend > 0 /\ y.settled} |-> x.installs])

LEMMA SettledSums ==
    ASSUME HorizonsTyped, NEW c \in Circumstances, NEW from \in Days, NEW to \in Days,
           NEW scope, IsFiniteSet(scope.ids), scope.ids \subseteq DOMAIN c.campaigns,
           NEW g, NEW days, days = {g[d] : d \in from .. to},
           \A d \in from .. to : DayIs(g[d], c, scope.ids, d)
    PROVE  LET on == SettledDays(days)
           IN /\ SettledSpend(days) = SpentOn(scope, c, on)
              /\ SettledInstalls(days) = TrueInstalls(scope, c, on)
<1> DEFINE ids == scope.ids
           settled == {x \in days : x.spend > 0 /\ x.settled}
           D == {d \in from .. to : g[d].spend > 0 /\ g[d].settled}
           spend == [x \in settled |-> x.spend]
           installs == [x \in settled |-> x.installs]
           spendOn == [d \in D |-> SpendOn(c, ids, d)]
           installsOn == [d \in D |-> InstallsOn(c, ids, d)]
<1>1. from .. to \subseteq Days /\ IsFiniteSet(from .. to)
  BY IntervalOfDays
<1>2. IsFiniteSet(D) /\ D \subseteq Days
  BY <1>1, FS_Subset
<1>3. settled = {g[d] : d \in D}
  OBVIOUS
<1>4. \A d \in D : g[d].day = d /\ d < Horizon
  BY DEF DayIs
<1>5. SettledDays(days) = D
  <2>1. SettledDays(days) = {x.day : x \in settled}
    BY DEF SettledDays
  <2> QED BY <1>3, <1>4, <2>1
<1>6. ASSUME NEW d \in D
      PROVE  /\ spend[g[d]] = spendOn[d] /\ spendOn[d] \in Int
             /\ installs[g[d]] = installsOn[d] /\ installsOn[d] \in Int
  <2>1. DayIs(g[d], c, ids, d) /\ g[d].spend > 0 /\ g[d] \in settled /\ d \in Days /\ d \in Nat
    BY <1>2, <1>3, DaysAreNat
  <2>2. d <= installsTo
    BY <1>4, <2>1 DEF Horizon, HorizonsTyped
  <2>3. SpendOn(c, ids, d) \in Int /\ InstallsOn(c, ids, d) \in Int
    BY <2>1, SpendOnIsNat
  <2> QED BY <2>1, <2>2, <2>3 DEF DayIs
<1>7. DOMAIN spend = {g[d] : d \in D} /\ DOMAIN installs = {g[d] : d \in D}
  BY <1>3
<1> HIDE DEF spend, installs, D, settled, spendOn, installsOn, ids
<1>8. /\ SumFunction(spend) = SumFunction([d \in D |-> spendOn[d]])
      /\ SumFunction(installs) = SumFunction([d \in D |-> installsOn[d]])
  <2>1. \A d \in D : g[d].day = d
    BY <1>4
  <2>2. SumFunction(spend) = SumFunction([d \in D |-> spendOn[d]])
    <3>1. \A d \in D : spend[g[d]] = spendOn[d] /\ spendOn[d] \in Int
      BY <1>6
    <3> QED BY <1>2, <1>7, <2>1, <3>1, SumOfDays
  <2>3. SumFunction(installs) = SumFunction([d \in D |-> installsOn[d]])
    <3>1. \A d \in D : installs[g[d]] = installsOn[d] /\ installsOn[d] \in Int
      BY <1>6
    <3> QED BY <1>2, <1>7, <2>1, <3>1, SumOfDays
  <2> QED BY <2>2, <2>3
<1>9. /\ SumFunction([d \in D |-> spendOn[d]]) = SpentOn(scope, c, D)
      /\ SumFunction([d \in D |-> installsOn[d]]) = TrueInstalls(scope, c, D)
  <2>1. /\ [d \in D |-> spendOn[d]] = [d \in D |-> SpendOn(c, ids, d)]
        /\ [d \in D |-> installsOn[d]] = [d \in D |-> InstallsOn(c, ids, d)]
    BY DEF spendOn, installsOn
  <2> QED BY <2>1 DEF SpentOn, SpendOn, TrueInstalls, InstallsOn, Spent, ids
<1>10. SettledSpend(days) = SumFunction(spend) /\ SettledInstalls(days) = SumFunction(installs)
  BY DEF SettledSpend, SettledInstalls, spend, installs, settled
<1> QED BY <1>5, <1>8, <1>9, <1>10

(***************************************************************************)
(* Verdicts.                                                               *)
(***************************************************************************)

\* What counts of the cohorts that the spend bought is no more than they earned;
\* and all of it, where each figure of a day is.
LEMMA ReturnIsTrue ==
    ASSUME CohortInv, FiguresHold, NEW c, NEW scope, NEW t \in RevenueTypes,
           NEW on \in SUBSET Days, IsFiniteSet(on)
    PROVE  LET counted == SumFunction([d \in on |-> CohortOn(c, scope.ids, d, t)])
           IN /\ counted \in Int /\ TrueReturn(scope, c, on) \in Int
              /\ counted <= TrueReturn(scope, c, on)
              /\ (\A d \in on : Figure(d, t) = Reported(d, "total"))
                    => counted = TrueReturn(scope, c, on)
<1> DEFINE f == [d \in on |-> CohortOn(c, scope.ids, d, t)]
           A == {d \in on : "this" \in scope.ids /\ c.campaigns["this"].spend[d] > 0}
           h == [d \in A |-> IF "total" = "total" THEN earned[d]["iap"] + earned[d]["ad"]
                             ELSE earned[d]["total"]]
<1>1. A \in SUBSET on /\ IsFiniteSet(A)
  BY FS_Subset
<1>2. TrueReturn(scope, c, on) = SumFunctionOnSet(h, A)
  BY DEF TrueReturn, Truth, SumFunction
<1>3. SumFunction(f) = SumFunctionOnSet(f, on)
  BY DEF SumFunction
<1>4. ASSUME NEW d \in on PROVE f[d] \in Int /\ (d \notin A => f[d] = 0)
  BY DEF FiguresHold, CohortOn
<1>5. ASSUME NEW d \in A
      PROVE  /\ f[d] \in Int /\ h[d] \in Int /\ f[d] <= h[d]
             /\ Figure(d, t) = Reported(d, "total") => f[d] = h[d]
  <2>1. d \in Days /\ Figure(d, t) \in Nat /\ Figure(d, t) <= Reported(d, t)
    BY DEF FiguresHold
  <2>2. f[d] = Figure(d, t) /\ h[d] = Reported(d, "total")
    BY DEF CohortOn, Reported
  <2>3. \A u \in RevenueTypes : Reported(d, u) \in Nat
    BY <2>1, ReportedIsNat DEF CohortInv
  <2>4. Reported(d, t) <= Reported(d, "total")
    BY <2>3, DaysAreNat DEF Reported
  <2> HIDE DEF f, h
  <2> QED BY <2>1, <2>2, <2>3, <2>4, DaysAreNat
<1> HIDE DEF f, h, A
<1>6. SumFunctionOnSet(f, on) = SumFunctionOnSet(f, A)
  BY <1>1, <1>4, SumOfPart
<1>7. /\ SumFunctionOnSet(f, A) \in Int /\ SumFunctionOnSet(h, A) \in Int
      /\ SumFunctionOnSet(f, A) <= SumFunctionOnSet(h, A)
  BY <1>1, <1>5, SumIsInt, SumGrows
<1>8. ASSUME \A d \in on : Figure(d, t) = Reported(d, "total")
      PROVE  SumFunctionOnSet(f, A) = SumFunctionOnSet(h, A)
  BY <1>1, <1>5, <1>8, SumIsOfValues
<1> QED BY <1>2, <1>3, <1>6, <1>7, <1>8 DEF f

\* Targets that are stored are those an operator may submit.
LEMMA PoliciesTyped == \A policy \in Policies : policy.roas \in Nat /\ policy.cpi \in Nat
BY DecisionsAssumption DEF DecisionsAssumption, Policies, NoPolicy, PutPolicy

\* A scope that nothing keeps from being judged is the app, or a campaign whose
\* link is operational.
LEMMA JudgedIsOperational ==
    ASSUME NEW facts, NEW moves, Impediments(facts, moves) = {}
    PROVE  facts.isApp \/ facts.operational
<1> DEFINE gates == MappingGates(facts)
<1>1. ~\E i \in DOMAIN gates : gates[i].closed
  BY DEF Impediments
<1>2. 3 \in DOMAIN gates /\ gates[3].closed = (~facts.isApp /\ ~facts.operational)
  BY DEF MappingGates, Gate
<1> HIDE DEF gates
<1> QED BY <1>1, <1>2

\* One scope, one reading and one policy.
LEMMA SignalHolds ==
    ASSUME CohortInv, FiguresHold, HorizonsTyped, NEW from \in Days, NEW to \in Days,
           NEW c \in Circumstances, NEW scope \in Scopes(c, from, to), NEW policy \in Policies
    PROVE  LET signal == Signal(c, scope, from, to)
               days == ScopeDays(c, scope, from, to)
           IN /\ signal[policy] = "scale" => ReallyAbove(scope, c, days, policy)
              /\ signal[policy] = "reduce"
                    => \/ ReallyBelow(scope, c, days, policy)
                       \/ /\ ByReturn(policy)
                          /\ \E d \in Evaluated(days) : HeldCovered(d, "total")
<1> DEFINE days == ScopeDays(c, scope, from, to)
           facts == Facts(c, scope, from, to)
           impediments == Impediments(facts, Moves(c, scope.ids, from, to))
           signal == Signal(c, scope, from, to)[policy]
           type == ReturnMeasure(policy, answers)
<1>1. signal = EvaluateScope(days, facts, impediments, policy).signal
  BY DEF Signal
<1>2. /\ facts.isApp = scope.isApp /\ facts.operational = scope.mapping.operational
      /\ facts.capabilities = answers
  BY DEF Facts
<1>3. CASE impediments # {}
  <2>1. PICK i \in impediments : EvaluateScope(days, facts, impediments, policy) = i
    BY <1>3 DEF EvaluateScope
  <2>2. i.signal \in {"insufficient_data", "investigate"}
    BY ImpedimentsAbstain
  <2> HIDE DEF days, facts, impediments, signal
  <2>3. signal # "scale" /\ signal # "reduce"
    BY <1>1, <2>1, <2>2
  <2> QED BY <2>3 DEF signal
<1>4. CASE impediments = {}
  <2>1. scope.isApp \/ scope.mapping.operational
    BY <1>2, <1>4, JudgedIsOperational
  <2>2. IsFiniteSet(scope.ids) /\ scope.ids \subseteq DOMAIN c.campaigns
    BY <2>1, ScopeDaysAre
  <2>3. PICK g : /\ days = {g[d] : d \in from .. to}
                 /\ \A d \in from .. to : DayIs(g[d], c, scope.ids, d)
    BY <2>1, ScopeDaysAre
  <2>4. signal = FirstClosed(TargetGates(days, facts, policy)).signal
    BY <1>1, <1>4 DEF EvaluateScope
  <2> HIDE DEF days, facts, impediments, signal
  <2>5. CASE type # None
    <3> DEFINE on == Evaluated(days)
               spend == SumFunction([d \in on |-> SpendOn(c, scope.ids, d)])
               counted == SumFunction([d \in on |-> CohortOn(c, scope.ids, d, type)])
               really == TrueReturn(scope, c, on)
    <3>1. type \in RevenueTypes
      BY <2>5, DaysAreNat DEF ReturnMeasure
    <3>2. on \subseteq Days /\ IsFiniteSet(on) /\ \A d \in on : OldEnough(d) /\ Covered(d)
      BY <2>2, <2>3, <3>1, EvaluatedSums
    <3>3. TargetGates(days, facts, policy)
            = ReturnGates(type, days) \o BandGates(type, days, policy.roas)
      BY <1>2, <2>5 DEF TargetGates
    <3>4. /\ signal = "scale" => AboveBand(counted, spend, policy.roas)
          /\ signal = "reduce" => BelowBand(counted, spend, policy.roas) /\ type = "total"
      <4> DEFINE mature == {x \in days : x.spend > 0 /\ Mature(x)}
                 spent == SumFunction([x \in mature |-> x.spend])
                 read == SumFunction([x \in mature |-> x.revenue[type]])
      <4>1. spent = spend /\ read = counted
        BY <2>2, <2>3, <3>1, EvaluatedSums
      <4>2. LET verdict == FirstClosed(ReturnGates(type, days)
                                       \o BandGates(type, days, policy.roas))
            IN /\ verdict.signal = "scale" => AboveBand(read, spent, policy.roas)
               /\ verdict.signal = "reduce" => BelowBand(read, spent, policy.roas) /\ type = "total"
        BY ReturnVerdict
      <4> HIDE DEF spent, read, spend, counted, type
      <4> QED BY <2>4, <3>3, <4>1, <4>2
    <3>5. spend = SpentOn(scope, c, on) /\ ByReturn(policy)
      BY <2>5 DEF SpentOn, SpendOn, ByReturn
    <3>6. /\ counted \in Int /\ really \in Int /\ counted <= really
          /\ (\A d \in on : Figure(d, type) = Reported(d, "total")) => counted = really
      BY <3>1, <3>2, ReturnIsTrue
    <3>7. spend \in Int /\ policy.roas \in Nat
      <4> DEFINE f == [d \in on |-> SpendOn(c, scope.ids, d)]
      <4>1. DOMAIN f = on /\ \A d \in on : f[d] \in Int
        BY <2>2, <3>2, SpendOnIsNat
      <4>2. spend = SumFunctionOnSet(f, on)
        BY DEF SumFunction
      <4> HIDE DEF f, on
      <4> QED BY <3>2, <4>1, <4>2, SumIsInt, PoliciesTyped
    <3> HIDE DEF spend, counted, really, type
    <3>8. AboveBand(counted, spend, policy.roas) => AboveBand(really, spend, policy.roas)
      <4> DEFINE edge == policy.roas * (100 + TolerancePct) * spend
      <4>1. edge \in Int
        BY <3>7 DEF TolerancePct
      <4>2. /\ AboveBand(counted, spend, policy.roas) <=> 100 * counted >= edge
            /\ AboveBand(really, spend, policy.roas) <=> 100 * really >= edge
        BY DEF AboveBand
      <4> HIDE DEF edge
      <4> QED BY <3>6, <4>1, <4>2
    <3>9. signal = "scale" => ReallyAbove(scope, c, days, policy)
      BY <3>4, <3>5, <3>8 DEF ReallyAbove, really
    <3>10. ASSUME signal = "reduce", ~\E d \in on : HeldCovered(d, "total")
           PROVE  ReallyBelow(scope, c, days, policy)
      <4>1. \A d \in on : FinallyRead(d, "total")
        BY <3>2, <3>10, MatureIsRead
      <4>2. \A d \in on : Figure(d, "total") = Reported(d, "total")
        BY <3>2, <4>1, DaysAreNat DEF FiguresHold
      <4>3. counted = really
        BY <3>4, <3>6, <3>10, <4>2
      <4> QED BY <3>4, <3>5, <3>10, <4>3 DEF ReallyBelow, really
    <3> QED BY <3>5, <3>9, <3>10 DEF signal, days
  <2>6. CASE type = None
    <3> DEFINE on == SettledDays(days)
    <3>1. ~ByReturn(policy)
      BY <2>6 DEF ByReturn
    <3>2. CASE policy.cpi # 0
      <4>1. /\ SettledSpend(days) = SpentOn(scope, c, on)
            /\ SettledInstalls(days) = TrueInstalls(scope, c, on)
        BY <2>2, <2>3, SettledSums
      <4>2. TargetGates(days, facts, policy) = CpiGates(days, facts, policy)
        BY <1>2, <2>6, <3>2 DEF TargetGates
      <4>3. LET verdict == FirstClosed(CpiGates(days, facts, policy))
                spent == SettledSpend(days)
                installs == SettledInstalls(days)
            IN /\ verdict.signal = "scale" => BelowBand(spent, installs, policy.cpi)
               /\ verdict.signal = "reduce" => AboveBand(spent, installs, policy.cpi)
        BY CostVerdict DEF SettledSpend, SettledInstalls
      <4>4. /\ signal = "scale" => ReallyAbove(scope, c, days, policy)
            /\ signal = "reduce" => ReallyBelow(scope, c, days, policy)
        BY <2>4, <3>1, <4>1, <4>2, <4>3 DEF ReallyAbove, ReallyBelow
      <4> QED BY <4>4 DEF signal, days
    <3>3. CASE policy.cpi = 0
      <4>1. TargetGates(days, facts, policy)
              = <<Gate(policy.roas # 0, "hold", "unsupported_metric"),
                  Gate(TRUE, "hold", "no_target")>>
        BY <1>2, <2>6, <3>3 DEF TargetGates
      <4>2. signal = "hold"
        BY <2>4, <4>1, NoTargetHolds
      <4> QED BY <4>2 DEF signal
    <3> QED BY <3>2, <3>3
  <2> QED BY <2>5, <2>6
<1> QED BY <1>3, <1>4

\* A verdict is deserved: 'scale', of a campaign or of the app, is said of cohorts
\* that really returned the upper edge of the band on what bought them, or of
\* installs that cost so little; 'reduce' of the contrary, unless a day of the
\* reading is held covered although no run finally read it.
THEOREM SignalsAreDeserved == Spec => []SignalIsDeserved
<1>1. CohortInv /\ FiguresHold /\ HorizonsTyped => SignalIsDeserved
  <2> SUFFICES ASSUME CohortInv, FiguresHold, HorizonsTyped, NEW p \in Readable,
                      NEW c \in Circumstances, NEW scope \in Scopes(c, p[1], p[2]),
                      NEW policy \in Policies
               PROVE  LET signal == Signal(c, scope, p[1], p[2])
                          days == ScopeDays(c, scope, p[1], p[2])
                      IN /\ signal[policy] = "scale" => ReallyAbove(scope, c, days, policy)
                         /\ signal[policy] = "reduce"
                               => \/ ReallyBelow(scope, c, days, policy)
                                  \/ /\ ByReturn(policy)
                                     /\ \E d \in Evaluated(days) : HeldCovered(d, "total")
    BY DEF SignalIsDeserved
  <2>1. p[1] \in Days /\ p[2] \in Days
    BY DEF Readable, DecisionWindows
  <2> QED BY <2>1, SignalHolds
<1>2. Init => CohortInv /\ HorizonsTyped
  BY CohortStarts, HorizonsStart
<1>3. CohortInv /\ HorizonsTyped /\ [Next]_vars => (CohortInv /\ HorizonsTyped)'
  BY CohortStep, HorizonsStep
<1> QED BY <1>1, <1>2, <1>3, FiguresHolding, PTL DEF Spec

=============================================================================
