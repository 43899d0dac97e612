------------------------------- MODULE Cohorts -------------------------------
(***************************************************************************)
(* From a saved report to a figure.  The attribution provider knows what   *)
(* the cohort of each install day has earned so far; revenue syncs read    *)
(* that through a saved report the operator edits, store it day by day,    *)
(* and record which days they read.  Cohort figures are drawn from the     *)
(* stored rows and from that record, while days pass and syncs run, fail   *)
(* and die.                                                                *)
(*                                                                         *)
(* One app, one earning campaign, one cohort age: the code reads each age  *)
(* by the same rule.  The campaign brings one install a day.               *)
(***************************************************************************)
EXTENDS DecisionRules

CONSTANTS LastDay,     \* the calendar runs from day 1 to LastDay
          Age,         \* the cohort age that is read
          Reports,     \* the report definitions an operator may have
          Lookback,    \* SYNC_RESTATEMENT_LOOKBACK_DAYS
          MaxRuns,     \* revenue syncs
          MaxEdits,    \* changes the operator makes to the reports
          Earning      \* the install days whose cohorts earn anything

Days == 1 .. LastDay
NoDay == 0

ASSUME CohortsAssumption ==
    /\ LastDay \in Nat \ {0} /\ Age \in Nat /\ Lookback \in Nat
    /\ MaxRuns \in Nat /\ MaxEdits \in Nat /\ Earning \subseteq Days
    /\ \A r \in Reports : IsReport(r)

VARIABLES
    today,       \* the app's calendar day
    earned,      \* what each day's cohort has earned so far, by component
    reports,     \* the saved reports, by now
    edits,
    installsTo,  \* the latest day with an install row, NoDay before any
    rows,        \* attribution_revenue_metrics at cohort_date grain
    run,         \* the revenue sync in flight
    runs,
    windows,     \* the dataWindows of the runs that succeeded
    latest,      \* data_freshness: latest_provider_data_date of revenue
    status,      \* data_freshness: status of the revenue stream
    errors,      \* days under an unresolved sync error
    findings,    \* days of the data_quality_findings that are still current
    answers      \* capabilities: the cohort revenue types last probed

vars == <<today, earned, reports, edits, installsTo, rows, run, runs, windows, latest,
          status, errors, findings, answers>>

NoRow == [value |-> 0, seen |-> NoDay]
Idle == [phase |-> "idle"]

\* Tenjin cohort values are cumulative: what the first `Age` days brought in.
\* Bound: one unit of each component, at most.
Init ==
    /\ today = 1 /\ earned = [d \in Days |-> [c \in Components |-> 0]]
    /\ \E r \in Reports : reports = {r}
    /\ edits = 0 /\ installsTo = NoDay
    /\ rows = [d \in Days |-> [t \in RevenueTypes |-> NoRow]]
    /\ run = Idle /\ runs = 0 /\ windows = {} /\ latest = NoDay
    /\ status = None /\ errors = {} /\ findings = {} /\ answers = {}

-----------------------------------------------------------------------------
\* The provider, the operator and the calendar.
Earn(d, c) ==
    /\ today \in d .. d + Age /\ earned[d][c] = 0
    /\ earned' = [earned EXCEPT ![d][c] = 1]
    /\ UNCHANGED <<today, reports, edits, installsTo, rows, run, runs, windows, latest,
                   status, errors, findings, answers>>

\* A day begins, and the installs stream keeps up with it or does not.  It
\* shares nothing with a revenue sync, so when in the day it runs is no matter.
NextDay ==
    /\ today < LastDay /\ today' = today + 1
    /\ installsTo' \in {installsTo, today + 1}
    /\ UNCHANGED <<earned, reports, edits, rows, run, runs, windows, latest, status,
                   errors, findings, answers>>

EditReports ==
    /\ edits < MaxEdits /\ edits' = edits + 1
    /\ \E r \in Reports :
          LET others == {s \in reports : s.id # r.id}
          IN reports' \in {others, others \cup {r}} \ {reports}
    /\ UNCHANGED <<today, earned, installsTo, rows, run, runs, windows, latest, status,
                   errors, findings, answers>>

-----------------------------------------------------------------------------
\* A revenue sync of one window.  resolveSavedReport: the definition is read,
\* once for the whole run, and the rows later.
StartRun ==
    /\ run = Idle /\ runs < MaxRuns /\ runs' = runs + 1
    /\ \E from \in {1, IF today > Lookback THEN today - Lookback ELSE 1} :
          \/ \E r \in Selected(reports) :
                run' = [phase |-> "fetch", from |-> from, to |-> today,
                        report |-> r, read |-> NoDay, rows |-> << >>, failed |-> FALSE]
          \/ /\ Selected(reports) = {}
             /\ run' = [phase |-> "complete", from |-> from, to |-> today,
                        report |-> None, read |-> NoDay, rows |-> << >>, failed |-> TRUE]
    /\ status' = "unknown"
    /\ UNCHANGED <<today, earned, reports, edits, installsTo, rows, windows, latest,
                   errors, findings, answers>>

FailWindow == run' = [run EXCEPT !.phase = "complete", !.failed = TRUE]

\* What the report's row of day d says of a type that it carries.
Reported(d, t) ==
    IF t = "total" THEN earned[d]["iap"] + earned[d]["ad"] ELSE earned[d][t]

\* fetchSavedReportRows and the cohort part of syncRevenue.  In a reply the
\* cohorts of some days may be smaller at a later age than at an earlier one.
Fetch ==
    /\ run.phase = "fetch"
    /\ \/ /\ \A r \in reports : r.id # run.report.id
          /\ FailWindow
       \/ \E r \in reports, odd \in SUBSET Earning :
             LET days == DaysReturned(r, run.from, run.to, today)
                 types == EmittedTypes(run.report.cohort, r.cohort)
             IN /\ r.id = run.report.id
                /\ \A d \in odd : d \in days /\ \E t \in types : Reported(d, t) # 0
                /\ run' = [phase |-> "persist", from |-> run.from, to |-> run.to,
                           report |-> run.report, failed |-> FALSE,
                           read |-> today, types |-> types, odd |-> odd,
                           rows |-> [d \in days |-> [t \in types |-> Reported(d, t)]]]
       \/ FailWindow
    /\ UNCHANGED <<today, earned, reports, edits, installsTo, rows, runs, windows, latest,
                   status, errors, findings, answers>>

\* Faulty variant: the days of the window hold what this read returned and
\* nothing else.
UpsertedAnew ==
    [d \in Days |-> [t \in RevenueTypes |->
        IF d \in DOMAIN run.rows /\ t \in run.types /\ run.rows[d][t] # 0
        THEN [value |-> run.rows[d][t], seen |-> today]
        ELSE IF d \in run.from .. run.to THEN NoRow ELSE rows[d][t]]]

Upserted ==
    [d \in Days |-> [t \in RevenueTypes |->
        IF d \in DOMAIN run.rows /\ t \in run.types /\ run.rows[d][t] # 0
        THEN [value |-> run.rows[d][t], seen |-> today] ELSE rows[d][t]]]

\* checkAttributionBatch: one finding, an error, for each such day.
CheckBatch == findings \cup run.odd

\* persistAttribution, the findings, then checkpointWindow, any of which may
\* fail: a value of zero was never emitted, and the days recorded count when the
\* run succeeds.
PersistWindow ==
    /\ run.phase = "persist"
    /\ \/ /\ rows' = Upserted /\ findings' = CheckBatch
          /\ run' = [run EXCEPT !.phase = "complete"]
       \/ rows' = rows /\ findings' = findings /\ FailWindow
       \/ rows' = Upserted /\ findings' \in {findings, CheckBatch} /\ FailWindow
    /\ UNCHANGED <<today, earned, reports, edits, installsTo, runs, windows, latest, status,
                   errors, answers>>

Newest == IF run.rows = << >> THEN NoDay ELSE Max(DOMAIN run.rows)

\* The dataWindow of the run, with the day its values were read and the types
\* they had, which the code does not keep.
ReadWindow ==
    [days |-> CoveredDays(DOMAIN run.rows, run.to), finished |-> today,
     read |-> run.read, types |-> run.types]

\* A finding is current until a run that finished after it was recorded has read
\* its day: the query does not except the run that recorded it, so completing
\* that run ends its own findings.
StillCurrent == {d \in findings : run.failed \/ d \notin run.from .. run.to}

\* completeSyncRun, resolveSupersededSyncErrors, upsertFreshness and the
\* re-probe, from the definitions the run already read.
CompleteRun ==
    /\ run.phase = "complete"
    /\ latest' = IF Newest > latest THEN Newest ELSE latest
    /\ IF run.failed
       THEN /\ status' = "error" /\ errors' = errors \cup {run.from .. run.to}
            /\ UNCHANGED <<windows, answers>>
       ELSE /\ status' = (IF Newest # NoDay /\ today - Newest >= 3 THEN "stale"
                          ELSE IF Newest # NoDay /\ today - Newest = 2 THEN "delayed"
                          ELSE "fresh")
            /\ errors' = {e \in errors : ~(e \subseteq run.from .. run.to)}
            /\ windows' = windows \cup {ReadWindow}
            /\ answers' = ProbedRevenue(run.report)
    /\ findings' = StillCurrent /\ run' = Idle
    /\ UNCHANGED <<today, earned, reports, edits, installsTo, rows, runs>>

\* The process dies: the run stays 'running' and proves nothing.
Die ==
    /\ run # Idle /\ run' = Idle
    /\ UNCHANGED <<today, earned, reports, edits, installsTo, rows, runs, windows, latest,
                   status, errors, findings, answers>>

Next ==
    \/ \E d \in Earning, c \in Components : Earn(d, c)
    \/ NextDay \/ EditReports
    \/ StartRun \/ Fetch \/ PersistWindow \/ CompleteRun \/ Die

Spec == Init /\ [][Next]_vars

-----------------------------------------------------------------------------
\* loadCohortAggregate and loadDecisionFacts.
Horizon == IF installsTo < latest THEN installsTo ELSE latest

OldEnough(d) == d + Age < Horizon

\* Faulty variant: any read of the day counts, however young the cohort was.
CoveredByAnyRead(d) == \E w \in windows : d \in w.days

\* revenueCovered
Covered(d) == \E w \in windows : d \in w.days /\ w.finished > d + Age

ReadAfter(row, d) == row.seen > d + Age

HasComponent(d) == \E c \in Components : rows[d][c] # NoRow

\* Faulty variant: a total is read beside its own components.
CountsAlways(d, t) ==
    rows[d][t] # NoRow /\ OldEnough(d) /\ Covered(d) /\ ReadAfter(rows[d][t], d)

\* Whether a stored row is counted: a total only where no component is stored.
Counts(d, t) ==
    /\ rows[d][t] # NoRow /\ OldEnough(d) /\ Covered(d) /\ ReadAfter(rows[d][t], d)
    /\ t = "total" => ~HasComponent(d)

Counted(d, t) == IF Counts(d, t) THEN rows[d][t].value ELSE 0

Figure(d, t) == IF t = "total" THEN SumFunction([u \in RevenueTypes |-> Counted(d, u)])
                ELSE Counted(d, t)

Early(d) ==
    {t \in RevenueTypes : \E u \in RevenueTypes :
        /\ t \in {u, "total"} /\ rows[d][u] # NoRow /\ OldEnough(d)
        /\ ~ReadAfter(rows[d][u], d) /\ u = "total" => ~HasComponent(d)}

\* CohortAgeAggregate of one cohort day, and what of it is early.
CohortDay(d) ==
    [day |-> d, spend |-> 1, installs |-> 1, revenue |-> [t \in RevenueTypes |-> Figure(d, t)],
     oldEnough |-> OldEnough(d), covered |-> Covered(d), settled |-> d < Horizon,
     early |-> Early(d)]

\* The days of a window that the installs stream has rows of.
CohortDays(from, to) == {CohortDay(d) : d \in {e \in from .. to : e <= installsTo}}

\* buildMetricContext, of a sound connection.
MetricFacts ==
    [missing |-> None, marketing |-> "fresh", attribution |-> status,
     horizon |-> Horizon # NoDay, spendIn |-> {"USD"}, revenueIn |-> {"USD"},
     capabilities |-> answers]

-----------------------------------------------------------------------------
Truth(days, type) ==
    SumFunction([d \in days |-> IF type = "total" THEN earned[d]["iap"] + earned[d]["ad"]
                                ELSE earned[d][type]])

\* A run read the day after its cohort reached the age, for that type: both
\* components, or a total that no stored component hides.
FinallyRead(d, type) ==
    \E w \in windows :
        /\ d \in w.days /\ w.read > d + Age
        /\ \/ type = "total" /\ Components \subseteq w.types
           \/ type = "total" /\ "total" \in w.types /\ ~HasComponent(d)
           \/ type \in w.types \cap Components

\* The code holds a day covered that no run finally read: the run that read it
\* only finished after the age was reached, or its report lacked the column.
HeldCovered(d, type) ==
    /\ ~FinallyRead(d, type)
    /\ \E w \in windows : d \in w.days /\ w.finished > d + Age

\* The readings of all windows that have a day to read.  They look at stored
\* tables alone, and a death of the run in flight leaves what it had stored by
\* then: the states without a run have every state of the tables.
Readings ==
    {CohortDays(p[1], p[2]) :
        p \in {q \in Days \X Days :
                  run = Idle /\ \E d \in q[1] .. q[2] : OldEnough(d) /\ Covered(d)}}

\* A cohort figure that is not what the cohorts of its days earned by the age,
\* for every day of the window, is never shown without a caveat: no day left
\* out or counted before it was final, no total added to its own parts.  The
\* exception is a day that is held covered although no run finally read it.
AvailableIsComplete ==
    \A days \in Readings, t \in answers :
        LET figure == SumFunction([x \in days |-> x.revenue[t]])
        IN \/ /\ figure = Truth({x.day : x \in days}, t)
              /\ \A x \in days : Mature(x)
           \/ \E x \in days : HeldCovered(x.day, t)
           \/ \A measure \in {"revenue", "rpi"} :
                 CohortMetric(t, measure, days, MetricFacts).availability # "available"

\* A sync takes nothing back: storing what a report returns, with columns or
\* days the earlier reports did not have or without some they had, never lowers
\* the figure of a day that stands finally read.
StoredStays ==
    [][\A d \in Days, t \in answers : FinallyRead(d, t)' => Figure(d, t)' >= Figure(d, t)]_rows

=============================================================================
