---------------------------- MODULE SavedReports ----------------------------
(***************************************************************************)
(* Which of an account's saved reports the Tenjin adapter reads, which     *)
(* cohort columns that report answers for, and which rows and days one     *)
(* pull of it yields.  MART never creates or edits a report: the operator  *)
(* does, at any moment.  A report is a record:                             *)
(*   id      what the report is addressed by                               *)
(*   app     "this" app only, "all" apps, or "other" apps                  *)
(*   daily   whether its rows carry a day                                  *)
(*   groups  the dimensions it splits on; "unknown" where the provider's   *)
(*           spelling maps to none                                         *)
(*   event, cohort  the revenue columns of either grain it carries         *)
(*   past    the rolling number of days it reaches back                    *)
(***************************************************************************)
EXTENDS Integers, FiniteSets

Components == {"iap", "ad"}
RevenueTypes == Components \cup {"total"}

StorableDimensions == {"campaign", "country", "channel", "app"}
Dimensions == StorableDimensions \cup {"site", "creative", "unknown"}

\* parseSavedReport keeps what a report is judged on.
IsReport(r) ==
    /\ r.app \in {"this", "all", "other"}
    /\ r.daily \in BOOLEAN
    /\ r.groups \subseteq Dimensions
    /\ r.event \subseteq RevenueTypes /\ r.cohort \subseteq RevenueTypes
    /\ r.past \in Nat

\* evaluateSavedReport, for the revenue stream: no blocker.
Usable(r) ==
    /\ r.app # "other"
    /\ r.daily
    /\ r.groups \subseteq StorableDimensions
    /\ r.event # {}

\* tenjinCohortCoverage: a component where its column is, a total where both
\* components are or where the report's own total stands alone.
Answers(cohort) ==
    (cohort \cap Components)
        \cup (IF Components \subseteq cohort \/ cohort = {"total"}
              THEN {"total"} ELSE {})

\* What either adapter declares of itself, of what a cohort figure asks for.
TenjinDeclares == {"cohort_reporting", "attributed_installs", "attributed_revenue"}
MetaDeclares == {"cost_data", "delivery_metrics"}

\* probeCohortCapabilities, of the report that the revenue stream would choose.
ProbedRevenue(chosen) == {t \in RevenueTypes : t \in Answers(chosen.cohort)}

GroupByRank(groups) ==
    (IF "campaign" \in groups THEN 4 ELSE 0)
        + (IF "country" \in groups THEN 2 ELSE 0)
        + (IF "channel" \in groups THEN 1 ELSE 0)

\* selectSavedReport's criteria, the weightiest first.  The number of metrics
\* is that of the revenue columns, the only ones modelled.
Merits(r) ==
    <<IF r.app = "this" THEN 1 ELSE 0, GroupByRank(r.groups),
      Cardinality(r.event \cap Components), Cardinality(Answers(r.cohort)),
      Cardinality(r.event) + Cardinality(r.cohort), r.past>>

Outranks(a, b) ==
    \E i \in DOMAIN Merits(a) :
        /\ Merits(a)[i] > Merits(b)[i]
        /\ \A j \in 1 .. i - 1 : Merits(a)[j] = Merits(b)[j]

\* The reports that selectSavedReport may take; equals are kept in the
\* provider's order, which nothing fixes.
Selected(reports) ==
    {r \in reports : Usable(r) /\ \A s \in reports : Usable(s) => ~Outranks(s, r)}

-----------------------------------------------------------------------------
\* syncRevenue's emitCohort: what the definition announced and the row still
\* carries; the total only of a report whose definition had no component.
EmittedTypes(definition, columns) ==
    columns \cap
        (IF definition \cap Components = {} THEN {"total"} ELSE definition \cap Components)

\* The days of the request that a report's rolling period still reaches.
DaysReturned(report, from, to, today) ==
    {d \in from .. to : d > today - report.past}

\* coveredWindow: from the first day that came back to the end of the request,
\* nothing where nothing came back.
CoveredDays(days, to) == {d \in 1 .. to : \E first \in days : first <= d}

=============================================================================
