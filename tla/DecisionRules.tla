--------------------------- MODULE DecisionRules ----------------------------
(***************************************************************************)
(* What MART is willing to say of an app's figures: whether a cohort       *)
(* figure is shown and under what caveat, what an unusual movement is, and *)
(* which signal a campaign or the app gets.  Everything here is a function *)
(* of the facts the loaders hand over.                                     *)
(*                                                                         *)
(* `days` is the set of the days of a reading, as records:                 *)
(*   day                                                                   *)
(*   spend, installs  of the campaigns read (installs: of days with spend) *)
(*   revenue          what counts of the day's cohort, by revenue type     *)
(*   oldEnough        the cohort reached the age before the data horizon   *)
(*   covered          a revenue sync read the day since it did             *)
(*   settled          the data horizon has passed the day                  *)
(*   early            the types with a row last read before it did         *)
(* `facts` is a record of everything else:                                 *)
(*   missing          the role with no connection, or None                 *)
(*   isApp            the scope is the app, not one campaign               *)
(*   operational, ambiguous       the campaign's mapping                   *)
(*   spend            of the app's campaigns: total, mapped, ambiguous     *)
(*   marketing, attribution       the streams' freshness, None before any  *)
(*   syncErrors, findings         an unresolved sync error, a finding that *)
(*                    blocks a reading of this scope                       *)
(*   horizon          whether both attribution streams reported a date     *)
(*   spendIn, revenueIn           the currencies of either side            *)
(*   signals          what is known against each day: "sync_error",        *)
(*                    "uncovered", "finding"                               *)
(*   capabilities     the revenue types the provider reports at the age    *)
(* `moves` are the scope's unusual movements, as <<day, metric, direction>>. *)
(* `policy` has a target return, a CPI ceiling (0: none) and its currency. *)
(***************************************************************************)
EXTENDS Sequences, SavedReports, MetricRegistry

CONSTANTS MinDays,       \* minimumMatureDays
          MinSpend,      \* minimumSpend
          MinInstalls,   \* minimumInstalls
          HalfDays,      \* trendWindowDays: mature days in each half of a trend
          BaselineDays,  \* anomalyBaselineDays: the history a day is judged by
          MinBaseline,   \* anomalyMinimumBaselinePoints
          MinMove        \* anomalyMinimumAbsolute

ASSUME FloorsAssumption ==
    /\ MinDays \in Nat /\ MinSpend \in Nat \ {0} /\ MinInstalls \in Nat \ {0}
    /\ HalfDays \in Nat \ {0} /\ BaselineDays \in Nat /\ MinBaseline \in Nat \ {0}
    /\ MinMove \in Nat \ {0}

TolerancePct == 15
MaterialChangePct == 20

\* worstStreamStatus and worstFreshness: streams nobody fetches do not count.
Worst(statuses) ==
    LET order == <<"error", "stale", "unknown", "delayed", "fresh">>
        found == {i \in DOMAIN order : order[i] \in statuses}
    IN IF found = {} THEN None ELSE order[Min(found)]

-----------------------------------------------------------------------------
Mature(day) == day.oldEnough /\ day.covered

CohortContext(facts) ==
    [bound |-> Streams \ {facts.missing},
     supports |-> facts.capabilities \cup TenjinDeclares \cup MetaDeclares,
     status |-> [marketing |-> facts.marketing, attribution |-> facts.attribution],
     hours |-> [s \in Streams |-> 0]]

\* What a cohort figure is divided by.
CohortOver(measure, mature) ==
    CASE measure = "revenue" -> 1
      [] measure = "rpi" -> SumFunction([d \in mature |-> d.installs])
      [] measure = "roas" -> SumFunction([d \in mature |-> d.spend])

\* buildCohortMetric, for the revenue of one type, per install ("rpi") or per
\* unit spent ("roas") where asked: a ratio keeps both sides.
CohortMetric(type, measure, days, facts) ==
    LET metric == CohortDefinition(type, measure, MinInstalls)
        gate == Availability(metric, CohortContext(facts))
        mature == {d \in days : Mature(d)}
        numerator == SumFunction([d \in mature |-> d.revenue[type]])
        over == CohortOver(measure, mature)
        currencies == facts.revenueIn \cup (IF measure = "roas" THEN facts.spendIn ELSE {})
        caveat == mature # days \/ \E d \in days : type \in d.early
        shown(how) == [availability |-> how, numerator |-> numerator, denominator |-> over]
    IN IF gate = "unavailable" \/ ~facts.horizon \/ days = {} THEN shown("unavailable")
       ELSE IF mature = {} \/ Cardinality(currencies) > 1 THEN shown("blocked")
       ELSE IF ~HasRatio(over, metric.floor) THEN shown("unavailable")
       ELSE IF gate = "available" /\ caveat THEN shown("partial") ELSE shown(gate)

-----------------------------------------------------------------------------
\* median, as twice itself: the two middle values of Of over a set of days.
TwiceMedian(days, Of(_)) ==
    LET n == Cardinality(days)
        value == [d \in days |-> Of(d)]
        ranked(r) == CHOOSE v \in {value[d] : d \in days} :
                         /\ Cardinality({d \in days : value[d] < v}) < r
                         /\ Cardinality({d \in days : value[d] <= v}) >= r
    IN ranked((n + 1) \div 2) + ranked(n \div 2 + 1)

Distance(a, b) == IF a < b THEN b - a ELSE a - b

\* detectAnomalies: the days of a series that sit far outside their own recent
\* history, by 3.5 scaled median deviations (MAD_TO_SIGMA is 1.4826), by 30% of
\* the median and by an absolute floor.
DetectAnomalies(series, from, to) ==
    LET moves(d) ==
            LET history == {e \in DOMAIN series : d - BaselineDays <= e /\ e < d}
                center == TwiceMedian(history, LAMBDA e : series[e])
                spread == TwiceMedian(history, LAMBDA e : Distance(2 * series[e], center))
                move == Distance(2 * series[d], center)
                unusual == /\ move >= 2 * MinMove
                           /\ 10 * move >= 3 * center
                           /\ spread > 0 => 20000 * move >= 51891 * spread
            IN IF Cardinality(history) < MinBaseline \/ ~unusual THEN {}
               ELSE {<<d, IF 2 * series[d] > center THEN "up" ELSE "down">>}
    IN UNION {moves(d) : d \in DOMAIN series \cap from .. to}

\* classifyAnomalies: what a movement of one metric on a day is.
ClassifyInstalls(day, alongside, facts) ==
    IF facts.signals[day] \cap {"sync_error", "uncovered"} # {} THEN "data_gap"
    ELSE IF "spend" \in alongside THEN "delivery"
    ELSE IF \/ "finding" \in facts.signals[day]
            \/ facts.attribution \notin {None, "fresh", "delayed"}
    THEN "attribution" ELSE "undetermined"

Classify(move, moves, facts) ==
    LET day == move[1]
        alongside == {m[2] : m \in {n \in moves : n[1] = day /\ n[3] = move[3]}}
    IN IF move[2] = "spend" THEN "delivery"
       ELSE IF facts.signals[day] \cap {"sync_error", "uncovered"} # {} THEN "data_gap"
       ELSE IF move[2] = "installs" \/ "installs" \in alongside
       THEN ClassifyInstalls(day, alongside, facts)
       ELSE IF "spend" \in alongside THEN "delivery"
       ELSE IF "finding" \in facts.signals[day] THEN "attribution" ELSE "monetization"

\* chooseReturnMeasure: the full return, or a component that stands for part.
ReturnMeasure(policy, capabilities) ==
    IF policy.roas = 0 \/ capabilities = {} THEN None
    ELSE IF "total" \in capabilities THEN "total"
    ELSE IF "iap" \in capabilities THEN "iap" ELSE "ad"

\* computeTrend over the mature days with spend: the newest HalfDays of them
\* against as many before, by the return of either half.
Trend(type, days) ==
    LET eligible == {d \in days : d.spend > 0 /\ Mature(d)}
        after(d) == Cardinality({e \in eligible : e.day > d.day})
        newest == {d \in eligible : after(d) < HalfDays}
        before == {d \in eligible : after(d) \in HalfDays .. 2 * HalfDays - 1}
        full(half) == /\ Cardinality(half) = HalfDays /\ HalfDays >= MinDays
                      /\ SumFunction([d \in half |-> d.spend]) >= MinSpend
                      /\ SumFunction([d \in half |-> d.installs]) >= MinInstalls
        cross(a, b) == SumFunction([d \in a |-> d.revenue[type]])
                          * SumFunction([d \in b |-> d.spend])
        change == 100 * (cross(newest, before) - cross(before, newest))
        material == MaterialChangePct * cross(before, newest)
    IN IF ~full(newest) \/ ~full(before) \/ cross(before, newest) = 0 THEN "unknown"
       ELSE IF change >= material THEN "improving"
       ELSE IF change <= -material THEN "deteriorating" ELSE "stable"

\* A value against a target and the tolerance around it, as value / over.
AboveBand(value, over, target) == 100 * value >= target * (100 + TolerancePct) * over
BelowBand(value, over, target) == 100 * value <= target * (100 - TolerancePct) * over

-----------------------------------------------------------------------------
Gate(closed, signal, blocker) ==
    [closed |-> closed, signal |-> signal, blocker |-> blocker]

FirstClosed(gates) ==
    LET i == CHOOSE n \in DOMAIN gates :
                 gates[n].closed /\ \A m \in 1 .. n - 1 : ~gates[m].closed
    IN [signal |-> gates[i].signal, blocker |-> gates[i].blocker]

MappingGates(facts) ==
    <<Gate(facts.missing # None, "insufficient_data", "missing_provider"),
      Gate(~facts.isApp /\ ~facts.operational /\ facts.ambiguous,
           "investigate", "ambiguous_mapping"),
      Gate(~facts.isApp /\ ~facts.operational, "insufficient_data", "insufficient_coverage"),
      Gate(facts.isApp /\ 100 * facts.spend.mapped < MinimumSpendCoveragePct * facts.spend.total,
           "insufficient_data", "insufficient_coverage"),
      Gate(facts.isApp
               /\ 100 * facts.spend.ambiguous > MaximumAmbiguousSpendPct * facts.spend.total,
           "investigate", "ambiguous_mapping")>>

\* A bound stream that never reported is unknown, not absent.
DataGates(facts) ==
    LET reported(status) == IF status = None THEN "unknown" ELSE status
        worst == Worst({reported(facts.marketing), reported(facts.attribution)})
        mixed == \/ Cardinality(facts.spendIn) > 1 \/ Cardinality(facts.revenueIn) > 1
                 \/ /\ facts.spendIn # {} /\ facts.revenueIn # {}
                    /\ facts.spendIn # facts.revenueIn
    IN <<Gate(worst = "error" \/ facts.syncErrors, "investigate", "provider_stale"),
         Gate(worst \in {None, "stale", "unknown"}, "insufficient_data", "provider_stale"),
         Gate(~facts.horizon, "insufficient_data", "provider_stale"),
         Gate(mixed, "investigate", "mixed_currency"),
         Gate(facts.findings, "investigate", "data_quality_finding")>>

MovementGates(facts, moves) ==
    LET are(kinds) == \E m \in moves : Classify(m, moves, facts) \in kinds
    IN <<Gate(are({"data_gap", "attribution"}), "investigate", "anomalous_data"),
         Gate(are({"undetermined", "monetization"}), "investigate", "anomalous_data")>>

\* cpiVerdict, over the days the horizon has passed.
CpiGates(days, facts, policy) ==
    LET settled == {d \in days : d.spend > 0 /\ d.settled}
        spend == SumFunction([d \in settled |-> d.spend])
        installs == SumFunction([d \in settled |-> d.installs])
    IN <<Gate(\E c \in facts.spendIn : policy.currency \notin {None, c},
              "hold", "mixed_currency"),
         Gate(spend < MinSpend \/ installs < MinInstalls,
              "insufficient_data", "missing_denominator"),
         Gate(BelowBand(spend, installs, policy.cpi), "scale", None),
         Gate(AboveBand(spend, installs, policy.cpi), "reduce", None),
         Gate(TRUE, "hold", None)>>

ReturnGates(type, days) ==
    LET delivered == {d \in days : d.spend > 0}
        mature == {d \in delivered : Mature(d)}
        spend == SumFunction([d \in mature |-> d.spend])
        installs == SumFunction([d \in mature |-> d.installs])
    IN <<Gate(mature = {} /\ \E d \in delivered : d.oldEnough,
              "insufficient_data", "provider_stale"),
         Gate(mature = {}, "insufficient_data", "immature_cohort"),
         Gate(Cardinality(mature) < MinDays, "insufficient_data", "immature_cohort"),
         Gate(spend < MinSpend \/ installs < MinInstalls,
              "insufficient_data", "missing_denominator")>>

\* A part of the return above the target proves the whole is; below it, a part
\* proves nothing.
BandGates(type, days, target) ==
    LET mature == {d \in days : d.spend > 0 /\ Mature(d)}
        spend == SumFunction([d \in mature |-> d.spend])
        revenue == SumFunction([d \in mature |-> d.revenue[type]])
        above == AboveBand(revenue, spend, target)
        below == BelowBand(revenue, spend, target)
        trend == Trend(type, days)
    IN <<Gate(above /\ trend = "deteriorating", "hold", "trend_contradicts"),
         Gate(above, "scale", None),
         Gate(below /\ type # "total", "hold", "partial_return"),
         Gate(below /\ trend = "improving", "hold", "trend_contradicts"),
         Gate(below, "reduce", None),
         Gate(TRUE, "hold", None)>>

TargetGates(days, facts, policy) ==
    LET type == ReturnMeasure(policy, facts.capabilities)
    IN IF type # None THEN ReturnGates(type, days) \o BandGates(type, days, policy.roas)
       ELSE IF policy.cpi # 0 THEN CpiGates(days, facts, policy)
       ELSE <<Gate(policy.roas # 0, "hold", "unsupported_metric"),
              Gate(TRUE, "hold", "no_target")>>

\* evaluateScope, up to the target: what keeps a scope from being judged at all,
\* or an empty set.  The first gate that is closed names the signal.
Impediments(facts, moves) ==
    LET mapping == MappingGates(facts)
        data == DataGates(facts)
        movement == MovementGates(facts, moves)
        closed(gates) == \E i \in DOMAIN gates : gates[i].closed
    IN IF closed(mapping) THEN {FirstClosed(mapping)}
       ELSE IF closed(data) THEN {FirstClosed(data)}
       ELSE IF closed(movement) THEN {FirstClosed(movement)} ELSE {}

EvaluateScope(days, facts, impediments, policy) ==
    IF impediments = {} THEN FirstClosed(TargetGates(days, facts, policy))
    ELSE CHOOSE i \in impediments : TRUE

=============================================================================
