--------------------------- MODULE MetricRegistry ---------------------------
(***************************************************************************)
(* The catalogue of governed metrics and the one question asked of each    *)
(* before its arithmetic: may it be shown, and under what caveat.          *)
(*                                                                         *)
(* A context says what is known of the app's connections:                  *)
(*   bound      the streams with a connection                              *)
(*   supports   the capabilities the bound providers report                *)
(*   status     of either stream: its worst freshness, None before any     *)
(*   hours      of either stream: since its stalest success                *)
(*   total, mapped, ambiguous   the period's spend, all of it and on       *)
(*              mapped and on ambiguous campaigns                          *)
(***************************************************************************)
EXTENDS Integers, FiniteSets, FiniteSetsExt

MinimumSpendCoveragePct == 80
MaximumAmbiguousSpendPct == 10
MinimumImpressions == 1000
MinimumInstalls == 25
MinimumClicks == 50

None == "none"

Streams == {"marketing", "attribution"}

-----------------------------------------------------------------------------
\* class: "operational", "mapping" or "cohort"; needs: required capabilities;
\* floor: the least denominator; hours: the staleness it tolerates.
Metric(key, family, unit, class, sources, needs, floor, hours) ==
    [key |-> key, family |-> family, unit |-> unit, class |-> class, sources |-> sources,
     needs |-> needs, floor |-> floor, hours |-> hours]

DeliveryMetrics ==
    LET Delivery(key, unit, needs, floor) ==
            Metric(key, "delivery", unit, "operational", {"marketing"}, needs, floor, 24)
    IN {Delivery("spend", "currency", {"cost_data"}, 0),
        Delivery("impressions", "count", {"delivery_metrics"}, 0),
        Delivery("clicks", "count", {"delivery_metrics"}, 0),
        Delivery("link_clicks", "count", {"link_clicks"}, 0),
        Delivery("ctr", "ratio", {"delivery_metrics"}, MinimumImpressions),
        Delivery("cpm", "currency", {"cost_data", "delivery_metrics"}, MinimumImpressions),
        Delivery("cpc", "currency", {"cost_data", "delivery_metrics"}, MinimumClicks)}

\* What the attribution provider reported, mapped or not.
AttributedMetrics ==
    LET Installs(key, needs) ==
            Metric(key, "attribution", "count", "operational", {"attribution"}, needs, 0, 24)
        Revenue(key, needs, hours) ==
            Metric(key, "revenue", "currency", "operational", {"attribution"}, needs, 0, hours)
    IN {Installs("attributed_installs", {"attributed_installs"}),
        Revenue("attributed_revenue", {"attributed_revenue"}, 48),
        Installs("paid_attributed_installs", {}),
        Revenue("iap_revenue", {}, 24),
        Revenue("ad_revenue", {}, 24),
        Installs("organic_installs", {"attributed_installs"})}

\* What of it belongs to the network's campaigns, and what an install cost.
MappedMetrics ==
    LET both == {"marketing", "attribution", "mapping"}
    IN {Metric("mapped_paid_installs", "attribution", "count", "mapping",
               {"attribution", "mapping"}, {"attributed_installs"}, 0, 24),
        Metric("delivery_aligned_paid_installs", "attribution", "count", "operational",
               both, {"attributed_installs"}, 0, 24),
        Metric("delivery_aligned_revenue", "revenue", "currency", "operational",
               both, {"attributed_revenue"}, 0, 48),
        Metric("mapped_cpi", "efficiency", "currency", "operational",
               both, {"cost_data", "attributed_installs"}, MinimumInstalls, 24),
        Metric("blended_cpi", "efficiency", "currency", "operational",
               Streams, {"cost_data", "attributed_installs"}, MinimumInstalls, 24),
        Metric("mapped_attributed_revenue", "revenue", "currency", "mapping",
               {"attribution", "mapping"}, {"attributed_revenue"}, 0, 48)}

CoverageMetrics ==
    LET Coverage(key, sources, needs, floor) ==
            Metric(key, "coverage", "percentage", "mapping", sources, needs, floor, 24)
    IN {Coverage("mapping_coverage", {"mapping"}, {}, 1),
        Coverage("operational_mapping_coverage", {"mapping"}, {}, 1),
        Coverage("spend_coverage", {"marketing", "mapping"}, {"cost_data"}, 0),
        Coverage("attribution_coverage", {"attribution", "mapping"}, {"attributed_installs"}, 0),
        Coverage("campaign_operational_coverage", {"marketing", "mapping"}, {}, 1)}

MetricDefinitions == DeliveryMetrics \cup AttributedMetrics \cup MappedMetrics \cup CoverageMetrics

\* A cohort figure of one age: of all revenue or a component of it, as it is,
\* per install, or per unit spent to acquire the cohort.
CohortDefinition(type, measure, minInstalls) ==
    CASE measure = "revenue" ->
            Metric(type, "cohort", "currency", "cohort", {"attribution"},
                   {"cohort_reporting", type}, 0, 24)
      [] measure = "rpi" ->
            Metric(type, "cohort", "currency", "cohort", {"attribution"},
                   {"cohort_reporting", "attributed_installs", type}, minInstalls, 24)
      [] measure = "roas" ->
            Metric(type, "cohort", "ratio", "cohort", {"marketing", "attribution", "mapping"},
                   {"cohort_reporting", "cost_data", type}, 1, 24)

-----------------------------------------------------------------------------
\* determineAvailability: what is known of the streams a metric is drawn from
\* and, for an operational figure of both, of the spend that is mapped.
Availability(metric, context) ==
    LET streams == metric.sources \cap Streams
        are(statuses) == \E s \in streams : context.status[s] \in statuses
        qualified == /\ metric.class = "operational" /\ Streams \subseteq metric.sources
                     /\ \/ 100 * context.mapped < MinimumSpendCoveragePct * context.total
                        \/ 100 * context.ambiguous > MaximumAmbiguousSpendPct * context.total
    IN IF ~(streams \subseteq context.bound) \/ ~(metric.needs \subseteq context.supports)
       THEN "unavailable"
       ELSE IF are({"stale", "error"}) \/ \E s \in streams : context.hours[s] > metric.hours
       THEN "stale"
       ELSE IF are({"delayed"}) \/ qualified THEN "partial" ELSE "available"

\* safeRatio: a denominator of zero, or too small to mean anything, gives none.
HasRatio(denominator, floor) == denominator > 0 /\ denominator >= floor

=============================================================================
