------------------------------- MODULE Figures -------------------------------
(***************************************************************************)
(* What MART shows of an app while its campaigns are being reconciled: the *)
(* metric cards, the coverage beside them, the chart, the campaign table,  *)
(* the list of gaps and what a decision is drawn from.  Each is a query of *)
(* its own over the facts and the mapping rows, which this module takes    *)
(* from Reconciliation as they are at one moment.                          *)
(*                                                                         *)
(* A filter narrows a view to countries (or platforms: the code treats     *)
(* both alike), to a channel and to an ad account.  Every MMP campaign     *)
(* that is not organic is of the network's channel.                        *)
(***************************************************************************)
EXTENDS Reconciliation, MetricRegistry

CONSTANTS
    Countries,
    Delivered,      \* <<network campaign, country>> -> what it delivered there
    Attributed,     \* <<MMP campaign, country>> -> installs, and revenue by type
    SpendIn,        \* the currency of each network campaign's rows
    RevenueIn,      \* of each MMP campaign's rows
    AccountOf,      \* the ad account of each network campaign
    Filters,
    Contexts        \* what may be known of the connections; see MetricRegistry

\* The columns' own checks keep amounts from being negative and a stream's
\* status one of five (migrations/0005_marketing.sql:143-145,
\* 0006_attribution.sql:52, 0003_sync.sql:111).
ASSUME FiguresAssumption ==
    /\ IsFiniteSet(Countries)
    /\ DOMAIN Delivered \subseteq Network \X Countries
    /\ \A p \in DOMAIN Delivered : /\ Delivered[p].spend \in Nat
                                   /\ Delivered[p].impressions \in Nat
                                   /\ Delivered[p].clicks \in Nat
    /\ DOMAIN Attributed \subseteq Mmp \X Countries
    /\ \A p \in DOMAIN Attributed : Attributed[p].installs \in Nat
    /\ \A f \in Filters : /\ f.countries \subseteq Countries
                          /\ f.channel \in {None, "network", "organic", "other"}
    /\ Contexts \subseteq
          [bound : SUBSET Streams, supports : SUBSET STRING, hours : [Streams -> Nat],
           status : [Streams -> {None, "fresh", "delayed", "stale", "unknown", "error"}],
           total : Nat, mapped : Nat, ambiguous : Nat]

NotReported == -1
DidDeliver(p) == Delivered[p].spend > 0 \/ Delivered[p].impressions > 0 \/ Delivered[p].clicks > 0

Spent(rows) == SumFunction([p \in rows |-> Delivered[p].spend])
Installed(rows) == SumFunction([p \in rows |-> Attributed[p].installs])
Earned(rows, types) ==
    SumFunction([p \in rows |-> SumFunction([type \in types |-> Attributed[p].revenue[type]])])

-----------------------------------------------------------------------------
\* The populations every figure is computed over.

Authoritative(row) == row.status \in {"exact", "verified"}

\* operationalMapping: a verified row without a target is one too.
Established(row) == Authoritative(row) \/ row.status = "embedded"

Links == {Link(row) : row \in {r \in mapping : r.from = "network" /\ Operational(r)}}

\* Faulty variant: a campaign verified without a target counts.
LinkedNetworkTargetless ==
    {row.source : row \in {r \in mapping : r.from = "network" /\ Established(r)}}

LinkedNetwork == {link[1] : link \in Links}

\* mappedAttributionCampaign: links recorded from the network's side only.
LinkedMmp == {link[2] : link \in Links}

NotOrganic(rows) == {p \in rows : p[1] \notin Organic}

\* A campaign's delivery and attribution rows are stored after the campaign.
DeliveryRows(countries) == {p \in DOMAIN Delivered : p[1] \in known /\ p[2] \in countries}
AttributionRows(countries) == {p \in DOMAIN Attributed : p[1] \in reported /\ p[2] \in countries}

\* Faulty variant: delivered means delivered anywhere.
AlignedMmpAnywhere(countries) ==
    {link[2] : link \in {l \in Links : \E p \in DeliveryRows(Countries) :
                                           p[1] = l[1] /\ DidDeliver(p)}}

\* deliveryAlignedCampaign: of a network campaign that delivered in the slice.
AlignedMmp(countries) ==
    {link[2] : link \in {l \in Links : \E p \in DeliveryRows(countries) :
                                           p[1] = l[1] /\ DidDeliver(p)}}

-----------------------------------------------------------------------------
\* The aggregates the metric cards are computed from.

LoadMarketing(filter) ==
    LET rows == {p \in DeliveryRows(filter.countries) :
                    /\ filter.channel \in {None, "network"}
                    /\ filter.account \in {None, AccountOf[p[1]]}}
        clicked == {p \in rows : Delivered[p].linkClicks # NotReported}
        linked == LinkedNetwork
    IN [spend |-> Spent(rows),
        mappedSpend |-> Spent({p \in rows : p[1] \in linked}),
        impressions |-> SumFunction([p \in rows |-> Delivered[p].impressions]),
        clicks |-> SumFunction([p \in rows |-> Delivered[p].clicks]),
        linkClicks |-> IF clicked = {} THEN NotReported
                       ELSE SumFunction([p \in clicked |-> Delivered[p].linkClicks]),
        currencies |-> {SpendIn[p[1]] : p \in rows}]

\* A channel admits the rows of its own traffic.
Admitted(filter) ==
    {p \in AttributionRows(filter.countries) :
        CASE filter.channel = "organic" -> p[1] \in Organic
          [] filter.channel = "network" -> p[1] \notin Organic
          [] OTHER -> filter.channel = None}

LoadInstalls(filter) ==
    LET paid == NotOrganic(Admitted(filter))
        linked == LinkedMmp
        aligned == AlignedMmp(filter.countries)
    IN [paid |-> Installed(paid), organic |-> Installed(Admitted(filter) \ paid),
        mapped |-> Installed({p \in paid : p[1] \in linked}),
        aligned |-> Installed({p \in paid : p[1] \in aligned})]

\* Event-date revenue of every type is summed, a total beside its parts too.
LoadRevenue(filter) ==
    LET rows == Admitted(filter)
        mapped == {p \in NotOrganic(rows) : p[1] \in LinkedMmp}
        aligned == {p \in NotOrganic(rows) : p[1] \in AlignedMmp(filter.countries)}
        all == {"iap", "ad", "total"}
    IN [revenue |-> Earned(rows, all), mapped |-> Earned(mapped, all),
        aligned |-> Earned(aligned, all),
        iap |-> Earned(rows, {"iap"}), ad |-> Earned(rows, {"ad"}),
        currencies |-> {RevenueIn[p[1]] : p \in rows}]

-----------------------------------------------------------------------------
\* Coverage.

\* By confidence, then by status: the row that describes a campaign.
Strength == [verified |-> 1, exact |-> 2, embedded |-> 3, name |-> 4, ambiguous |-> 5,
             not_applicable |-> 6, rejected |-> 7, unmatched |-> 8]

BestOf(rows) ==
    CHOOSE row \in rows : \A other \in rows : Strength[row.status] <= Strength[other.status]

RowsOf(m) == {row \in mapping : row.from = "network" /\ row.source = m}

\* campaignCoverage: campaigns, not rows, are counted; organic is outside.
StructureCoverage ==
    LET described == {m \in Network : RowsOf(m) # {}}
        best == [m \in described |-> BestOf(RowsOf(m))]
    IN [total |-> Cardinality(described),
        authoritative |-> Cardinality({m \in described : Authoritative(best[m])}),
        operational |-> Cardinality({m \in described : Established(best[m])})]

\* eligibleCoverage: what delivered in the slice, neither by channel nor by
\* account.
EligibleCoverage(countries) ==
    LET rows == {p \in DeliveryRows(countries) : DidDeliver(p)}
        mapped == {p \in rows : CampaignState(p[1]) = "mapped"}
        ambiguous == {p \in rows : CampaignState(p[1]) = "ambiguous"}
        paid == NotOrganic(AttributionRows(countries))
        of(state) == Installed({p \in paid : InstallState(p[1]) = state})
        campaigns(some) == Cardinality({p[1] : p \in some})
    IN [campaigns |-> campaigns(rows), mappedCampaigns |-> campaigns(mapped),
        ambiguousCampaigns |-> campaigns(ambiguous),
        spend |-> Spent(rows), mappedSpend |-> Spent(mapped), ambiguousSpend |-> Spent(ambiguous),
        paid |-> Installed(paid), mapped |-> of("mapped"), ambiguous |-> of("ambiguous")]

-----------------------------------------------------------------------------
\* The metric cards.

DeliverySums(marketing) ==
    [spend |-> marketing.spend, impressions |-> marketing.impressions,
     clicks |-> marketing.clicks, link_clicks |-> marketing.linkClicks]

InstallSums(installs) ==
    [attributed_installs |-> installs.paid + installs.organic,
     paid_attributed_installs |-> installs.paid, organic_installs |-> installs.organic,
     mapped_paid_installs |-> installs.mapped,
     delivery_aligned_paid_installs |-> installs.aligned]

RevenueSums(revenue) ==
    [attributed_revenue |-> revenue.revenue, iap_revenue |-> revenue.iap,
     ad_revenue |-> revenue.ad, mapped_attributed_revenue |-> revenue.mapped,
     delivery_aligned_revenue |-> revenue.aligned]

DeliveryRatios(marketing) ==
    [ctr |-> <<marketing.clicks, marketing.impressions>>,
     cpm |-> <<1000 * marketing.spend, marketing.impressions>>,
     cpc |-> <<marketing.spend, marketing.clicks>>]

\* Spend in the period over the installs of the campaigns that delivered in it,
\* and all spend over all installs.
CostRatios(marketing, installs) ==
    [mapped_cpi |-> <<marketing.mappedSpend, installs.aligned>>,
     blended_cpi |-> <<marketing.spend, installs.paid + installs.organic>>]

CoverageRatios(eligible, structure) ==
    [spend_coverage |-> <<eligible.mappedSpend, eligible.spend>>,
     attribution_coverage |-> <<eligible.mapped, eligible.paid>>,
     campaign_operational_coverage |-> <<eligible.mappedCampaigns, eligible.campaigns>>,
     mapping_coverage |-> <<structure.authoritative, structure.total>>,
     operational_mapping_coverage |-> <<structure.operational, structure.total>>]

\* What a figure leaves out or mixes in although it may be shown.
Caveat(key, installs, eligible) ==
    CASE key = "mapped_cpi" -> installs.paid > installs.mapped \/ installs.mapped > installs.aligned
      [] key = "blended_cpi" -> installs.organic > 0 \/ installs.paid > installs.mapped
      [] key = "spend_coverage" -> eligible.ambiguousSpend > 0
      [] key = "attribution_coverage" -> eligible.ambiguous > 0
      [] key = "campaign_operational_coverage" -> eligible.ambiguousCampaigns > 0
      [] OTHER -> FALSE

\* buildMetricContext: without a marketing network no coverage is computed.
SliceOf(filter, stream) == IF "marketing" \in stream.bound THEN filter.countries ELSE {}

Knowing(stream, eligible) ==
    [stream EXCEPT !.total = eligible.spend, !.mapped = eligible.mappedSpend,
                   !.ambiguous = eligible.ambiguousSpend]

ContextOf(filter, stream) == Knowing(stream, EligibleCoverage(SliceOf(filter, stream)))

Figure(availability, numerator, denominator) ==
    [availability |-> availability, numerator |-> numerator, denominator |-> denominator]

\* The sums and the ratios of a metric's family.
Sums(metric, filter) ==
    CASE metric.family = "delivery" -> DeliverySums(LoadMarketing(filter))
      [] metric.family = "attribution" -> InstallSums(LoadInstalls(filter))
      [] metric.family = "revenue" -> RevenueSums(LoadRevenue(filter))
      [] OTHER -> <<>>

Ratio(metric, filter, stream) ==
    CASE metric.family = "delivery" -> DeliveryRatios(LoadMarketing(filter))[metric.key]
      [] metric.family = "efficiency" ->
            CostRatios(LoadMarketing(filter), LoadInstalls(filter))[metric.key]
      [] OTHER -> CoverageRatios(EligibleCoverage(SliceOf(filter, stream)),
                                 IF "marketing" \in stream.bound THEN StructureCoverage
                                 ELSE [total |-> 0, authoritative |-> 0, operational |-> 0])[metric.key]

\* A cost's currencies are the network's: revenue is not in its arithmetic.
CurrenciesOf(metric, filter) ==
    IF metric.family = "revenue" THEN LoadRevenue(filter).currencies
    ELSE LoadMarketing(filter).currencies

\* buildMetricValue: what is known of the streams, then the currencies, then
\* the arithmetic, then what the figure leaves out.
Value(metric, filter, stream) ==
    LET gate == Availability(metric, ContextOf(filter, stream))
        sums == Sums(metric, filter)
        ratio == Ratio(metric, filter, stream)
    IN IF gate = "unavailable" THEN Figure(gate, 0, 0)
       ELSE IF metric.unit = "currency" /\ Cardinality(CurrenciesOf(metric, filter)) > 1
       THEN Figure("blocked", 0, 0)
       ELSE IF metric.key \in DOMAIN sums
       THEN Figure(IF sums[metric.key] = NotReported THEN "unavailable" ELSE gate,
                   sums[metric.key], 0)
       ELSE Figure(IF ~HasRatio(ratio[2], metric.floor) THEN "unavailable"
                   ELSE IF gate = "available" /\ Caveat(metric.key, LoadInstalls(filter),
                                                        EligibleCoverage(SliceOf(filter, stream)))
                   THEN "partial" ELSE gate,
                   ratio[1], ratio[2])

\* loadUnifiedPerformance lists a metric as qualified, or as refused.
Qualified(metric, filter, stream) == Value(metric, filter, stream).availability # "available"

\* The freshness a figure is trusted by: the marketing stream's, the attribution
\* stream's only without one.
TrustedBy(context) ==
    IF context.status["marketing"] # None THEN context.status["marketing"]
    ELSE context.status["attribution"]

\* scoreConfidence: the product of the parts, as a fraction.
Confidence(context, aligned) ==
    LET status == TrustedBy(context)
        fresh == CASE status \in {None, "fresh"} -> 10 [] status = "delayed" -> 7
                   [] status = "unknown" -> 6 [] OTHER -> 4
        sample == IF aligned > MinimumInstalls THEN MinimumInstalls ELSE aligned
    IN IF context.total = 0 THEN <<fresh * sample, 10 * MinimumInstalls>>
       ELSE <<fresh * context.mapped * (context.total - context.ambiguous) * sample,
              10 * context.total * context.total * MinimumInstalls>>

LevelOf(confidence) ==
    IF 100 * confidence[1] >= 80 * confidence[2] THEN "high"
    ELSE IF 100 * confidence[1] >= 50 * confidence[2] THEN "medium" ELSE "low"

Level(filter, stream) ==
    LevelOf(Confidence(ContextOf(filter, stream), LoadInstalls(filter).aligned))

-----------------------------------------------------------------------------
\* The other screens.

\* loadTimeseries, summed over its days: no channel narrows it.
Chart(filter) ==
    LET rows == AttributionRows(filter.countries)
    IN [spend |-> Spent({p \in DeliveryRows(filter.countries) :
                            filter.account \in {None, AccountOf[p[1]]}}),
        installs |-> Installed(rows), revenue |-> Earned(rows, {"iap", "ad", "total"})]

\* The campaigns whose figures the table adds up for one of the network's.
Children(m) ==
    {row.target : row \in {r \in RowsOf(m) :
        r.target # "none" /\ r.status \notin {"rejected", "ambiguous", "not_applicable", "unmatched"}}}

\* Faulty variant: what is linked in any way is displayed.
ShownChildrenAnyway(m) == Children(m)

\* DISPLAYABLE: the figures of a campaign whose best row is established.
ShownChildren(m) ==
    IF RowsOf(m) # {} /\ Established(BestOf(RowsOf(m))) THEN Children(m) ELSE {}

\* loadCampaignTable: no channel narrows it, and the account only the spend.
TableRow(m, filter) ==
    LET rows == {p \in DeliveryRows(filter.countries) :
                    p[1] = m /\ filter.account \in {None, AccountOf[m]}}
        linked == {p \in NotOrganic(AttributionRows(filter.countries)) : p[1] \in ShownChildren(m)}
    IN [listed |-> rows # {}, spend |-> Spent(rows),
        installs |-> IF linked = {} THEN NotReported ELSE Installed(linked),
        cpi |-> HasRatio(Installed(linked), MinimumInstalls)]

\* Faulty variant: a campaign with any row is no gap.
DeliveryGapsAny(countries) ==
    LET rows == {p \in DeliveryRows(countries) : RowsOf(p[1]) = {}}
    IN {p[1] : p \in {q \in rows : Delivered[q].spend > 0}}

\* loadReconciliationDiscrepancies: campaigns that spent without an established
\* row, and MMP campaigns, organic ones too, no such row points to.
DeliveryGaps(countries) ==
    LET rows == {p \in DeliveryRows(countries) : \A row \in RowsOf(p[1]) : ~Established(row)}
    IN {p[1] : p \in {q \in rows : Delivered[q].spend > 0}}

InstallGaps(countries) ==
    LET linked == {row.target : row \in {r \in mapping : r.from = "network" /\ Established(r)}}
        rows == {p \in AttributionRows(countries) : p[1] \notin linked}
    IN {p[1] : p \in {q \in rows : Attributed[q].installs > 0}}

\* decisions/load.ts credits each MMP campaign to its strongest link alone.
CreditedTo(t) ==
    LET links == {row \in mapping : row.from = "network" /\ Operational(row) /\ row.target = t}
    IN BestOf(links).source

\* The installs a decision about each campaign is drawn from.
DecisionInstalls(m) ==
    Installed({p \in NotOrganic(AttributionRows(Countries)) :
                  p[1] \in LinkedMmp /\ CreditedTo(p[1]) = m})

-----------------------------------------------------------------------------
\* The screens read the tables alone, and whatever the tables are at some moment
\* they also are once every run in progress has been interrupted there: the
\* properties look at these moments.
AtRest == run = [r \in Runners |-> Idle]

\* Counted by coverage from the row of the MMP's side alone: no other figure
\* reads that side.
OneSided == {t \in Mmp : InstallState(t) = "mapped"} \ LinkedMmp

InstalledBy(campaigns, countries) ==
    Installed({p \in AttributionRows(countries) : p[1] \in campaigns})

\* Cards, coverage, chart and decisions agree on the spend and the installs of
\* a slice, but for the installs of campaigns linked from the MMP's side alone
\* (metrics/populations.ts:3-25, reconciliation.ts:978-986).
CardsAgree ==
    AtRest => \A f \in {g \in Filters : g.channel = None /\ g.account = None} :
        LET cards == LoadMarketing(f)
            installs == LoadInstalls(f)
            coverage == EligibleCoverage(f.countries)
            chart == Chart(f)
        IN  /\ cards.spend = coverage.spend /\ cards.mappedSpend = coverage.mappedSpend
            /\ cards.spend = chart.spend /\ installs.paid + installs.organic = chart.installs
            /\ installs.paid = coverage.paid
            /\ coverage.mapped - installs.mapped = InstalledBy(OneSided, f.countries)
            /\ f.countries = Countries =>
                  installs.mapped = SumFunction([m \in Network |-> DecisionInstalls(m)])

\* A cost per install shown without a caveat counts every paid install of its
\* slice, each bought by a campaign that delivered there, against at least 80%
\* of the slice's spend, beside unqualified coverage of its installs, and beside
\* medium confidence at least unless the freshness that is scored by is unknown.
\* An account narrows the spend alone
\* (metrics/populations.ts:86-113, service.ts:1256-1311).
CpiBoughtItsInstalls ==
    AtRest => \A f \in Filters, stream \in Contexts :
        LET cpi == Value(CHOOSE d \in MappedMetrics : d.key = "mapped_cpi", f, stream)
            paid == {p \in NotOrganic(AttributionRows(f.countries)) : Attributed[p].installs > 0}
        IN  cpi.availability = "available" =>
            /\ cpi.denominator = Installed(paid)
            /\ \A p \in paid : \E q \in DeliveryRows(f.countries) :
                    <<q[1], p[1]>> \in Links /\ DidDeliver(q)
            /\ f.account = None => 100 * cpi.numerator >= 80 * Chart(f).spend
            /\ TrustedBy(stream) # "unknown" => Level(f, stream) # "low"
            /\ f.account = None =>
                  ~ \E d \in MetricDefinitions :
                      /\ d.key \in {"attribution_coverage", "mapped_paid_installs",
                                    "delivery_aligned_paid_installs"}
                      /\ Qualified(d, f, stream)

\* The list beside the coverage names the campaigns behind what it misses: all
\* spend, but for that of campaigns verified without a target, and all paid
\* installs, and the one-sided ones although coverage counts them
\* (metrics/queries.ts:491-607).
GapsAreNamed ==
    AtRest => \A countries \in {f.countries : f \in Filters} :
        LET coverage == EligibleCoverage(countries)
            targetless == {m \in Network : /\ CampaignState(m) # "mapped"
                                           /\ \E row \in RowsOf(m) : Established(row)}
            of(campaigns) == Spent({p \in DeliveryRows(countries) : p[1] \in campaigns})
        IN  /\ of(DeliveryGaps(countries)) + of(targetless) = coverage.spend - coverage.mappedSpend
            /\ InstalledBy(InstallGaps(countries) \ Organic, countries)
               = coverage.paid - coverage.mapped + InstalledBy(OneSided, countries)

\* The table shows beside a campaign the paid installs of its operational links,
\* but for a shared name left beside a link of another run or a person's
\* decision (metrics/queries.ts:16-25, 188-195, 326-369).
TableShowsLinks ==
    AtRest => \A m \in Network, f \in Filters :
        LET row == TableRow(m, f)
            links == {link[2] : link \in {l \in Links : l[1] = m}}
            best == BestOf(RowsOf(m))
            leftover == {r \in RowsOf(m) : r.status = "name" /\ (best.status = "verified" \/ best.by # r.by)}
        IN  row.installs # NotReported =>
            row.installs = InstalledBy((links \cup {r.target : r \in leftover}) \ Organic, f.countries)

\* An MMP campaign that only its own side links was refused by the other side
\* for a reason: its network campaign is linked by id to another, has several
\* candidates or was decided by a person, from either side; or the MMP publishes
\* an id for it, which only the network's side heeds when it names a campaign
\* that is not stored.  So after a run that nothing overlapped, whatever syncs
\* and people have changed since (reconciliation.ts:515-597, 978-986).
OneSidedIsContested ==
    AtRest /\ newest = clock /\ (\A pair \in overlap : newest \notin {pair[1], pair[2]}) =>
        \A row \in {r \in mapping : r.from = "mmp" /\ r.status \in Computed /\ Operational(r)} :
            \/ row.source \in LinkedMmp
            \/ \E other \in RowsOf(row.target) : other.status \in {"exact", "ambiguous"} \cup Human
            \/ \E other \in mapping : /\ other.from = "mmp" /\ other.status \in Human
                                      /\ shares[other.source] = row.target
            \/ remote[row.source] # "none"

=============================================================================
