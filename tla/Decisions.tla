------------------------------ MODULE Decisions ------------------------------
(***************************************************************************)
(* The Decision Center over the stored cohorts: what loadDecisionFacts     *)
(* makes of an app's campaigns, and the signal every delivered campaign    *)
(* and the app itself then get.  The cohorts, the revenue syncs and the    *)
(* days are those of Cohorts; what this module adds is a function of them. *)
(*                                                                         *)
(* A circumstance is a record of what Cohorts does not produce:            *)
(*   missing, marketing, spendIn, revenueIn   as facts has them            *)
(*   campaigns   by name: operational and ambiguous, the campaign's        *)
(*               mapping; and spend, installs and revenue (at event grain) *)
(*               of each day, as the providers report them                 *)
(* Cohort revenue is that of the campaign "this".                          *)
(***************************************************************************)
EXTENDS Cohorts

CONSTANTS Circumstances,
          Bodies,          \* the policies an operator may submit
          AppCurrency,     \* the app's default currency
          MaxWindow        \* MAXIMUM_DECISION_WINDOW_DAYS

ASSUME DecisionsAssumption ==
    /\ MaxWindow \in Nat \ {0} /\ Bodies \subseteq [roas : Nat, cpi : Nat, currency : STRING]
    /\ \A c \in Circumstances :
          /\ IsFiniteSet(DOMAIN c.campaigns) /\ c.campaigns["this"].operational
          /\ \A id \in DOMAIN c.campaigns, d \in Days :
                /\ c.campaigns[id].spend[d] \in Nat /\ c.campaigns[id].installs[d] \in Nat
                /\ c.campaigns[id].revenue[d] \in Nat

-----------------------------------------------------------------------------
\* What an operator asks for and what is stored: targets are numbers above zero
\* or absent (0), and a ceiling without a currency is in the app's.
PutPolicy(body) ==
    [body EXCEPT !.currency = IF body.currency = None /\ body.cpi # 0 THEN AppCurrency
                              ELSE body.currency]

\* Without a target the row is deleted, and policySnapshot reads no row as this.
NoPolicy == [roas |-> 0, cpi |-> 0, currency |-> None]

Policies == {IF b.roas = 0 /\ b.cpi = 0 THEN NoPolicy ELSE PutPolicy(b) : b \in Bodies}

\* resolveDecisionWindow, of the windows that reach no day to come.
DecisionWindows ==
    {p \in Days \X Days : p[1] <= p[2] /\ p[2] <= today /\ p[2] - p[1] < MaxWindow}

-----------------------------------------------------------------------------
\* loadDecisionFacts: a campaign's stored delivery, and the installs and the
\* revenue that its operational links bring it.
SpendOf(k, d) == k.spend[d]
InstallsOf(k, d) == IF k.operational /\ d <= installsTo THEN k.installs[d] ELSE 0
RevenueOf(k, d) == IF k.operational /\ d <= latest THEN k.revenue[d] ELSE 0

DeliveredIn(k, from, to) == \E d \in from .. to : SpendOf(k, d) > 0

AlignedInstalls(k, d) == IF SpendOf(k, d) > 0 THEN InstallsOf(k, d) ELSE 0

CohortOf(c, id, d) ==
    [t \in RevenueTypes |->
        IF id = "this" /\ c.campaigns[id].operational THEN Figure(d, t) ELSE 0]

\* Whether a cohort is mature is a property of the day, not of its rows.
Day(d, spend, installs, revenue) ==
    [day |-> d, spend |-> spend, installs |-> installs, revenue |-> revenue,
     oldEnough |-> OldEnough(d), covered |-> Covered(d), settled |-> d < Horizon]

CampaignDays(c, id, from, to) ==
    LET k == c.campaigns[id]
    IN {Day(d, SpendOf(k, d), AlignedInstalls(k, d), CohortOf(c, id, d)) : d \in from .. to}

Mapped(c) == {id \in DOMAIN c.campaigns : c.campaigns[id].operational}

\* The app: its mapped campaigns, each campaign's cohort on the days it spent.
AppDays(c, from, to) ==
    LET k == c.campaigns
        spending(d) == {id \in Mapped(c) : SpendOf(k[id], d) > 0}
    IN {Day(d, SumFunction([id \in Mapped(c) |-> SpendOf(k[id], d)]),
               SumFunction([id \in spending(d) |-> InstallsOf(k[id], d)]),
               [t \in RevenueTypes |->
                   SumFunction([id \in spending(d) |-> CohortOf(c, id, d)[t]])]) :
          d \in from .. to}

SpendShares ==
    [c \in Circumstances, from, to \in Days |->
        LET k == c.campaigns
            of(ids) == SumFunction([id \in ids |->
                                       SumFunction([d \in from .. to |-> SpendOf(k[id], d)])])
            unmapped == DOMAIN k \ Mapped(c)
        IN [total |-> of(DOMAIN k), mapped |-> of(Mapped(c)),
            ambiguous |-> of({id \in unmapped : k[id].ambiguous})]]

\* The days a window is loaded with: its own, and the history before them.
Loaded(from, to) == {d \in Days : from - BaselineDays <= d /\ d <= to}

Active(c, ids, loaded) ==
    {d \in loaded : \E id \in ids :
        SpendOf(c.campaigns[id], d) + InstallsOf(c.campaigns[id], d) > 0}

\* seriesFrom: dense from the first active day to the horizon of the stream.
SeriesDays(active, loaded, horizon) ==
    {d \in loaded : d <= horizon /\ \E first \in active : first <= d}

Series(c, ids, loaded, horizon, Of(_, _)) ==
    [d \in SeriesDays(Active(c, ids, loaded), loaded, horizon) |->
        SumFunction([id \in ids |-> Of(c.campaigns[id], d)])]

\* The unusual movements of a scope.
Moves(c, ids, from, to) ==
    LET of(metric, horizon, Of(_, _)) ==
            {<<p[1], metric, p[2]>> :
                p \in DetectAnomalies(Series(c, ids, Loaded(from, to), horizon, Of), from, to)}
    IN of("spend", today, SpendOf) \cup of("installs", installsTo, InstallsOf)
          \cup of("revenue", latest, RevenueOf)

-----------------------------------------------------------------------------
\* What is known against each day.
Signals ==
    [d \in Days |->
        (IF \E e \in errors : d \in e THEN {"sync_error"} ELSE {})
            \cup (IF d > installsTo THEN {"uncovered"} ELSE {})
            \cup (IF d \in findings THEN {"finding"} ELSE {})]

FindingsIn(from, to) == findings \cap from .. to

Facts(c, scope, from, to) ==
    [missing |-> c.missing, isApp |-> scope.isApp, operational |-> scope.mapping.operational,
     ambiguous |-> scope.mapping.ambiguous, spend |-> SpendShares[c, from, to],
     marketing |-> c.marketing, attribution |-> status, syncErrors |-> errors # {},
     findings |-> FindingsIn(from, to) # {}, horizon |-> Horizon # NoDay,
     spendIn |-> c.spendIn, revenueIn |-> c.revenueIn,
     capabilities |-> answers, signals |-> Signals]

\* loadDecisions: every delivered campaign and the app, by the same rules.
Scopes(c, from, to) ==
    {[isApp |-> FALSE, ids |-> {id}, mapping |-> c.campaigns[id]] :
        id \in {i \in DOMAIN c.campaigns : DeliveredIn(c.campaigns[i], from, to)}}
    \cup {[isApp |-> TRUE, ids |-> Mapped(c),
           mapping |-> [operational |-> TRUE, ambiguous |-> FALSE]]}

ScopeDays(c, scope, from, to) ==
    IF scope.isApp THEN AppDays(c, from, to)
    ELSE CampaignDays(c, CHOOSE id \in scope.ids : TRUE, from, to)

Signal(c, scope, from, to) ==
    LET days == ScopeDays(c, scope, from, to)
        facts == Facts(c, scope, from, to)
        impediments == Impediments(facts, Moves(c, scope.ids, from, to))
    IN [policy \in Policies |-> EvaluateScope(days, facts, impediments, policy).signal]

-----------------------------------------------------------------------------
Evaluated(days) == {x.day : x \in {y \in days : y.spend > 0 /\ Mature(y)}}
SettledDays(days) == {x.day : x \in {y \in days : y.spend > 0 /\ y.settled}}

SpentOn(scope, c, on) ==
    SumFunction([d \in on |-> SumFunction([id \in scope.ids |-> c.campaigns[id].spend[d]])])

\* What the cohorts that the spend of the evaluated days bought really earned.
TrueReturn(scope, c, on) ==
    Truth({d \in on : "this" \in scope.ids /\ c.campaigns["this"].spend[d] > 0}, "total")

\* And what the installs of its settled days were, of campaigns that spent.
TrueInstalls(scope, c, on) ==
    LET spent(d) == {id \in scope.ids : c.campaigns[id].spend[d] > 0}
    IN SumFunction([d \in on |-> SumFunction([id \in spent(d) |-> c.campaigns[id].installs[d]])])

ByReturn(policy) == ReturnMeasure(policy, answers) # None

ReallyAbove(scope, c, days, policy) ==
    IF ByReturn(policy)
    THEN LET on == Evaluated(days)
         IN AboveBand(TrueReturn(scope, c, on), SpentOn(scope, c, on), policy.roas)
    ELSE LET on == SettledDays(days)
         IN BelowBand(SpentOn(scope, c, on), TrueInstalls(scope, c, on), policy.cpi)

ReallyBelow(scope, c, days, policy) ==
    IF ByReturn(policy)
    THEN LET on == Evaluated(days)
         IN BelowBand(TrueReturn(scope, c, on), SpentOn(scope, c, on), policy.roas)
    ELSE LET on == SettledDays(days)
         IN AboveBand(SpentOn(scope, c, on), TrueInstalls(scope, c, on), policy.cpi)

\* The readings that rest on a day: a settled one at least.
Readable == {p \in DecisionWindows : \E d \in p[1] .. p[2] : d < Horizon}

\* A signal is deserved.  A reading that says 'scale', of a campaign or of the
\* app, is of cohorts that really returned the upper edge of the band on what
\* bought them, whichever columns the report has, had or lost; one that says
\* 'reduce', of cohorts that returned no more than the lower edge, unless one of
\* their days is held covered although no run finally read it.  By a CPI ceiling
\* it is of installs that really cost so little or so much.  Readings look at
\* stored tables alone, and a death of the run in flight leaves what it had
\* stored by then: the states without a run have every state of the tables
\* (decisions/rules.ts:1052-1166).
SignalIsDeserved ==
    run = Idle => \A p \in Readable, c \in Circumstances :
        \A scope \in Scopes(c, p[1], p[2]) :
            LET signal == Signal(c, scope, p[1], p[2])
                days == ScopeDays(c, scope, p[1], p[2])
            IN \A policy \in Policies :
                  /\ signal[policy] = "scale" => ReallyAbove(scope, c, days, policy)
                  /\ signal[policy] = "reduce"
                        => \/ ReallyBelow(scope, c, days, policy)
                           \/ /\ ByReturn(policy)
                              /\ \E d \in Evaluated(days) : HeldCovered(d, "total")

=============================================================================
