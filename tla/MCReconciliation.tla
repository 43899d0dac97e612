-------------------------- MODULE MCReconciliation --------------------------
(* Two network campaigns and an ad group; two paid MMP campaigns, an organic *)
(* one, and one whose name embeds two names.                                 *)
EXTENDS Figures, TLC

CONSTANTS worker, api

MCWholeName == [t \in Mmp |-> IF t = "t2" THEN "A" ELSE "x"]

MCEmbedded == [t \in Mmp |-> CASE t = "t1" -> {"A"} [] t = "t2" -> {"B"}
                               [] t = "t4" -> {"A", "B"} [] OTHER -> {}]

Named(a, b) == ("m1" :> a) @@ ("m2" :> b)

\* What t1 and t2 are given; nothing is given for the others.
Given(one, two) == [t \in Mmp |-> IF t = "t1" THEN one ELSE IF t = "t2" THEN two ELSE "none"]

World(provider, names, shared, there, above, published, rows) ==
    [mmp |-> provider, name |-> names, shares |-> shared, known |-> there,
     parent |-> ("g1" :> above), remote |-> published, reported |-> rows]

MCWorlds ==
    LET none == Given("none", "none")
        paid == {"t1", "t2"}
    IN  { \* t1 is declared to be m2's, and its name embeds m1's.
          World("tenjin", Named("A", "B"), none, Network, "m2", Given("g1", "none"), paid),
          \* Namesakes.
          World("tenjin", Named("A", "A"), none, Network, "none", none, {"t1"}),
          \* Two MMP campaigns of one ad group.
          World("tenjin", Named("A", "B"), none, {"m1"}, "m1", Given("g1", "g1"), paid),
          \* A campaign not known yet, an organic one and one that embeds two names.
          World("tenjin", Named("A", "B"), none, {"m1"}, "none", none, {"t3", "t4"}),
          \* AppsFlyer: t1 carries m2's id, and its name embeds m1's.
          World("appsflyer", Named("A", "B"), Given("m2", "none"), Network, "none", none, paid) }

\* m1 delivers in both countries, m2 in the second only; t4 is small.
Did(spent, impressions, clicks, links) ==
    [spend |-> spent, impressions |-> impressions, clicks |-> clicks, linkClicks |-> links]

MCDelivered == (<<"m1", "c1">> :> Did(100, 2000, 60, -1)) @@ (<<"m1", "c2">> :> Did(20, 0, 0, 3))
               @@ (<<"m2", "c2">> :> Did(50, 900, 40, -1))

Brought(installed, iap, ad, total) ==
    [installs |-> installed, revenue |-> [iap |-> iap, ad |-> ad, total |-> total]]

MCAttributed == (<<"t1", "c1">> :> Brought(30, 6, 0, 0)) @@ (<<"t1", "c2">> :> Brought(10, 0, 2, 0))
                @@ (<<"t2", "c1">> :> Brought(25, 0, 0, 4)) @@ (<<"t3", "c1">> :> Brought(40, 1, 1, 0))
                @@ (<<"t4", "c1">> :> Brought(3, 0, 0, 0)) @@ (<<"t4", "c2">> :> Brought(4, 0, 0, 0))

MCSpendIn == [m \in Network |-> "USD"]
MCRevenueIn == [t \in Mmp |-> IF t = "t2" THEN "EUR" ELSE "USD"]
MCAccountOf == [m \in Network |-> IF m = "m1" THEN "a1" ELSE "a2"]

MCFilters ==
    LET Slice(countries, channel, account) ==
            [countries |-> countries, channel |-> channel, account |-> account]
    IN {Slice(Countries, None, None), Slice({"c1"}, None, None),
        Slice(Countries, "network", "a1"), Slice({"c2"}, "organic", "a2")}

\* Both streams current, or the network's freshness unknown.
MCContexts ==
    {[bound |-> Streams, status |-> [marketing |-> network, attribution |-> "fresh"],
      supports |-> {"cost_data", "delivery_metrics", "attributed_installs"},
      hours |-> [marketing |-> 1, attribution |-> 3], total |-> 0, mapped |-> 0,
      ambiguous |-> 0] : network \in {"fresh", "unknown"}}

Symmetry == Permutations(Runners)

=============================================================================
