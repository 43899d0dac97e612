--------------------------- MODULE Reconciliation ---------------------------
(***************************************************************************)
(* Reconciliation of the marketing network's campaigns with the campaigns  *)
(* an attribution provider (the MMP) reports, as rows of                   *)
(* provider_entity_mappings, beside the people who verify or reject them.  *)
(* The worker reconciles after a sync, the API on request, and nothing     *)
(* keeps two of them apart.  A run reads the facts, then the decisions,    *)
(* upserts row by row, prunes, reviews coverage and replaces its findings: *)
(* one step is one statement, or one loop of inserts.  Names are their     *)
(* normalised keys.                                                        *)
(***************************************************************************)
EXTENDS Naturals, FiniteSets

CONSTANTS
    Network,        \* campaigns of the marketing network
    AdGroups,       \* its ad groups
    Mmp,            \* campaigns the MMP reports
    Names,          \* normalised names
    WholeName,      \* each MMP campaign's own name
    Embedded,       \* the names it carries in parentheses
    Organic,        \* MMP campaigns whose media source is organic
    Delivering,     \* network campaigns that spent in the last 30 days
    Worlds,         \* what earlier syncs may have stored
    Runners,        \* who may be reconciling: the worker, the API
    MaxRuns, MaxChanges     \* bounds on runs, and on changes beside them

ASSUME ReconciliationAssumption ==
    /\ IsFiniteSet(Network) /\ IsFiniteSet(Mmp) /\ IsFiniteSet(Names)
    /\ Network \cap Mmp = {} /\ AdGroups \cap (Network \cup Mmp) = {}
    /\ "none" \notin Network \cup AdGroups \cup Mmp \cup Names \cup Runners
    /\ WholeName \in [Mmp -> Names] /\ Embedded \in [Mmp -> SUBSET Names]
    /\ Organic \subseteq Mmp /\ Delivering \subseteq Network
    /\ Worlds \subseteq
          [mmp : {"tenjin", "appsflyer"}, name : [Network -> Names],
           shares : [Mmp -> Network \cup {"none"}], known : SUBSET Network,
           parent : [AdGroups -> Network \cup {"none"}],
           remote : [Mmp -> AdGroups \cup Network \cup {"none"}], reported : SUBSET Mmp]
    /\ \A w \in Worlds : \A t \in Mmp :
          IF w.mmp = "tenjin" THEN w.shares[t] = "none" ELSE w.remote[t] = "none"
    /\ MaxRuns \in Nat /\ MaxChanges \in Nat

VARIABLES
    mmp,        \* the attribution provider: "tenjin" or "appsflyer"
    name,       \* marketing_campaigns.name
    shares,     \* AppsFlyer: the network campaign whose id the MMP campaign carries
    known,      \* rows of marketing_campaigns
    parent,     \* marketing_ad_groups: its campaign, "none" while unknown
    remote,     \* attribution_campaigns.remote_campaign_id
    reported,   \* MMP campaigns with attribution rows
    mapping,    \* rows of provider_entity_mappings
    finding,    \* reconciliation findings, each with the run that wrote it
    run,        \* the runs in progress
    clock,      \* number of the newest run; the time rows are stamped with
    changes,    \* changes of facts and decisions so far
    decision,   \* history: what people last decided of each row
    overlap,    \* history: <<older, newer>> runs that were in progress together
    newest      \* history: the newest run that got as far as clearing findings

facts == <<mmp, name, shares, known, parent, remote, reported>>
vars == <<facts, mapping, finding, run, clock, changes, decision, overlap, newest>>

Facts == [known |-> known, parent |-> parent, remote |-> remote, reported |-> reported]
NoFacts == [known |-> {}, parent |-> <<>>, remote |-> <<>>, reported |-> {}]

\* declared: what the run found declared of campaigns no person had decided;
\* calm: nobody decided anything meanwhile and no other run was in progress.
Idle == [at |-> "idle", number |-> 0, facts |-> NoFacts, todo |-> {}, declared |-> {},
         calm |-> TRUE]

Computed == {"exact", "embedded", "name", "ambiguous", "unmatched", "not_applicable"}
Human == {"verified", "rejected"}
Checks == {"spend", "installs", "ambiguous", "historical"}

MappingRows ==
    [from : {"network", "mmp"}, source : Network \cup Mmp, target : Network \cup Mmp \cup {"none"},
     status : Computed \cup Human, among : SUBSET Mmp, at : 1 .. MaxRuns, by : 1 .. MaxRuns]

Key(row) == <<row.from, row.source, row.target>>

\* Rows are unique by key, human rows among them.
TypeOK ==
    /\ mmp \in {"tenjin", "appsflyer"} /\ name \in [Network -> Names]
    /\ shares \in [Mmp -> Network \cup {"none"}]
    /\ known \subseteq Network /\ reported \subseteq Mmp
    /\ parent \in [AdGroups -> Network \cup {"none"}]
    /\ remote \in [Mmp -> AdGroups \cup Network \cup {"none"}]
    /\ mapping \subseteq MappingRows
    /\ \A a, b \in mapping : Key(a) = Key(b) => a = b
    /\ finding \subseteq (1 .. MaxRuns) \X Checks
    /\ \A r \in Runners : run[r].at \in {"idle", "read", "upsert", "prune", "review", "clear",
                                         "record"}
    /\ clock \in 0 .. MaxRuns /\ changes \in 0 .. MaxChanges /\ newest \in 0 .. clock

-----------------------------------------------------------------------------
\* The matching rules, over the facts f a run has read.

Paid(f) == f.reported \ Organic

\* A provider-published id, tried as an ad group and then as a campaign for
\* Tenjin and Meta.  "none" when the structure does not hold it.
Resolve(f, t) ==
    LET id == f.remote[t]
    IN  IF id \in AdGroups /\ f.parent[id] # "none" THEN f.parent[id]
        ELSE IF id \in f.known THEN id ELSE "none"

Declared(f) == {t \in Paid(f) : Resolve(f, t) # "none"}

NameKeys(t) == {WholeName[t]} \cup Embedded[t]

ById(f, m) == {t \in Paid(f) : shares[t] = m}

\* Faulty variant: the names outweigh what the MMP declares.
NameCandidatesUnvetoed(f, m) == {t \in Paid(f) : name[m] \in NameKeys(t)}

\* Faulty variant: the names in parentheses are read from one side only.
NameCandidatesWhole(f, m) ==
    {t \in Paid(f) : name[m] = WholeName[t] /\ Resolve(f, t) \in {"none", m}}

\* A candidate declared to belong to another campaign is none for this one.
NameCandidates(f, m) ==
    {t \in Paid(f) : name[m] \in NameKeys(t) /\ Resolve(f, t) \in {"none", m}}

Namesakes(f, m) == {o \in f.known : name[o] = name[m]}

Row(from, source, target, status, among) ==
    [from |-> from, source |-> source, target |-> target, status |-> status, among |-> among,
     at |-> 0, by |-> 0]

\* Without a declaration or a shared id: one name embedded in theirs links them
\* all, a bare shared name only one, and nothing where it is the name of several.
LinkedByName(f, m) ==
    LET called == NameCandidates(f, m)
        embeddedOnly == \A t \in called : WholeName[t] # name[m]
    IN  IF called = {} THEN {Row("network", m, "none", "unmatched", {})}
        ELSE IF Cardinality(Namesakes(f, m)) > 1
             THEN {Row("network", m, "none", "ambiguous", called)}
        ELSE IF embeddedOnly THEN {Row("network", m, t, "embedded", called) : t \in called}
        ELSE IF Cardinality(called) = 1
             THEN {Row("network", m, t, "name", called) : t \in called}
        ELSE {Row("network", m, "none", "ambiguous", called)}

\* What one network campaign is linked to.
Forward(f, m) ==
    LET declared == {t \in Declared(f) : Resolve(f, t) = m}
        same == ById(f, m)
    IN  IF declared # {} THEN {Row("network", m, t, "exact", declared) : t \in declared}
        ELSE IF same # {} THEN {Row("network", m, CHOOSE t \in same : TRUE, "exact", {})}
        ELSE LinkedByName(f, m)

\* What one MMP campaign is linked to, seen from its side.
Reverse(f, t) ==
    LET matches == {m \in f.known : name[m] \in NameKeys(t)}
    IN  IF shares[t] \in f.known THEN Row("mmp", t, shares[t], "exact", {})
        ELSE IF Cardinality(matches) # 1 THEN Row("mmp", t, "none", "unmatched", {})
        ELSE LET m == CHOOSE m \in matches : TRUE
             IN  Row("mmp", t, m, IF name[m] = WholeName[t] THEN "name" ELSE "embedded", {})

\* The external id of an MMP campaign: AppsFlyer's is the network's own.
IdOf(t) == IF shares[t] = "none" THEN t ELSE shares[t]

\* All rows of a run, given the ids people have decided.
Reconciled(f, decided) ==
    (UNION {Forward(f, m) : m \in f.known \ decided})
    \cup {Reverse(f, t) : t \in {u \in Paid(f) : /\ Resolve(f, u) \notin f.known
                                                 /\ IdOf(u) \notin decided}}
    \cup {Row("mmp", t, "none", "not_applicable", {}) : t \in f.reported \cap Organic}

-----------------------------------------------------------------------------
\* Coverage, the population every mapped figure is computed over.

Operational(row) == row.status \in {"exact", "embedded", "verified"} /\ row.target # "none"

\* Source and target of a row as a pair of campaigns.
Link(row) == IF row.from = "network" THEN <<row.source, row.target>> ELSE <<row.target, row.source>>

CampaignState(m) ==
    IF \E row \in mapping : row.from = "network" /\ row.source = m /\ Operational(row)
    THEN "mapped"
    ELSE IF \E row \in mapping : row.from = "network" /\ row.source = m /\ row.status = "ambiguous"
    THEN "ambiguous" ELSE "unmapped"

InstallState(t) ==
    IF t \in Organic THEN "organic"
    ELSE IF \E row \in mapping : Operational(row) /\ Link(row)[2] = t THEN "mapped"
    ELSE IF \E row \in mapping : row.status = "ambiguous" /\ t \in row.among THEN "ambiguous"
    ELSE "unmapped"

\* Below 80% of the spend mapped, installs unmapped, campaigns ambiguous or
\* without delivery; every delivering campaign has spent one unit.
FindingsDue ==
    LET delivered == known \cap Delivering
        in(state) == {m \in delivered : CampaignState(m) = state}
    IN  {check \in Checks :
            CASE check = "spend" -> 100 * Cardinality(in("mapped")) < 80 * Cardinality(delivered)
              [] check = "installs" -> \E t \in reported : InstallState(t) \in {"ambiguous", "unmapped"}
              [] check = "ambiguous" -> in("ambiguous") # {}
              [] OTHER -> known # delivered}

-----------------------------------------------------------------------------
\* Before the first run: part of the structure and of the attribution is there.
Init ==
    /\ \E w \in Worlds :
          /\ mmp = w.mmp /\ name = w.name /\ shares = w.shares
          /\ known = w.known /\ parent = w.parent /\ remote = w.remote /\ reported = w.reported
    /\ mapping = {} /\ finding = {} /\ run = [r \in Runners |-> Idle]
    /\ clock = 0 /\ changes = 0
    /\ decision = {} /\ overlap = {} /\ newest = 0

\* A network campaign is stored for the first time.
UpsertCampaigns ==
    /\ \E m \in Network \ known : known' = known \cup {m}
    /\ UNCHANGED <<parent, remote, reported>>

\* Installs of an MMP campaign are stored for the first time.
UpsertAttributionInstalls ==
    /\ \E t \in Mmp \ reported : reported' = reported \cup {t}
    /\ UNCHANGED <<known, parent, remote>>

\* The network says which campaign one of its ad groups is of.
UpsertAdGroup(id) ==
    id \in AdGroups /\ \E m \in Network : parent' = [parent EXCEPT ![id] = m]

\* The directory says which of the network's ids a campaign belongs to, be it
\* that of an ad group which the network has reported meanwhile.
UpsertAttributionCampaigns ==
    /\ mmp = "tenjin"
    /\ \E t \in Mmp \ Organic, id \in AdGroups \cup Network :
          /\ remote' = [remote EXCEPT ![t] = id]
          /\ UpsertAdGroup(id) \/ UNCHANGED parent
    /\ UNCHANGED <<known, reported>>

\* Syncs store structure, attribution and the MMP's directory meanwhile.
Sync ==
    /\ changes < MaxChanges /\ changes' = changes + 1
    /\ UpsertCampaigns \/ UpsertAttributionInstalls \/ UpsertAttributionCampaigns
    /\ UNCHANGED <<mmp, name, shares, mapping, finding, run, clock, decision, overlap, newest>>

Busy == {r \in Runners : run[r].at # "idle"}

\* runStartedAt is taken, then structure, attribution and directory are read.
StartRun(r) ==
    /\ run[r] = Idle /\ clock < MaxRuns
    /\ clock' = clock + 1
    /\ run' = [s \in Runners |->
                  IF s = r THEN [Idle EXCEPT !.at = "read", !.number = clock + 1,
                                             !.facts = Facts, !.calm = Busy = {}]
                  ELSE [run[s] EXCEPT !.calm = run[s] = Idle]]
    /\ overlap' = overlap \cup {<<run[s].number, clock + 1>> : s \in Busy}
    /\ UNCHANGED <<facts, mapping, finding, changes, decision, newest>>

\* Campaigns a person has decided are not recomputed.
ReadDecided(r) ==
    LET f == run[r].facts
        decided == {IF row.from = "mmp" THEN IdOf(row.source) ELSE row.source :
                        row \in {row \in mapping : row.status \in Human}}
    IN  /\ run[r].at = "read"
        /\ run' = [run EXCEPT ![r].at = "upsert", ![r].facts = NoFacts,
                              ![r].todo = Reconciled(f, decided),
                              ![r].declared = {<<Resolve(f, t), t>> :
                                  t \in {u \in Declared(f) : Resolve(f, u) \in f.known \ decided}}]
        /\ UNCHANGED <<facts, mapping, finding, clock, changes, decision, overlap, newest>>

\* Faulty variant: the row a person decided is recomputed like any other.
UpsertedOver(row, old) == row

\* ON CONFLICT: a decided row keeps its decision, everything is stamped anew.
Upserted(row, old) == IF old.status \in Human THEN [row EXCEPT !.status = old.status] ELSE row

\* Faulty variant: a row that is already there keeps its time.
UpsertMappingUnstamped(r) ==
    /\ run[r].at = "upsert"
    /\ \/ /\ run[r].todo = {}
          /\ run' = [run EXCEPT ![r].at = "prune"] /\ UNCHANGED mapping
       \/ /\ run[r].todo # {}
          /\ LET due == CHOOSE row \in run[r].todo : TRUE
                 row == [due EXCEPT !.at = clock, !.by = run[r].number]
                 there == {old \in mapping : Key(old) = Key(row)}
             IN  /\ mapping' = IF there = {} THEN mapping \cup {row} ELSE mapping
                 /\ run' = [run EXCEPT ![r].todo = @ \ {due}]
    /\ UNCHANGED <<facts, finding, clock, changes, decision, overlap, newest>>

UpsertMapping(r) ==
    /\ run[r].at = "upsert"
    /\ \/ /\ run[r].todo = {}
          /\ run' = [run EXCEPT ![r].at = "prune"] /\ UNCHANGED mapping
       \/ /\ run[r].todo # {}
          /\ LET due == CHOOSE row \in run[r].todo : TRUE
                 row == [due EXCEPT !.at = clock, !.by = run[r].number]
                 there == {old \in mapping : Key(old) = Key(row)}
             IN  /\ mapping' = (mapping \ there)
                               \cup (IF there = {} THEN {row} ELSE {Upserted(row, old) : old \in there})
                 /\ run' = [run EXCEPT ![r].todo = @ \ {due}]
    /\ UNCHANGED <<facts, finding, clock, changes, decision, overlap, newest>>

\* Computed rows stamped before this run began are deleted.
PruneStaleMappings(r) ==
    /\ run[r].at = "prune"
    /\ mapping' = {row \in mapping : row.at >= run[r].number \/ row.status \in Human}
    /\ run' = [run EXCEPT ![r].at = "review"]
    /\ UNCHANGED <<facts, finding, clock, changes, decision, overlap, newest>>

ReviewCoverage(r) ==
    /\ run[r].at = "review"
    /\ run' = [run EXCEPT ![r].at = "clear", ![r].todo = FindingsDue]
    /\ UNCHANGED <<facts, mapping, finding, clock, changes, decision, overlap, newest>>

\* Faulty variant: findings are appended like those of a sync.
ClearFindingsNever(r) ==
    /\ run[r].at = "clear"
    /\ newest' = IF run[r].number > newest THEN run[r].number ELSE newest
    /\ run' = [run EXCEPT ![r].at = "record"]
    /\ UNCHANGED <<facts, mapping, finding, clock, changes, decision, overlap>>

ClearFindings(r) ==
    /\ run[r].at = "clear"
    /\ finding' = {}
    /\ newest' = IF run[r].number > newest THEN run[r].number ELSE newest
    /\ run' = [run EXCEPT ![r].at = "record"]
    /\ UNCHANGED <<facts, mapping, clock, changes, decision, overlap>>

RecordFindings(r) ==
    /\ run[r].at = "record"
    /\ finding' = finding \cup ({run[r].number} \X run[r].todo)
    /\ run' = [run EXCEPT ![r] = Idle]
    /\ UNCHANGED <<facts, mapping, clock, changes, decision, overlap, newest>>

\* A statement fails or the process restarts; the next run starts over.
Interrupt(r) ==
    /\ run[r].at # "idle"
    /\ run' = [run EXCEPT ![r] = Idle]
    /\ UNCHANGED <<facts, mapping, finding, clock, changes, decision, overlap, newest>>

\* Faulty variant: nothing refuses a key another row has.
SetMappingVerificationUnkeyed(row, status, target) ==
    /\ changes < MaxChanges /\ changes' = changes + 1
    /\ mapping' = (mapping \ {row}) \cup {[row EXCEPT !.status = status, !.target = target]}
    /\ decision' = {d \in decision : d[1] # Key(row)}
                   \cup {<<<<row.from, row.source, target>>, status>>}
    /\ run' = [s \in Runners |-> [run[s] EXCEPT !.calm = run[s] = Idle]]
    /\ UNCHANGED <<facts, finding, clock, overlap, newest>>

\* A person verifies or rejects a row by its id, perhaps naming the target;
\* the unique key refuses a target another row of the source has.
SetMappingVerification(row, status, target) ==
    /\ changes < MaxChanges /\ changes' = changes + 1
    /\ \A other \in mapping : Key(other) = <<row.from, row.source, target>> => other = row
    /\ mapping' = (mapping \ {row}) \cup {[row EXCEPT !.status = status, !.target = target]}
    /\ decision' = {d \in decision : d[1] # Key(row)}
                   \cup {<<<<row.from, row.source, target>>, status>>}
    /\ run' = [s \in Runners |-> [run[s] EXCEPT !.calm = run[s] = Idle]]
    /\ UNCHANGED <<facts, finding, clock, overlap, newest>>

Reconcile(r) ==
    \/ StartRun(r) \/ ReadDecided(r) \/ UpsertMapping(r) \/ PruneStaleMappings(r)
    \/ ReviewCoverage(r) \/ ClearFindings(r) \/ RecordFindings(r) \/ Interrupt(r)

Next ==
    \/ Sync
    \/ \E r \in Runners : Reconcile(r)
    \/ \E row \in mapping, status \in Human :
          \E target \in {row.target} \cup (IF row.from = "network" THEN Mmp ELSE Network) :
              SetMappingVerification(row, status, target)

Spec == Init /\ [][Next]_vars

-----------------------------------------------------------------------------
\* What a person decided of a row stands until a person decides otherwise,
\* however runs that began before or after it overlap
\* (db/repositories/mappings.ts:48-105).
DecisionsStand == decision \subseteq {<<Key(row), row.status>> : row \in mapping}

\* One run credits a paid MMP campaign to two network campaigns only when the
\* MMP's name embeds more than one name, or its id is the network's and its
\* name another's; never through two identifiers and never to namesakes
\* (reconciliation.ts:349-378).
CreditedOnce ==
    \A a, b \in {row \in mapping : row.status \in {"exact", "embedded"}} :
        LET t == Link(a)[2]
        IN  /\ a.by = b.by /\ Link(b)[2] = t /\ Link(a)[1] # Link(b)[1]
            => /\ Cardinality(Embedded[t]) > 1 \/ shares[t] # "none"
               /\ {a.status, b.status} # {"exact"}
               /\ name[Link(a)[1]] # name[Link(b)[1]]

\* A run nothing disturbed leaves every MMP campaign whose published id it
\* resolved linked to that campaign, unless a person had decided something
\* about the campaign (reconciliation.ts:515-527).
DeclaredIsLinked ==
    \A r \in Runners : run[r].at \in {"review", "clear", "record"} /\ run[r].calm =>
        \A link \in run[r].declared :
            \E row \in mapping : row.status = "exact" /\ row.from = "network" /\ Link(row) = link

\* Computed rows and findings older than the newest run that replaced them
\* come from runs that were still in progress when it began
\* (reconciliation.ts:134-136, dataQuality.ts:47-66).
StaleOnlyByOverlap ==
    LET stale == {row.by : row \in {row \in mapping : row.status \in Computed}}
                 \cup {f[1] : f \in finding}
    IN  \A n \in stale : n < newest => <<n, newest>> \in overlap

=============================================================================
