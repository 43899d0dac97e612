----------------------- MODULE Reconciliation_proofs -----------------------
(***************************************************************************)
(* Theorems about Reconciliation, for any campaigns, ad groups and names,  *)
(* whatever earlier syncs stored, any runners, runs and changes.           *)
(***************************************************************************)
EXTENDS Reconciliation, FiniteSetTheorems, TLAPS

(***************************************************************************)
(* What the matching rules return.                                         *)
(***************************************************************************)

\* Facts a run may have read.
FactsRead(f) ==
    /\ f.known \subseteq Network /\ f.reported \subseteq Mmp
    /\ f.parent \in [AdGroups -> Network \cup {"none"}]
    /\ f.remote \in [Mmp -> AdGroups \cup Network \cup {"none"}]

\* The marketing and attribution tables, which syncs write.
FactsTyped ==
    /\ mmp \in {"tenjin", "appsflyer"} /\ name \in [Network -> Names]
    /\ shares \in [Mmp -> Network \cup {"none"}]
    /\ FactsRead(Facts)

\* Rows as the rules make them, before they are stamped.
DueRows ==
    [from : {"network", "mmp"}, source : Network \cup Mmp, target : Network \cup Mmp \cup {"none"},
     status : Computed, among : SUBSET Mmp, at : {0}, by : {0}]

\* An id resolves to a campaign of the network or to none.
LEMMA ResolveType ==
    ASSUME NEW f, FactsRead(f), NEW t \in Mmp
    PROVE  Resolve(f, t) \in Network \cup {"none"}
BY DEF Resolve, FactsRead

\* The rules make rows, each of the campaign it was asked about.
LEMMA ForwardRows ==
    ASSUME FactsTyped, NEW f, FactsRead(f), NEW m \in f.known
    PROVE  /\ Forward(f, m) \subseteq DueRows
           /\ \A row \in Forward(f, m) : row.from = "network" /\ row.source = m
<1> DEFINE declared == {t \in Declared(f) : Resolve(f, t) = m}
           same == ById(f, m)
           called == NameCandidates(f, m)
<1>1. m \in Network /\ declared \subseteq Mmp /\ same \subseteq Mmp /\ called \subseteq Mmp
  BY DEF FactsRead, Declared, ById, NameCandidates, Paid
<1>2. ASSUME NEW t \in Mmp \cup {"none"}, NEW s \in Computed, NEW among \in SUBSET Mmp
      PROVE  /\ Row("network", m, t, s, among) \in DueRows
             /\ Row("network", m, t, s, among).from = "network"
             /\ Row("network", m, t, s, among).source = m
  BY <1>1 DEF Row, DueRows
<1>3. ASSUME same # {} PROVE (CHOOSE t \in same : TRUE) \in Mmp
  BY <1>1, <1>3
<1>4. \A row \in Forward(f, m) :
        \E t \in Mmp \cup {"none"}, s \in Computed, among \in SUBSET Mmp :
            row = Row("network", m, t, s, among)
  BY <1>1, <1>3 DEF Forward, LinkedByName, Computed
<1> QED BY <1>2, <1>4

LEMMA ReverseRow ==
    ASSUME FactsTyped, NEW f, FactsRead(f), NEW t \in Mmp
    PROVE  /\ Reverse(f, t) \in DueRows
           /\ Reverse(f, t).from = "mmp" /\ Reverse(f, t).source = t
<1> DEFINE matches == {m \in f.known : name[m] \in NameKeys(t)}
<1>1. ASSUME NEW m \in Network \cup {"none"}, NEW s \in Computed
      PROVE  /\ Row("mmp", t, m, s, {}) \in DueRows
             /\ Row("mmp", t, m, s, {}).from = "mmp" /\ Row("mmp", t, m, s, {}).source = t
  BY DEF Row, DueRows
<1>2. Cardinality(matches) = 1 => (CHOOSE m \in matches : TRUE) \in Network
  <2> SUFFICES ASSUME Cardinality(matches) = 1 PROVE matches # {} /\ matches \subseteq Network
    OBVIOUS
  <2> QED BY FS_EmptySet DEF FactsRead
<1>3. \E m \in Network \cup {"none"}, s \in Computed : Reverse(f, t) = Row("mmp", t, m, s, {})
  <2>1. CASE shares[t] \in f.known
    BY <2>1 DEF Reverse, Computed, FactsRead
  <2>2. CASE shares[t] \notin f.known /\ Cardinality(matches) # 1
    BY <2>2 DEF Reverse, Computed
  <2>3. CASE shares[t] \notin f.known /\ Cardinality(matches) = 1
    BY <1>2, <2>3 DEF Reverse, Computed
  <2> QED BY <2>1, <2>2, <2>3
<1> QED BY <1>1, <1>3

\* All of a run's rows: of the network's side, or of the MMP's.
LEMMA ReconciledRows ==
    ASSUME FactsTyped, NEW f, FactsRead(f), NEW decided
    PROVE  /\ Reconciled(f, decided) \subseteq DueRows
           /\ \A row \in Reconciled(f, decided) :
                \/ row.source \in f.known \ decided /\ row \in Forward(f, row.source)
                \/ /\ row.source \in Paid(f) /\ row = Reverse(f, row.source)
                   /\ Resolve(f, row.source) \notin f.known
                \/ row.source \in Organic /\ row.status = "not_applicable" /\ row.from = "mmp"
<1>1. ASSUME NEW t \in f.reported \cap Organic
      PROVE  /\ Row("mmp", t, "none", "not_applicable", {}) \in DueRows
             /\ Row("mmp", t, "none", "not_applicable", {}).source = t
             /\ Row("mmp", t, "none", "not_applicable", {}).status = "not_applicable"
             /\ Row("mmp", t, "none", "not_applicable", {}).from = "mmp"
  BY DEF Row, DueRows, Computed, FactsRead
<1>2. ASSUME NEW t \in Paid(f) PROVE t \in Mmp
  BY DEF Paid, FactsRead
<1>3. ASSUME NEW row \in Reconciled(f, decided)
      PROVE  /\ row \in DueRows
             /\ \/ row.source \in f.known \ decided /\ row \in Forward(f, row.source)
                \/ /\ row.source \in Paid(f) /\ row = Reverse(f, row.source)
                   /\ Resolve(f, row.source) \notin f.known
                \/ row.source \in Organic /\ row.status = "not_applicable" /\ row.from = "mmp"
  <2>1. CASE \E m \in f.known \ decided : row \in Forward(f, m)
    <3>1. PICK m \in f.known \ decided : row \in Forward(f, m)
      BY <2>1
    <3>2. row \in DueRows /\ row.source = m
      BY <3>1, ForwardRows
    <3> QED BY <3>1, <3>2
  <2>2. CASE \E t \in Paid(f) : row = Reverse(f, t) /\ Resolve(f, t) \notin f.known
    BY <1>2, <2>2, ReverseRow
  <2>3. CASE \E t \in f.reported \cap Organic : row = Row("mmp", t, "none", "not_applicable", {})
    BY <1>1, <2>3
  <2>4. \/ \E m \in f.known \ decided : row \in Forward(f, m)
        \/ \E t \in Paid(f) : row = Reverse(f, t) /\ Resolve(f, t) \notin f.known
        \/ \E t \in f.reported \cap Organic : row = Row("mmp", t, "none", "not_applicable", {})
    <3> DEFINE A == UNION {Forward(f, m) : m \in f.known \ decided}
               B == {Reverse(f, t) : t \in {u \in Paid(f) : /\ Resolve(f, u) \notin f.known
                                                           /\ IdOf(u) \notin decided}}
               C == {Row("mmp", t, "none", "not_applicable", {}) : t \in f.reported \cap Organic}
    <3>1. row \in A => \E m \in f.known \ decided : row \in Forward(f, m)
      OBVIOUS
    <3>2. row \in B => \E t \in Paid(f) : row = Reverse(f, t) /\ Resolve(f, t) \notin f.known
      OBVIOUS
    <3>3. row \in C => \E t \in f.reported \cap Organic :
                             row = Row("mmp", t, "none", "not_applicable", {})
      OBVIOUS
    <3>4. Reconciled(f, decided) = A \cup B \cup C
      BY DEF Reconciled
    <3> HIDE DEF A, B, C
    <3> QED BY <1>3, <3>1, <3>2, <3>3, <3>4
  <2> QED BY <2>1, <2>2, <2>3, <2>4
<1> QED BY <1>3

(***************************************************************************)
(* The invariant: what the tables and the runs in progress hold.           *)
(***************************************************************************)

FactSets ==
    [known : SUBSET Network, parent : [AdGroups -> Network \cup {"none"}],
     remote : [Mmp -> AdGroups \cup Network \cup {"none"}], reported : SUBSET Mmp]

RunRecords ==
    [at : {"idle", "read", "upsert", "prune", "review", "clear", "record"}, number : Nat,
     facts : FactSets \cup {NoFacts}, todo : (SUBSET DueRows) \cup (SUBSET Checks),
     declared : SUBSET ((Network \cup {"none"}) \X Mmp), calm : BOOLEAN]

\* A run in progress has a number, and at each stage what it has to write.
RunTyped(r) ==
    /\ run[r].at # "idle" => run[r].number \in 1 .. clock
    /\ run[r].at = "read" => FactsRead(run[r].facts)
    /\ run[r].at = "upsert" => run[r].todo \subseteq DueRows
    /\ run[r].at \in {"clear", "record"} => run[r].todo \subseteq Checks

RunsTyped == run \in [Runners -> RunRecords] /\ \A r \in Runners : RunTyped(r)

KeysUnique == \A a, b \in mapping : Key(a) = Key(b) => a = b

TablesTyped ==
    /\ FactsTyped /\ mapping \subseteq MappingRows /\ KeysUnique
    /\ finding \subseteq (1 .. clock) \X Checks
    /\ clock \in 0 .. MaxRuns /\ changes \in 0 .. MaxChanges /\ newest \in 0 .. clock

Typed == TablesTyped /\ RunsTyped

LEMMA TypedIsTypeOK == Typed => TypeOK
<1> SUFFICES ASSUME Typed PROVE TypeOK
  OBVIOUS
<1>1. finding \subseteq (1 .. MaxRuns) \X Checks
  BY ReconciliationAssumption DEF Typed, TablesTyped
<1> QED BY <1>1 DEF TypeOK, Typed, TablesTyped, RunsTyped, RunRecords, FactsTyped, FactsRead, Facts,
           KeysUnique

LEMMA IdleTyped == Idle \in RunRecords
BY DEF Idle, RunRecords

LEMMA Bounds == MaxRuns \in Nat /\ MaxChanges \in Nat
BY ReconciliationAssumption

LEMMA InitTyped == Init => Typed
<1> SUFFICES ASSUME Init PROVE Typed
  OBVIOUS
<1>1. FactsTyped
  BY ReconciliationAssumption DEF Init, FactsTyped, FactsRead, Facts
<1>3. RunsTyped
  BY IdleTyped DEF Init, RunsTyped, RunTyped, Idle
<1> QED BY <1>1, <1>3, ReconciliationAssumption DEF Init, Typed, TablesTyped, KeysUnique

\* A step of one run leaves the others as they are.
LEMMA OneRunMoves ==
    ASSUME Typed, NEW r \in Runners, NEW new \in RunRecords,
           run' = [run EXCEPT ![r] = new], clock' = clock
    PROVE  /\ run'[r] = new /\ run' \in [Runners -> RunRecords]
           /\ \A s \in Runners \ {r} : run'[s] = run[s] /\ RunTyped(s)'
<1>1. run'[r] = new /\ run' \in [Runners -> RunRecords] /\ \A s \in Runners \ {r} : run'[s] = run[s]
  BY DEF Typed, RunsTyped
<1>2. ASSUME NEW s \in Runners \ {r} PROVE RunTyped(s)'
  BY <1>1 DEF Typed, RunsTyped, RunTyped
<1> QED BY <1>1, <1>2

LEMMA SyncTyped == Typed /\ Sync => Typed'
<1> SUFFICES ASSUME Typed, Sync PROVE Typed'
  OBVIOUS
<1> USE DEF Typed, TablesTyped
<1>1. FactsTyped'
  <2>1. mmp' = mmp /\ name' = name /\ shares' = shares
    BY DEF Sync, UpsertCampaigns, UpsertAttributionInstalls,
           UpsertAttributionCampaigns, UpsertAdGroup
  <2>2. known' \subseteq Network /\ reported' \subseteq Mmp
    BY DEF Sync, UpsertCampaigns, UpsertAttributionInstalls,
           UpsertAttributionCampaigns, UpsertAdGroup, FactsTyped, FactsRead, Facts
  <2>3. /\ parent' \in [AdGroups -> Network \cup {"none"}]
        /\ remote' \in [Mmp -> AdGroups \cup Network \cup {"none"}]
    BY DEF Sync, UpsertCampaigns, UpsertAttributionInstalls,
           UpsertAttributionCampaigns, UpsertAdGroup, FactsTyped, FactsRead, Facts
  <2> QED BY <2>1, <2>2, <2>3 DEF FactsTyped, FactsRead, Facts
<1>2. /\ UNCHANGED <<mapping, finding, run, clock, newest>>
      /\ changes' \in 0 .. MaxChanges
  BY ReconciliationAssumption DEF Sync, UpsertCampaigns, UpsertAttributionInstalls,
                                  UpsertAttributionCampaigns, UpsertAdGroup
<1>3. RunsTyped'
  BY <1>2 DEF RunsTyped, RunTyped
<1> QED BY <1>1, <1>2, <1>3 DEF KeysUnique

\* Starting a run reads the facts and tells the others they are not alone.
LEMMA StartRunTyped ==
    ASSUME Typed, NEW r \in Runners, StartRun(r)
    PROVE  Typed'
<1> USE DEF Typed, TablesTyped
<1> DEFINE mine == [Idle EXCEPT !.at = "read", !.number = clock + 1, !.facts = Facts,
                                !.calm = Busy = {}]
           other(s) == [run[s] EXCEPT !.calm = run[s] = Idle]
<1>1. /\ UNCHANGED <<facts, mapping, finding, changes, newest>> /\ clock' = clock + 1
      /\ clock < MaxRuns /\ run' = [s \in Runners |-> IF s = r THEN mine ELSE other(s)]
  BY DEF StartRun
<1>2. FactsTyped' /\ clock' \in 0 .. MaxRuns /\ newest' \in 0 .. clock'
  <2>1. FactsTyped'
    BY <1>1 DEF FactsTyped, FactsRead, Facts, facts
  <2>2. clock' \in 0 .. MaxRuns /\ newest' \in 0 .. clock'
    <3>1. clock \in 0 .. MaxRuns /\ newest \in 0 .. clock /\ newest' = newest
      BY <1>1
    <3>2. clock' = clock + 1 /\ clock < MaxRuns
      BY <1>1
    <3> QED BY ONLY <3>1, <3>2, Bounds
  <2> QED BY <2>1, <2>2
<1>3. Facts \in FactSets /\ FactsRead(Facts)
  BY DEF FactsTyped, FactsRead, Facts, FactSets
<1>4. mine \in RunRecords /\ mine.at = "read" /\ mine.number = clock + 1 /\ mine.facts = Facts
  <2>1. ASSUME NEW alone \in BOOLEAN
        PROVE  LET it == [Idle EXCEPT !.at = "read", !.number = clock + 1, !.facts = Facts,
                                      !.calm = alone]
               IN  it \in RunRecords /\ it.at = "read" /\ it.number = clock + 1 /\ it.facts = Facts
    <3>1. clock + 1 \in Nat /\ Facts \in FactSets /\ alone \in BOOLEAN
      BY <1>3
    <3> QED BY ONLY <3>1, IdleTyped DEF RunRecords
  <2>2. (Busy = {}) \in BOOLEAN
    OBVIOUS
  <2> QED BY <2>1, <2>2, Zenon
<1>5. ASSUME NEW s \in Runners \ {r}
      PROVE  /\ other(s) \in RunRecords /\ other(s).at = run[s].at /\ other(s).number = run[s].number
             /\ other(s).facts = run[s].facts /\ other(s).todo = run[s].todo
  <2>1. ASSUME NEW b \in BOOLEAN
        PROVE  LET it == [run[s] EXCEPT !.calm = b]
               IN  /\ it \in RunRecords /\ it.at = run[s].at /\ it.number = run[s].number
                   /\ it.facts = run[s].facts /\ it.todo = run[s].todo
    BY DEF RunsTyped, RunRecords
  <2>2. (run[s] = Idle) \in BOOLEAN
    OBVIOUS
  <2> QED BY <2>1, <2>2, Zenon
<1> HIDE DEF mine, other
<1>6. RunsTyped'
  <2>1. run' \in [Runners -> RunRecords]
    BY <1>1, <1>4, <1>5
  <2>2. ASSUME NEW s \in Runners PROVE RunTyped(s)'
    <3>1. CASE s = r
      <4>1. run'[s] = mine
        BY <1>1, <3>1
      <4> QED BY <1>1, <1>2, <1>3, <1>4, <4>1 DEF RunTyped
    <3>2. CASE s # r
      <4>1. run'[s] = other(s)
        BY <1>1, <3>2
      <4>2. RunTyped(s)
        BY DEF RunsTyped
      <4> QED BY <1>1, <1>2, <1>5, <3>2, <4>1, <4>2 DEF RunTyped
    <3> QED BY <3>1, <3>2
  <2> QED BY <2>1, <2>2 DEF RunsTyped
<1> QED BY <1>1, <1>2, <1>6 DEF KeysUnique

LEMMA ReadDecidedTyped ==
    ASSUME Typed, NEW r \in Runners, ReadDecided(r)
    PROVE  Typed'
<1> DEFINE f == run[r].facts
           decided == {IF row.from = "mmp" THEN IdOf(row.source) ELSE row.source :
                        row \in {row \in mapping : row.status \in Human}}
           links == {<<Resolve(f, t), t>> :
                        t \in {u \in Declared(f) : Resolve(f, u) \in f.known \ decided}}
           due == Reconciled(f, decided)
           new == [run[r] EXCEPT !.at = "upsert", !.facts = NoFacts, !.todo = due,
                                 !.declared = links]
<1>1. /\ UNCHANGED <<facts, mapping, finding, clock, changes, newest>>
      /\ run[r].at = "read" /\ run' = [run EXCEPT ![r] = new]
  BY DEF ReadDecided, Typed, RunsTyped
<1>2. FactsRead(f) /\ run[r] \in RunRecords /\ run[r].number \in 1 .. clock
  BY <1>1 DEF Typed, RunsTyped, RunTyped
<1>3. due \subseteq DueRows
  BY <1>2, ReconciledRows DEF Typed, TablesTyped
<1>4. links \subseteq (Network \cup {"none"}) \X Mmp
  BY <1>2, ResolveType DEF Declared, Paid, FactsRead
<1>5. new \in RunRecords /\ new.at = "upsert" /\ new.todo = due /\ new.number = run[r].number
  <2> HIDE DEF due, links
  <2> QED BY <1>2, <1>3, <1>4 DEF RunRecords
<1> HIDE DEF new
<1>6. RunsTyped'
  <2>1. RunTyped(r)'
    BY <1>1, <1>2, <1>3, <1>5, OneRunMoves DEF RunTyped
  <2> QED BY <1>1, <1>5, <2>1, OneRunMoves DEF RunsTyped
<1> QED BY <1>1, <1>6 DEF Typed, TablesTyped, KeysUnique, FactsTyped, FactsRead, Facts, facts

\* A row as it is stamped on its way to the table.
Stamped(due, n) == [due EXCEPT !.at = clock, !.by = n]

LEMMA StampedRow ==
    ASSUME Typed, NEW due \in DueRows, NEW n \in 1 .. clock
    PROVE  /\ Stamped(due, n) \in MappingRows /\ Key(Stamped(due, n)) = Key(due)
           /\ Stamped(due, n).at = clock /\ Stamped(due, n).by = n
           /\ Stamped(due, n).status = due.status /\ Stamped(due, n).among = due.among
           /\ Stamped(due, n).from = due.from /\ Stamped(due, n).source = due.source
           /\ Stamped(due, n).target = due.target
<1>1. clock \in 1 .. MaxRuns /\ n \in 1 .. MaxRuns
  <2>1. clock \in 0 .. MaxRuns
    BY DEF Typed, TablesTyped
  <2> QED BY <2>1, Bounds
<1> QED BY <1>1 DEF Stamped, DueRows, MappingRows, Key

LEMMA UpsertedRow ==
    ASSUME NEW row \in MappingRows, NEW old \in MappingRows
    PROVE  /\ Upserted(row, old) \in MappingRows /\ Key(Upserted(row, old)) = Key(row)
           /\ Upserted(row, old).at = row.at /\ Upserted(row, old).by = row.by
           /\ Upserted(row, old).from = row.from /\ Upserted(row, old).source = row.source
           /\ Upserted(row, old).target = row.target
           /\ Upserted(row, old).status = IF old.status \in Human THEN old.status ELSE row.status
<1>1. CASE old.status \in Human
  <2>1. old.status \in Computed \cup Human
    BY DEF MappingRows
  <2> QED BY <1>1, <2>1 DEF Upserted, MappingRows, Key
<1>2. CASE old.status \notin Human
  BY <1>2 DEF Upserted
<1> QED BY <1>1, <1>2

\* The row a run writes takes the place of the one with its key, whose
\* decision it keeps.
UpsertWrites(r, due, new) ==
    /\ new \in MappingRows /\ Key(new) = Key(due) /\ new.at = clock /\ new.by = run[r].number
    /\ new.from = due.from /\ new.source = due.source /\ new.target = due.target
    /\ mapping' = {row \in mapping : Key(row) # Key(new)} \cup {new}
    /\ \A row \in mapping : Key(row) = Key(new) /\ row.status \in Human => new.status = row.status
    /\ \/ new.status = due.status
       \/ \E row \in mapping : Key(row) = Key(new) /\ row.status \in Human /\ new.status = row.status

LEMMA UpsertOne ==
    ASSUME Typed, NEW r \in Runners, UpsertMapping(r), run[r].todo # {}
    PROVE  \E due \in run[r].todo, new \in MappingRows :
              /\ UpsertWrites(r, due, new)
              /\ run' = [run EXCEPT ![r] = [run[r] EXCEPT !.todo = run[r].todo \ {due}]]
<1> DEFINE due == CHOOSE row \in run[r].todo : TRUE
           row == Stamped(due, run[r].number)
           there == {old \in mapping : Key(old) = Key(row)}
<1>1. /\ run[r].at = "upsert" /\ run' = [run EXCEPT ![r].todo = @ \ {due}]
      /\ mapping' = (mapping \ there)
                     \cup (IF there = {} THEN {row} ELSE {Upserted(row, old) : old \in there})
  BY DEF UpsertMapping, Stamped
<1>2. due \in run[r].todo
  OBVIOUS
<1>3. /\ run' = [run EXCEPT ![r] = [run[r] EXCEPT !.todo = run[r].todo \ {due}]]
      /\ run[r].todo \subseteq DueRows /\ run[r].number \in 1 .. clock
  BY <1>1 DEF Typed, RunsTyped, RunTyped
<1> HIDE DEF due
<1>4. /\ row \in MappingRows /\ Key(row) = Key(due) /\ row.at = clock /\ row.by = run[r].number
      /\ row.status = due.status /\ row.from = due.from /\ row.source = due.source
      /\ row.target = due.target /\ due.status \in Computed
  BY <1>2, <1>3, StampedRow DEF DueRows
<1> HIDE DEF row
<1>5. mapping \subseteq MappingRows /\ KeysUnique
  BY DEF Typed, TablesTyped
<1>6. mapping \ there = {old \in mapping : Key(old) # Key(row)}
  OBVIOUS
<1>7. CASE there = {}
  <2>1. UpsertWrites(r, due, row)
    BY <1>1, <1>4, <1>6, <1>7 DEF UpsertWrites
  <2> QED BY <1>2, <1>3, <1>4, <2>1
<1>8. CASE there # {}
  <2>1. PICK old \in there : TRUE
    BY <1>8
  <2>2. \A other \in mapping : Key(other) = Key(row) => other = old
    BY <1>5, <2>1 DEF KeysUnique
  <2>3. {Upserted(row, other) : other \in there} = {Upserted(row, old)}
    BY <2>1, <2>2
  <2> DEFINE new == Upserted(row, old)
  <2>4. /\ new \in MappingRows /\ Key(new) = Key(row) /\ new.at = row.at /\ new.by = row.by
        /\ new.from = row.from /\ new.source = row.source /\ new.target = row.target
        /\ new.status = IF old.status \in Human THEN old.status ELSE row.status
    BY <1>4, <1>5, <2>1, UpsertedRow
  <2>5. mapping' = {other \in mapping : Key(other) # Key(row)} \cup {new}
    BY <1>1, <1>6, <1>8, <2>3
  <2> HIDE DEF new
  <2>6. UpsertWrites(r, due, new)
    BY <1>4, <2>1, <2>2, <2>4, <2>5 DEF UpsertWrites
  <2> QED BY <1>2, <1>3, <2>4, <2>6
<1> QED BY <1>7, <1>8

LEMMA UpsertMappingTyped ==
    ASSUME Typed, NEW r \in Runners, UpsertMapping(r)
    PROVE  Typed'
<1>1. UNCHANGED <<facts, finding, clock, changes, newest>> /\ run[r].at = "upsert"
  BY DEF UpsertMapping
<1>2. run[r] \in RunRecords /\ run[r].todo \subseteq DueRows /\ run[r].number \in 1 .. clock
  BY <1>1 DEF Typed, RunsTyped, RunTyped
<1>3. FactsTyped'
  BY <1>1 DEF Typed, TablesTyped, FactsTyped, FactsRead, Facts, facts
<1>4. CASE run[r].todo = {}
  <2> DEFINE new == [run[r] EXCEPT !.at = "prune"]
  <2>1. run' = [run EXCEPT ![r] = new] /\ mapping' = mapping
    BY <1>4 DEF UpsertMapping
  <2>2. new \in RunRecords /\ new.at = "prune" /\ new.number = run[r].number
    BY <1>2 DEF RunRecords
  <2> HIDE DEF new
  <2>3. RunsTyped'
    BY <1>1, <1>2, <2>1, <2>2, OneRunMoves DEF RunsTyped, RunTyped
  <2> QED BY <1>1, <1>3, <2>1, <2>3 DEF Typed, TablesTyped, KeysUnique
<1>5. CASE run[r].todo # {}
  <2>1. PICK due \in run[r].todo, row \in MappingRows :
            /\ UpsertWrites(r, due, row)
            /\ run' = [run EXCEPT ![r] = [run[r] EXCEPT !.todo = run[r].todo \ {due}]]
    BY <1>5, UpsertOne
  <2> DEFINE new == [run[r] EXCEPT !.todo = run[r].todo \ {due}]
  <2>2. /\ new \in RunRecords /\ new.at = "upsert" /\ new.number = run[r].number
        /\ new.todo \subseteq DueRows
    BY <1>1, <1>2 DEF RunRecords
  <2>3. run' = [run EXCEPT ![r] = new]
    BY <2>1
  <2> HIDE DEF new
  <2>4. RunsTyped'
    BY <1>1, <1>2, <2>2, <2>3, OneRunMoves DEF RunsTyped, RunTyped
  <2>5. (mapping \subseteq MappingRows /\ KeysUnique)'
    BY <2>1 DEF UpsertWrites, Typed, TablesTyped, KeysUnique
  <2> QED BY <1>1, <1>3, <2>4, <2>5 DEF Typed, TablesTyped
<1> QED BY <1>4, <1>5

\* The remaining steps of a run keep facts, and only take rows away.
LEMMA LaterStepsTyped ==
    ASSUME Typed, NEW r \in Runners,
           \/ PruneStaleMappings(r) \/ ReviewCoverage(r) \/ ClearFindings(r)
           \/ RecordFindings(r) \/ Interrupt(r)
    PROVE  Typed'
<1>1. /\ UNCHANGED <<facts, clock, changes>> /\ mapping' \subseteq mapping
      /\ run[r].at # "idle"
  BY DEF PruneStaleMappings, ReviewCoverage, ClearFindings, RecordFindings, Interrupt
<1>2. run[r] \in RunRecords /\ run[r].number \in 1 .. clock /\ RunTyped(r)
  BY <1>1 DEF Typed, RunsTyped, RunTyped
<1>3. FactsTyped'
  BY <1>1 DEF Typed, TablesTyped, FactsTyped, FactsRead, Facts, facts
<1>4. (mapping \subseteq MappingRows /\ KeysUnique)'
  BY <1>1 DEF Typed, TablesTyped, KeysUnique
<1>5. newest' \in 0 .. clock
  BY <1>2 DEF PruneStaleMappings, ReviewCoverage, ClearFindings, RecordFindings, Interrupt,
        Typed, TablesTyped
<1>6. finding' \subseteq (1 .. clock) \X Checks
  <2>1. finding \subseteq (1 .. clock) \X Checks
    BY DEF Typed, TablesTyped
  <2>2. CASE RecordFindings(r)
    <3>1. run[r].todo \subseteq Checks /\ finding' = finding \cup ({run[r].number} \X run[r].todo)
      BY <1>2, <2>2 DEF RecordFindings, RunTyped
    <3> QED BY <1>2, <2>1, <3>1
  <2>3. CASE ~RecordFindings(r)
    BY <2>1, <2>3 DEF PruneStaleMappings, ReviewCoverage, ClearFindings, Interrupt
  <2> QED BY <2>2, <2>3
<1>7. \E new \in RunRecords :
          /\ run' = [run EXCEPT ![r] = new]
          /\ \/ new = Idle
             \/ /\ new.number = run[r].number /\ new.at \in {"review", "clear", "record"}
                /\ new.at # "review" => new.todo \subseteq Checks
  <2>1. CASE PruneStaleMappings(r)
    <3> DEFINE new == [run[r] EXCEPT !.at = "review"]
    <3>1. run' = [run EXCEPT ![r] = new]
      BY <2>1 DEF PruneStaleMappings
    <3>2. new \in RunRecords /\ new.number = run[r].number /\ new.at = "review"
      BY <1>2 DEF RunRecords
    <3> QED BY <3>1, <3>2
  <2>2. CASE ReviewCoverage(r)
    <3> DEFINE due == FindingsDue
               new == [run[r] EXCEPT !.at = "clear", !.todo = due]
    <3>1. run' = [run EXCEPT ![r] = new]
      BY <2>2 DEF ReviewCoverage, Typed, RunsTyped
    <3>2. due \in SUBSET Checks
      BY DEF FindingsDue
    <3> HIDE DEF due
    <3>3. ASSUME NEW todo \in (SUBSET DueRows) \cup (SUBSET Checks)
          PROVE  LET it == [run[r] EXCEPT !.at = "clear", !.todo = todo]
                 IN  it \in RunRecords /\ it.number = run[r].number /\ it.at = "clear" /\ it.todo = todo
      <4>1. run[r] \in RunRecords
        BY <1>2
      <4> QED BY ONLY <3>3, <4>1 DEF RunRecords
    <3>5. due \in (SUBSET DueRows) \cup (SUBSET Checks)
      BY <3>2
    <3>4. /\ new \in RunRecords /\ new.number = run[r].number /\ new.at = "clear"
          /\ new.todo \subseteq Checks
      BY <3>2, <3>3, <3>5
    <3> QED BY <3>1, <3>4
  <2>3. CASE ClearFindings(r)
    <3> DEFINE new == [run[r] EXCEPT !.at = "record"]
    <3>1. run' = [run EXCEPT ![r] = new] /\ run[r].at = "clear"
      BY <2>3 DEF ClearFindings
    <3>2. /\ new \in RunRecords /\ new.number = run[r].number /\ new.at = "record"
          /\ new.todo \subseteq Checks
      BY <1>2, <3>1 DEF RunRecords, RunTyped
    <3> QED BY <3>1, <3>2
  <2>4. CASE RecordFindings(r) \/ Interrupt(r)
    BY <2>4, IdleTyped DEF RecordFindings, Interrupt
  <2> QED BY <2>1, <2>2, <2>3, <2>4
<1>8. RunsTyped'
  <2>1. PICK new \in RunRecords :
          /\ run' = [run EXCEPT ![r] = new]
          /\ \/ new = Idle
             \/ /\ new.number = run[r].number /\ new.at \in {"review", "clear", "record"}
                /\ new.at # "review" => new.todo \subseteq Checks
    BY <1>7
  <2>2. new = Idle => new.at = "idle"
    BY DEF Idle
  <2>3. RunTyped(r)'
    BY <1>1, <1>2, <2>1, <2>2, OneRunMoves DEF RunTyped
  <2> QED BY <1>1, <2>1, <2>3, OneRunMoves DEF RunsTyped
<1> QED BY <1>1, <1>3, <1>4, <1>5, <1>6, <1>8 DEF Typed, TablesTyped

\* A person's word on a row: its decision and its target.
Decided(row, status, target) == [row EXCEPT !.status = status, !.target = target]

LEMMA DecidedRow ==
    ASSUME NEW row \in MappingRows, NEW status \in Human,
           NEW target \in Network \cup Mmp \cup {"none"}
    PROVE  /\ Decided(row, status, target) \in MappingRows
           /\ Key(Decided(row, status, target)) = <<row.from, row.source, target>>
           /\ Decided(row, status, target).status = status
           /\ Decided(row, status, target).at = row.at /\ Decided(row, status, target).by = row.by
           /\ Decided(row, status, target).source = row.source
BY DEF Decided, MappingRows, Key, Human, Computed

\* The row decided is the only one left with its key.
DecisionWrites(row, status, target) ==
    /\ row \in mapping /\ status \in Human /\ target \in Network \cup Mmp \cup {"none"}
    /\ \A other \in mapping : Key(other) = <<row.from, row.source, target>> => other = row
    /\ mapping' = (mapping \ {row}) \cup {Decided(row, status, target)}
    /\ decision' = {d \in decision : d[1] # Key(row)}
                   \cup {<<<<row.from, row.source, target>>, status>>}
    /\ run' = [s \in Runners |-> [run[s] EXCEPT !.calm = run[s] = Idle]]
    /\ changes' \in 0 .. MaxChanges
    /\ UNCHANGED <<facts, finding, clock, overlap, newest>>

LEMMA DecisionSteps ==
    ASSUME Typed, NEW row \in mapping, NEW status \in Human,
           NEW target \in {row.target} \cup (IF row.from = "network" THEN Mmp ELSE Network),
           SetMappingVerification(row, status, target)
    PROVE  DecisionWrites(row, status, target)
<1>1. row \in MappingRows
  BY DEF Typed, TablesTyped
<1>2. target \in Network \cup Mmp \cup {"none"}
  BY <1>1 DEF MappingRows
<1>3. changes' \in 0 .. MaxChanges
  <2>1. changes \in 0 .. MaxChanges /\ changes < MaxChanges /\ changes' = changes + 1
    BY DEF SetMappingVerification, Typed, TablesTyped
  <2> QED BY ONLY <2>1, Bounds
<1> QED BY <1>2, <1>3 DEF SetMappingVerification, DecisionWrites, Decided

LEMMA DecisionTyped ==
    ASSUME Typed, NEW row \in mapping, NEW status \in Human,
           NEW target \in Network \cup Mmp \cup {"none"}, DecisionWrites(row, status, target)
    PROVE  Typed'
<1> DEFINE new == Decided(row, status, target)
           other(s) == [run[s] EXCEPT !.calm = run[s] = Idle]
<1>1. mapping \subseteq MappingRows /\ KeysUnique /\ row \in MappingRows
  BY DEF Typed, TablesTyped
<1>2. new \in MappingRows /\ Key(new) = <<row.from, row.source, target>>
  BY <1>1, DecidedRow
<1>3. /\ mapping' = (mapping \ {row}) \cup {new}
      /\ \A o \in mapping : Key(o) = Key(new) => o = row
  BY <1>2 DEF DecisionWrites
<1> HIDE DEF new
<1>4. (mapping \subseteq MappingRows /\ KeysUnique)'
  BY <1>1, <1>2, <1>3 DEF KeysUnique
<1>5. FactsTyped'
  BY DEF DecisionWrites, Typed, TablesTyped, FactsTyped, FactsRead, Facts, facts
<1>6. ASSUME NEW s \in Runners
      PROVE  /\ other(s) \in RunRecords /\ other(s).at = run[s].at /\ other(s).number = run[s].number
             /\ other(s).facts = run[s].facts /\ other(s).todo = run[s].todo
  <2>1. ASSUME NEW b \in BOOLEAN
        PROVE  LET it == [run[s] EXCEPT !.calm = b]
               IN  /\ it \in RunRecords /\ it.at = run[s].at /\ it.number = run[s].number
                   /\ it.facts = run[s].facts /\ it.todo = run[s].todo
    BY DEF Typed, RunsTyped, RunRecords
  <2>2. (run[s] = Idle) \in BOOLEAN
    OBVIOUS
  <2> QED BY <2>1, <2>2, Zenon
<1>7. run' = [s \in Runners |-> other(s)] /\ clock' = clock
  BY DEF DecisionWrites
<1> HIDE DEF other
<1>8. RunsTyped'
  <2>1. run' \in [Runners -> RunRecords]
    BY <1>6, <1>7
  <2>2. ASSUME NEW s \in Runners PROVE RunTyped(s)'
    <3>1. run'[s] = other(s) /\ RunTyped(s)
      BY <1>7 DEF Typed, RunsTyped
    <3> QED BY <1>6, <1>7, <3>1 DEF RunTyped
  <2> QED BY <2>1, <2>2 DEF RunsTyped
<1> QED BY <1>4, <1>5, <1>8 DEF DecisionWrites, Typed, TablesTyped

LEMMA NextTyped == Typed /\ [Next]_vars => Typed'
<1> SUFFICES ASSUME Typed, [Next]_vars PROVE Typed'
  OBVIOUS
<1>1. CASE Sync
  BY <1>1, SyncTyped
<1>2. ASSUME NEW r \in Runners, Reconcile(r) PROVE Typed'
  BY <1>2, StartRunTyped, ReadDecidedTyped, UpsertMappingTyped, LaterStepsTyped DEF Reconcile
<1>3. ASSUME NEW row \in mapping, NEW status \in Human,
             NEW target \in {row.target} \cup (IF row.from = "network" THEN Mmp ELSE Network),
             SetMappingVerification(row, status, target)
      PROVE  Typed'
  <2>1. DecisionWrites(row, status, target)
    BY <1>3, DecisionSteps
  <2>2. target \in Network \cup Mmp \cup {"none"}
    BY <2>1 DEF DecisionWrites
  <2> QED BY <2>1, <2>2, DecisionTyped
<1>4. CASE UNCHANGED vars
  BY <1>4 DEF vars, facts, Typed, TablesTyped, RunsTyped, RunTyped, KeysUnique, FactsTyped,
     FactsRead, Facts
<1> QED BY <1>1, <1>2, <1>3, <1>4 DEF Next

\* The tables keep their types and unique keys, and runs in progress hold rows of the
\* matching rules, whatever overlaps.
THEOREM StaysTyped == Spec => []Typed
BY InitTyped, NextTyped, PTL DEF Spec

\* Every table and every run keeps its type, and no two rows of the mapping
\* table have the same source and target (migrations/0001_init.sql, the unique
\* key upsertMapping relies on).
THEOREM TypeCorrect == Spec => []TypeOK
BY StaysTyped, TypedIsTypeOK, PTL

(***************************************************************************)
(* What people decided.                                                    *)
(***************************************************************************)

DecisionInv == decision \subseteq {<<Key(row), row.status>> : row \in {m \in mapping : m.status \in Human}}

LEMMA DecisionStep == Typed /\ DecisionInv /\ [Next]_vars => DecisionInv'
<1> SUFFICES ASSUME Typed, DecisionInv, [Next]_vars PROVE DecisionInv'
  OBVIOUS
<1>0. mapping \subseteq MappingRows /\ KeysUnique
  BY DEF Typed, TablesTyped
<1>1. CASE Sync \/ UNCHANGED vars
  BY <1>1 DEF Sync, UpsertCampaigns, UpsertAttributionInstalls,
              UpsertAttributionCampaigns, UpsertAdGroup, vars, DecisionInv
<1>2. ASSUME NEW r \in Runners, Reconcile(r) PROVE DecisionInv'
  <2>1. decision' = decision
    BY <1>2 DEF Reconcile, StartRun, ReadDecided, UpsertMapping, PruneStaleMappings, ReviewCoverage,
                ClearFindings, RecordFindings, Interrupt
  <2>2. ASSUME NEW row \in mapping, row.status \in Human
        PROVE  \E m \in mapping' : Key(m) = Key(row) /\ m.status = row.status
    <3>1. CASE UpsertMapping(r) /\ run[r].todo # {}
      <4>1. PICK due \in run[r].todo, new \in MappingRows : UpsertWrites(r, due, new)
        BY <3>1, UpsertOne
      <4> QED BY <2>2, <4>1 DEF UpsertWrites
    <3>2. CASE PruneStaleMappings(r)
      BY <2>2, <3>2 DEF PruneStaleMappings
    <3>3. CASE ~PruneStaleMappings(r) /\ ~(UpsertMapping(r) /\ run[r].todo # {})
      <4>1. mapping' = mapping
        BY <1>2, <3>3 DEF Reconcile, StartRun, ReadDecided, UpsertMapping, ReviewCoverage,
                    ClearFindings, RecordFindings, Interrupt
      <4> QED BY <4>1
    <3> QED BY <3>1, <3>2, <3>3
  <2> QED BY <2>1, <2>2 DEF DecisionInv
<1>3. ASSUME NEW row \in mapping, NEW status \in Human,
             NEW target \in {row.target} \cup (IF row.from = "network" THEN Mmp ELSE Network),
             SetMappingVerification(row, status, target)
      PROVE  DecisionInv'
  <2>1. DecisionWrites(row, status, target)
    BY <1>3, DecisionSteps
  <2> DEFINE new == Decided(row, status, target)
  <2>2. /\ Key(new) = <<row.from, row.source, target>> /\ new.status = status
        /\ mapping' = (mapping \ {row}) \cup {new}
        /\ decision' = {d \in decision : d[1] # Key(row)} \cup {<<Key(new), status>>}
    BY <1>0, <2>1, DecidedRow DEF DecisionWrites
  <2> HIDE DEF new
  <2>3. ASSUME NEW d \in decision, d[1] # Key(row)
        PROVE  \E m \in mapping' : m.status \in Human /\ d = <<Key(m), m.status>>
    <3>1. PICK m \in mapping : m.status \in Human /\ d = <<Key(m), m.status>>
      BY DEF DecisionInv
    <3>2. m # row
      BY <2>3, <3>1
    <3> QED BY <2>2, <3>1, <3>2
  <2> QED BY <2>2, <2>3 DEF DecisionInv
<1> QED BY <1>1, <1>2, <1>3 DEF Next

\* What a person decided of a row stands until a person decides otherwise,
\* whatever reconciliations do meanwhile.
THEOREM DecisionsLast == Spec => []DecisionsStand
<1>1. Init => DecisionInv
  BY DEF Init, DecisionInv
<1>2. DecisionInv => DecisionsStand
  BY DEF DecisionInv, DecisionsStand
<1> QED BY <1>1, <1>2, StaysTyped, DecisionStep, PTL DEF Spec

(***************************************************************************)
(* Stale rows and findings.                                                *)
(***************************************************************************)

\* A run in progress has overlapped with every later one.
RunsOverlap ==
    \A r \in Busy : \A k \in Nat : run[r].number < k /\ k <= clock => <<run[r].number, k>> \in overlap

\* A row was written while its run overlapped with all those begun since.
RowsOverlap ==
    \A row \in mapping :
        /\ row.at <= clock
        /\ \A k \in Nat : row.by < k /\ k <= row.at => <<row.by, k>> \in overlap

\* A run that has pruned has left no older computed row, and none is added.
Pruned ==
    \A row \in mapping : row.status \in Computed =>
        /\ newest <= row.at
        /\ \A r \in Runners : run[r].at \in {"review", "clear", "record"} => run[r].number <= row.at

FindingsOverlap == \A f \in finding : f[1] < newest => <<f[1], newest>> \in overlap

StaleInv == RunsOverlap /\ RowsOverlap /\ Pruned /\ FindingsOverlap

LEMMA StaleInvIsEnough == Typed /\ StaleInv => StaleOnlyByOverlap
<1> SUFFICES ASSUME Typed, StaleInv PROVE StaleOnlyByOverlap
  OBVIOUS
<1>1. newest \in Nat
  BY DEF Typed, TablesTyped
<1>2. ASSUME NEW row \in mapping, row.status \in Computed, row.by < newest
      PROVE  <<row.by, newest>> \in overlap
  BY <1>1, <1>2 DEF StaleInv, Pruned, RowsOverlap
<1>3. ASSUME NEW f \in finding, f[1] < newest PROVE <<f[1], newest>> \in overlap
  BY <1>3 DEF StaleInv, FindingsOverlap
<1> QED BY <1>2, <1>3 DEF StaleOnlyByOverlap

\* A step that starts nothing and writes no row.
LEMMA QuietStep ==
    ASSUME Typed, Typed', StaleInv, UNCHANGED <<clock, overlap, finding, newest>>,
           \A row \in mapping' : \E old \in mapping :
               row.at = old.at /\ row.by = old.by /\ (row.status \in Computed => old.status \in Computed),
           \A r \in Runners :
               /\ run'[r].at # "idle" => run[r].at # "idle" /\ run'[r].number = run[r].number
               /\ run'[r].at \in {"review", "clear", "record"}
                    => run[r].at \in {"review", "clear", "record"}
    PROVE  StaleInv'
<1>1. RunsOverlap'
  BY DEF StaleInv, RunsOverlap, Busy
<1>2. RowsOverlap'
  BY DEF StaleInv, RowsOverlap
<1>3. Pruned'
  BY DEF StaleInv, Pruned
<1>4. FindingsOverlap'
  BY DEF StaleInv, FindingsOverlap
<1> QED BY <1>1, <1>2, <1>3, <1>4 DEF StaleInv

LEMMA StaleStep == Typed /\ Typed' /\ StaleInv /\ [Next]_vars => StaleInv'
<1> SUFFICES ASSUME Typed, Typed', StaleInv, [Next]_vars PROVE StaleInv'
  OBVIOUS
<1>0. /\ clock \in Nat /\ newest \in 0 .. clock /\ mapping \subseteq MappingRows
      /\ run \in [Runners -> RunRecords]
      /\ \A r \in Runners : run[r].at # "idle" => run[r].number \in 1 .. clock
      /\ \A row \in mapping : row.at \in Nat /\ row.by \in Nat
  BY DEF Typed, TablesTyped, RunsTyped, RunTyped, MappingRows
<1>1. CASE Sync \/ UNCHANGED vars
  BY <1>1, QuietStep DEF Sync, UpsertCampaigns, UpsertAttributionInstalls,
                         UpsertAttributionCampaigns, UpsertAdGroup, vars
<1>2. ASSUME NEW row \in mapping, NEW status \in Human,
             NEW target \in {row.target} \cup (IF row.from = "network" THEN Mmp ELSE Network),
             SetMappingVerification(row, status, target)
      PROVE  StaleInv'
  <2>1. DecisionWrites(row, status, target)
    BY <1>2, DecisionSteps
  <2> DEFINE new == Decided(row, status, target)
  <2>2. /\ new.at = row.at /\ new.by = row.by /\ new.status = status
        /\ mapping' = (mapping \ {row}) \cup {new}
        /\ UNCHANGED <<clock, overlap, finding, newest>>
    BY <1>0, <2>1, DecidedRow DEF DecisionWrites
  <2>3. status \notin Computed
    BY DEF Human, Computed
  <2>4. ASSUME NEW s \in Runners PROVE run'[s].at = run[s].at /\ run'[s].number = run[s].number
    <3>1. run'[s] = [run[s] EXCEPT !.calm = run[s] = Idle]
      BY <2>1 DEF DecisionWrites
    <3>2. ASSUME NEW b \in BOOLEAN
          PROVE  /\ [run[s] EXCEPT !.calm = b].at = run[s].at
                 /\ [run[s] EXCEPT !.calm = b].number = run[s].number
      BY <1>0 DEF RunRecords
    <3>3. (run[s] = Idle) \in BOOLEAN
      OBVIOUS
    <3> QED BY <3>1, <3>2, <3>3, Zenon
  <2> HIDE DEF new
  <2>5. \A m \in mapping' : \E old \in mapping :
            m.at = old.at /\ m.by = old.by /\ (m.status \in Computed => old.status \in Computed)
    BY <2>2, <2>3
  <2> QED BY <2>2, <2>4, <2>5, QuietStep
<1>3. ASSUME NEW r \in Runners, StartRun(r) PROVE StaleInv'
  <2>1. /\ clock' = clock + 1 /\ UNCHANGED <<mapping, finding, newest>> /\ run[r] = Idle
        /\ overlap' = overlap \cup {<<run[s].number, clock + 1>> : s \in Busy}
    BY <1>3 DEF StartRun
  <2>2. run'[r].at = "read" /\ run'[r].number = clock + 1 /\ run[r].at = "idle"
    <3>1. run[r].at = "idle"
      BY <2>1 DEF Idle
    <3>2. run'[r] = [Idle EXCEPT !.at = "read", !.number = clock + 1, !.facts = Facts,
                                 !.calm = Busy = {}]
      BY <1>3 DEF StartRun
    <3>3. ASSUME NEW b, NEW f
          PROVE  LET it == [Idle EXCEPT !.at = "read", !.number = clock + 1, !.facts = f, !.calm = b]
                 IN  it.at = "read" /\ it.number = clock + 1
      BY DEF Idle
    <3> QED BY <3>1, <3>2, <3>3, Zenon
  <2>3. ASSUME NEW s \in Runners \ {r}
        PROVE  run'[s].at = run[s].at /\ run'[s].number = run[s].number
    <3>1. run'[s] = [run[s] EXCEPT !.calm = run[s] = Idle]
      BY <1>3 DEF StartRun
    <3>2. ASSUME NEW b \in BOOLEAN
          PROVE  /\ [run[s] EXCEPT !.calm = b].at = run[s].at
                 /\ [run[s] EXCEPT !.calm = b].number = run[s].number
      BY <1>0 DEF RunRecords
    <3>3. (run[s] = Idle) \in BOOLEAN
      OBVIOUS
    <3> QED BY <3>1, <3>2, <3>3, Zenon
  <2>4. RunsOverlap'
    <3> SUFFICES ASSUME NEW s \in Busy', NEW k \in Nat, run'[s].number < k, k <= clock'
                 PROVE  <<run'[s].number, k>> \in overlap'
      BY DEF RunsOverlap
    <3>1. s \in Runners /\ s # r /\ s \in Busy /\ run'[s].number = run[s].number
      <4>1. s \in Runners /\ run'[s].at # "idle"
        BY DEF Busy
      <4>2. s # r
        BY <1>0, <2>1, <2>2
      <4> QED BY <2>3, <4>1, <4>2 DEF Busy
    <3>2. CASE k = clock + 1
      BY <2>1, <3>1, <3>2
    <3>3. CASE k # clock + 1
      <4>1. k <= clock
        BY <1>0, <2>1, <3>3
      <4> QED BY <2>1, <3>1, <4>1 DEF StaleInv, RunsOverlap
    <3> QED BY <3>2, <3>3
  <2>5. RowsOverlap'
    BY <1>0, <2>1 DEF StaleInv, RowsOverlap
  <2>6. Pruned'
    BY <2>1, <2>2, <2>3 DEF StaleInv, Pruned
  <2>7. FindingsOverlap'
    BY <2>1 DEF StaleInv, FindingsOverlap
  <2> QED BY <2>4, <2>5, <2>6, <2>7 DEF StaleInv
<1>4. ASSUME NEW r \in Runners, UpsertMapping(r), run[r].todo # {} PROVE StaleInv'
  <2>1. PICK due \in run[r].todo, new \in MappingRows :
            /\ UpsertWrites(r, due, new)
            /\ run' = [run EXCEPT ![r] = [run[r] EXCEPT !.todo = run[r].todo \ {due}]]
    BY <1>4, UpsertOne
  <2>2. UNCHANGED <<clock, overlap, finding, newest>> /\ run[r].at = "upsert"
    BY <1>4 DEF UpsertMapping
  <2>3. \A s \in Runners : run'[s].at = run[s].at /\ run'[s].number = run[s].number
    BY <1>0, <2>1 DEF RunRecords
  <2>4. /\ new.at = clock /\ new.by = run[r].number /\ r \in Busy
        /\ mapping' = {row \in mapping : Key(row) # Key(new)} \cup {new}
    BY <2>1, <2>2 DEF UpsertWrites, Busy
  <2>5. RunsOverlap'
    BY <2>2, <2>3 DEF StaleInv, RunsOverlap, Busy
  <2>6. RowsOverlap'
    BY <1>0, <2>2, <2>4 DEF StaleInv, RowsOverlap, RunsOverlap
  <2>7. Pruned'
    BY <1>0, <2>2, <2>3, <2>4 DEF StaleInv, Pruned
  <2>8. FindingsOverlap'
    BY <2>2 DEF StaleInv, FindingsOverlap
  <2> QED BY <2>5, <2>6, <2>7, <2>8 DEF StaleInv
<1>5. ASSUME NEW r \in Runners,
             \/ ReadDecided(r) \/ (UpsertMapping(r) /\ run[r].todo = {}) \/ ReviewCoverage(r)
             \/ Interrupt(r)
      PROVE  StaleInv'
  <2>1. UNCHANGED <<clock, overlap, finding, newest, mapping>>
    BY <1>5 DEF ReadDecided, UpsertMapping, ReviewCoverage, Interrupt
  <2>2. \A s \in Runners :
            /\ run'[s].at # "idle" => run[s].at # "idle" /\ run'[s].number = run[s].number
            /\ run'[s].at \in {"review", "clear", "record"}
                 => run[s].at \in {"review", "clear", "record"}
    <3>1. CASE ReadDecided(r)
      BY <1>0, <3>1 DEF ReadDecided, RunRecords
    <3>2. CASE UpsertMapping(r) /\ run[r].todo = {}
      BY <1>0, <3>2 DEF UpsertMapping, RunRecords
    <3>3. CASE ReviewCoverage(r)
      BY <1>0, <3>3 DEF ReviewCoverage, RunRecords
    <3>4. CASE Interrupt(r)
      BY <1>0, <3>4 DEF Interrupt, Idle
    <3> QED BY <1>5, <3>1, <3>2, <3>3, <3>4
  <2> QED BY <2>1, <2>2, QuietStep
<1>6. ASSUME NEW r \in Runners, PruneStaleMappings(r) PROVE StaleInv'
  <2>1. /\ UNCHANGED <<clock, overlap, finding, newest>> /\ run[r].at = "prune"
        /\ mapping' = {row \in mapping : row.at >= run[r].number \/ row.status \in Human}
    BY <1>6 DEF PruneStaleMappings
  <2>2. /\ \A s \in Runners : run'[s].number = run[s].number /\ (s # r => run'[s].at = run[s].at)
        /\ run'[r].at = "review"
    BY <1>0, <1>6 DEF PruneStaleMappings, RunRecords
  <2>3. RunsOverlap'
    BY <2>1, <2>2 DEF StaleInv, RunsOverlap, Busy
  <2>4. RowsOverlap'
    BY <2>1 DEF StaleInv, RowsOverlap
  <2>5. Pruned'
    <3>1. \A row \in mapping' : row.status \in Computed => row.at >= run[r].number
      BY <2>1 DEF Computed, Human
    <3> QED BY <1>0, <2>1, <2>2, <3>1 DEF StaleInv, Pruned
  <2>6. FindingsOverlap'
    BY <2>1 DEF StaleInv, FindingsOverlap
  <2> QED BY <2>3, <2>4, <2>5, <2>6 DEF StaleInv
<1>7. ASSUME NEW r \in Runners, ClearFindings(r) PROVE StaleInv'
  <2>1. /\ UNCHANGED <<clock, overlap, mapping>> /\ run[r].at = "clear" /\ finding' = {}
        /\ newest' = IF run[r].number > newest THEN run[r].number ELSE newest
    BY <1>7 DEF ClearFindings
  <2>2. /\ \A s \in Runners : run'[s].number = run[s].number /\ (s # r => run'[s].at = run[s].at)
        /\ run'[r].at = "record"
    BY <1>0, <1>7 DEF ClearFindings, RunRecords
  <2>3. RunsOverlap'
    BY <2>1, <2>2 DEF StaleInv, RunsOverlap, Busy
  <2>4. RowsOverlap'
    BY <2>1 DEF StaleInv, RowsOverlap
  <2>5. Pruned'
    BY <2>1, <2>2 DEF StaleInv, Pruned
  <2>6. FindingsOverlap'
    BY <2>1 DEF FindingsOverlap
  <2> QED BY <2>3, <2>4, <2>5, <2>6 DEF StaleInv
<1>8. ASSUME NEW r \in Runners, RecordFindings(r) PROVE StaleInv'
  <2>1. /\ UNCHANGED <<clock, overlap, mapping, newest>> /\ run[r].at = "record"
        /\ finding' = finding \cup ({run[r].number} \X run[r].todo) /\ run' = [run EXCEPT ![r] = Idle]
    BY <1>8 DEF RecordFindings
  <2>2. run'[r].at = "idle" /\ \A s \in Runners \ {r} : run'[s] = run[s]
    BY <1>0, <2>1 DEF Idle
  <2>3. RunsOverlap'
    BY <2>1, <2>2 DEF StaleInv, RunsOverlap, Busy
  <2>4. RowsOverlap'
    BY <2>1 DEF StaleInv, RowsOverlap
  <2>5. Pruned'
    BY <2>1, <2>2 DEF StaleInv, Pruned
  <2>6. FindingsOverlap'
    <3>1. r \in Busy
      BY <2>1 DEF Busy
    <3>2. run[r].number < newest => <<run[r].number, newest>> \in overlap
      BY <1>0, <3>1 DEF StaleInv, RunsOverlap
    <3> QED BY <2>1, <3>2 DEF StaleInv, FindingsOverlap
  <2> QED BY <2>3, <2>4, <2>5, <2>6 DEF StaleInv
<1> QED BY <1>1, <1>2, <1>3, <1>4, <1>5, <1>6, <1>7, <1>8 DEF Next, Reconcile

\* The tables, the runs and what overlapped keep together.
THEOREM StaysOverlapped == Spec => [](Typed /\ StaleInv)
<1>1. Init => StaleInv
  BY DEF Init, StaleInv, RunsOverlap, RowsOverlap, Pruned, FindingsOverlap, Busy, Idle
<1> QED BY <1>1, StaysTyped, StaleStep, PTL DEF Spec

\* Computed rows and findings older than the newest run that replaced them
\* come from runs that were still in progress when it began.
THEOREM StaleOverlaps == Spec => []StaleOnlyByOverlap
BY StaysOverlapped, StaleInvIsEnough, PTL

(***************************************************************************)
(* What a run nobody disturbed has linked.                                 *)
(***************************************************************************)

\* Nobody reconciles beside a run that is still calm.
Alone ==
    \A r \in Runners : run[r].at # "idle" /\ run[r].calm
        => \A s \in Runners \ {r} : run[s].at = "idle"

\* The run has the declared link still to write, or has written it.
Linking(r, link) ==
    /\ \A row \in mapping : Key(row) = <<"network", link[1], link[2]>> => row.status \notin Human
    /\ run[r].at = "upsert" => \A due \in run[r].todo :
            Key(due) = <<"network", link[1], link[2]>> => due.status = "exact"
    /\ \/ /\ run[r].at = "upsert"
          /\ \E due \in run[r].todo : Key(due) = <<"network", link[1], link[2]>>
       \/ \E row \in mapping : /\ Key(row) = <<"network", link[1], link[2]>>
                               /\ row.status = "exact" /\ row.at >= run[r].number

AfterReading == {"upsert", "prune", "review", "clear", "record"}

LinkInv ==
    /\ Alone
    /\ \A r \in Runners : run[r].at \in AfterReading /\ run[r].calm
        => \A link \in run[r].declared : Linking(r, link)

LEMMA LinkInvIsEnough == Typed /\ LinkInv => DeclaredIsLinked
<1> SUFFICES ASSUME Typed, LinkInv, NEW r \in Runners,
                    run[r].at \in {"review", "clear", "record"}, run[r].calm,
                    NEW link \in run[r].declared
             PROVE  \E row \in mapping : row.status = "exact" /\ row.from = "network" /\ Link(row) = link
  BY DEF DeclaredIsLinked
<1>1. Linking(r, link) /\ run[r].at # "upsert"
  BY DEF LinkInv, AfterReading
<1>2. PICK row \in mapping : Key(row) = <<"network", link[1], link[2]>> /\ row.status = "exact"
  BY <1>1 DEF Linking
<1>3. link = <<link[1], link[2]>>
  <2>1. run[r].declared \in SUBSET ((Network \cup {"none"}) \X Mmp)
    BY DEF Typed, RunsTyped, RunRecords
  <2> QED BY <2>1
<1> QED BY <1>2, <1>3 DEF Key, Link

\* The rows of a campaign with declared counterparts are exact, one for each.
LEMMA DeclaredRows ==
    ASSUME FactsTyped, NEW f, FactsRead(f), NEW decided,
           NEW t \in Declared(f), Resolve(f, t) \in f.known \ decided
    PROVE  /\ \E row \in Reconciled(f, decided) : Key(row) = <<"network", Resolve(f, t), t>>
           /\ \A row \in Reconciled(f, decided) :
                 Key(row) = <<"network", Resolve(f, t), t>> => row.status = "exact"
<1> DEFINE m == Resolve(f, t)
           declared == {u \in Declared(f) : Resolve(f, u) = m}
<1>1. m \in f.known /\ m \notin decided /\ t \in declared /\ f.known \subseteq Network
  BY DEF FactsRead
<1>2. Forward(f, m) = {Row("network", m, u, "exact", declared) : u \in declared}
  BY <1>1 DEF Forward
<1> HIDE DEF m, declared
<1>3. Row("network", m, t, "exact", declared) \in Reconciled(f, decided)
  BY <1>1, <1>2 DEF Reconciled
<1>4. Key(Row("network", m, t, "exact", declared)) = <<"network", m, t>>
  BY DEF Key, Row
<1>5. ASSUME NEW row \in Reconciled(f, decided), Key(row) = <<"network", m, t>>
      PROVE  row.status = "exact"
  <2>1. row \in DueRows /\ row.from = "network" /\ row.source = m
    BY <1>5, ReconciledRows DEF Key
  <2>2. row \in Forward(f, m)
    <3>1. CASE row.source \in Paid(f) /\ row = Reverse(f, row.source)
      BY <2>1, <3>1, ReverseRow DEF Paid, FactsRead
    <3>2. CASE row.source \in Organic
      BY <1>1, <2>1, <3>2, ReconciliationAssumption
    <3> QED BY <2>1, <3>1, <3>2, ReconciledRows
  <2> QED BY <1>2, <2>2 DEF Row
<1> QED BY <1>3, <1>4, <1>5 DEF m

\* A step beside the rows, that leaves a calm run as it was or ends it.
LEMMA StillLinked ==
    ASSUME LinkInv, UNCHANGED mapping,
           \A r \in Runners : run'[r].at \in AfterReading /\ run'[r].calm =>
               /\ run[r].at \in AfterReading /\ run[r].calm /\ run'[r].declared = run[r].declared
               /\ run'[r].number = run[r].number
               /\ IF run'[r].at = "upsert"
                  THEN run[r].at = "upsert" /\ run'[r].todo = run[r].todo
                  ELSE run[r].at = "upsert" => run[r].todo = {}
    PROVE  \A r \in Runners : run'[r].at \in AfterReading /\ run'[r].calm
               => \A link \in run'[r].declared : Linking(r, link)'
<1> SUFFICES ASSUME NEW r \in Runners, run'[r].at \in AfterReading, run'[r].calm,
                    NEW link \in run[r].declared
             PROVE  Linking(r, link)'
  OBVIOUS
<1>1. Linking(r, link)
  BY DEF LinkInv
<1> QED BY <1>1 DEF Linking

LEMMA LinkStep == Typed /\ Typed' /\ LinkInv /\ [Next]_vars => LinkInv'
<1> SUFFICES ASSUME Typed, Typed', LinkInv, [Next]_vars PROVE LinkInv'
  OBVIOUS
<1>0. /\ mapping \subseteq MappingRows /\ clock \in Nat /\ run \in [Runners -> RunRecords]
      /\ \A r \in Runners : RunTyped(r)
  BY DEF Typed, TablesTyped, RunsTyped
<1>1. CASE Sync \/ UNCHANGED vars
  <2>1. UNCHANGED <<mapping, run>>
    BY <1>1 DEF Sync, UpsertCampaigns, UpsertAttributionInstalls,
                UpsertAttributionCampaigns, UpsertAdGroup, vars
  <2> QED BY <2>1 DEF LinkInv, Alone, Linking
<1>2. ASSUME NEW row \in mapping, NEW status \in Human,
             NEW target \in {row.target} \cup (IF row.from = "network" THEN Mmp ELSE Network),
             SetMappingVerification(row, status, target)
      PROVE  LinkInv'
  <2>1. ASSUME NEW s \in Runners, run'[s].calm PROVE run'[s].at = "idle"
    <3> DEFINE calm == run[s] = Idle
    <3>1. run'[s] = [run[s] EXCEPT !.calm = calm] /\ calm \in BOOLEAN
      BY <1>2 DEF SetMappingVerification
    <3>2. calm => run[s].at = "idle"
      BY DEF Idle
    <3> HIDE DEF calm
    <3>3. run'[s].at = run[s].at /\ run'[s].calm = calm
      BY <1>0, <3>1 DEF RunRecords
    <3> QED BY <2>1, <3>2, <3>3
  <2> QED BY <2>1 DEF LinkInv, Alone, AfterReading
<1>3. ASSUME NEW r \in Runners, StartRun(r) PROVE LinkInv'
  <2>1. ASSUME NEW s \in Runners \ {r}
        PROVE  run'[s].at = run[s].at /\ (run'[s].calm => run[s].at = "idle")
    <3> DEFINE calm == run[s] = Idle
    <3>1. run'[s] = [run[s] EXCEPT !.calm = calm] /\ calm \in BOOLEAN
      BY <1>3 DEF StartRun
    <3>2. calm => run[s].at = "idle"
      BY DEF Idle
    <3> HIDE DEF calm
    <3>3. run'[s].at = run[s].at /\ run'[s].calm = calm
      BY <1>0, <3>1 DEF RunRecords
    <3> QED BY <3>2, <3>3
  <2>2. run'[r].at = "read" /\ run'[r].calm = (Busy = {})
    <3> DEFINE calm == Busy = {}
    <3>1. run'[r] = [Idle EXCEPT !.at = "read", !.number = clock + 1, !.facts = Facts, !.calm = calm]
      BY <1>3 DEF StartRun
    <3> HIDE DEF calm
    <3>2. run'[r].at = "read" /\ run'[r].calm = calm
      BY <3>1 DEF Idle
    <3> QED BY <3>2 DEF calm
  <2>3. Alone'
    BY <2>1, <2>2 DEF Alone, Busy
  <2>4. \A s \in Runners : run'[s].calm => run'[s].at \notin AfterReading
    BY <2>1, <2>2 DEF AfterReading
  <2> QED BY <2>3, <2>4 DEF LinkInv
<1>4. ASSUME NEW r \in Runners, ReadDecided(r) PROVE LinkInv'
  <2> DEFINE f == run[r].facts
             decided == {IF row.from = "mmp" THEN IdOf(row.source) ELSE row.source :
                          row \in {row \in mapping : row.status \in Human}}
             links == {<<Resolve(f, t), t>> :
                          t \in {u \in Declared(f) : Resolve(f, u) \in f.known \ decided}}
             due == Reconciled(f, decided)
  <2>1. /\ UNCHANGED mapping /\ run[r].at = "read"
        /\ run' = [run EXCEPT ![r] = [run[r] EXCEPT !.at = "upsert", !.facts = NoFacts, !.todo = due,
                                                     !.declared = links]]
    BY <1>0, <1>4 DEF ReadDecided
  <2>2. FactsTyped /\ FactsRead(f)
    BY <1>0, <2>1 DEF RunTyped, Typed, TablesTyped
  <2>3. ASSUME NEW link \in links
        PROVE  /\ \E row \in due : Key(row) = <<"network", link[1], link[2]>>
               /\ \A row \in due : Key(row) = <<"network", link[1], link[2]>> => row.status = "exact"
               /\ \A row \in mapping : Key(row) = <<"network", link[1], link[2]>>
                                            => row.status \notin Human
    <3>1. PICK t \in Declared(f) : Resolve(f, t) \in f.known \ decided /\ link = <<Resolve(f, t), t>>
      OBVIOUS
    <3>2. link[1] = Resolve(f, t) /\ link[2] = t
      BY <3>1
    <3>3. ASSUME NEW row \in mapping, Key(row) = <<"network", link[1], link[2]>>, row.status \in Human
          PROVE  FALSE
      <4>1. row.source = link[1] /\ row.from = "network"
        BY <3>3 DEF Key
      <4>2. link[1] \in decided
        BY <3>3, <4>1
      <4> QED BY <3>1, <3>2, <4>2
    <3> HIDE DEF f, decided
    <3> QED BY <2>2, <3>1, <3>2, <3>3, DeclaredRows
  <2> HIDE DEF due, links
  <2>4. /\ run'[r].at = "upsert" /\ run'[r].todo = due /\ run'[r].declared = links
        /\ run'[r].calm = run[r].calm
        /\ \A s \in Runners \ {r} : run'[s] = run[s]
    <3>1. run'[r] = [run[r] EXCEPT !.at = "upsert", !.facts = NoFacts, !.todo = due,
                                   !.declared = links]
      BY <1>0, <2>1
    <3>2. run[r] \in RunRecords
      BY <1>0
    <3>3. \A s \in Runners \ {r} : run'[s] = run[s]
      BY <1>0, <2>1
    <3> QED BY <3>1, <3>2, <3>3 DEF RunRecords
  <2>5. Alone'
    BY <2>1, <2>4 DEF LinkInv, Alone
  <2>6. ASSUME NEW s \in Runners, run'[s].at \in AfterReading, run'[s].calm,
               NEW link \in run'[s].declared
        PROVE  Linking(s, link)'
    <3>1. CASE s = r
      BY <2>1, <2>3, <2>4, <3>1 DEF Linking
    <3>2. CASE s # r
      <4>1. Linking(s, link)
        BY <2>4, <2>6, <3>2 DEF LinkInv
      <4> QED BY <2>1, <2>4, <3>2, <4>1 DEF Linking
    <3> QED BY <3>1, <3>2
  <2> QED BY <2>5, <2>6 DEF LinkInv
<1>5. ASSUME NEW r \in Runners, UpsertMapping(r), run[r].todo # {} PROVE LinkInv'
  <2>1. PICK due \in run[r].todo, new \in MappingRows :
            /\ UpsertWrites(r, due, new)
            /\ run' = [run EXCEPT ![r] = [run[r] EXCEPT !.todo = run[r].todo \ {due}]]
    BY <1>5, UpsertOne
  <2>2. /\ run[r].at = "upsert" /\ run[r].number \in 1 .. clock /\ run[r].todo \subseteq DueRows
    BY <1>0, <1>5 DEF UpsertMapping, RunTyped
  <2>3. /\ run'[r].at = "upsert" /\ run'[r].todo = run[r].todo \ {due}
        /\ run'[r].declared = run[r].declared /\ run'[r].calm = run[r].calm
        /\ run'[r].number = run[r].number
        /\ \A s \in Runners \ {r} : run'[s] = run[s]
    BY <1>0, <2>1, <2>2 DEF RunRecords
  <2>4. Alone'
    BY <2>2, <2>3 DEF LinkInv, Alone
  <2>5. ASSUME NEW s \in Runners, run'[s].at \in AfterReading, run'[s].calm,
               NEW link \in run'[s].declared
        PROVE  Linking(s, link)'
    <3>1. s = r
      BY <2>2, <2>3, <2>5 DEF LinkInv, Alone, AfterReading
    <3>2. Linking(r, link)
      BY <2>2, <2>3, <2>5, <3>1 DEF LinkInv, AfterReading
    <3> DEFINE key == <<"network", link[1], link[2]>>
    <3> HIDE DEF key
    <3>3. /\ \A row \in mapping : Key(row) = key => row.status \notin Human
          /\ \A d \in run[r].todo : Key(d) = key => d.status = "exact"
          /\ \/ \E d \in run[r].todo : Key(d) = key
             \/ \E row \in mapping : Key(row) = key /\ row.status = "exact" /\ row.at >= run[r].number
      BY <2>2, <3>2 DEF Linking, key
    <3>4. /\ Key(new) = Key(due) /\ new.at = clock
          /\ mapping' = {row \in mapping : Key(row) # Key(new)} \cup {new}
          /\ \/ new.status = due.status
             \/ \E row \in mapping : /\ Key(row) = Key(new) /\ row.status \in Human
                                     /\ new.status = row.status
      BY <2>1 DEF UpsertWrites
    <3>5. ASSUME Key(new) = key PROVE new.status = "exact" /\ new.at >= run[r].number
      <4>1. due \in run[r].todo /\ Key(due) = key
        BY <2>1, <3>4, <3>5
      <4>2. new.status = due.status
        BY <3>3, <3>4, <3>5
      <4>3. clock >= run[r].number
        BY <1>0, <2>2
      <4> QED BY <3>3, <3>4, <4>1, <4>2, <4>3
    <3>6. \A row \in mapping' : Key(row) = key => row.status \notin Human
      BY <3>3, <3>4, <3>5 DEF Human
    <3>7. \/ \E d \in run[r].todo \ {due} : Key(d) = key
          \/ \E row \in mapping' : Key(row) = key /\ row.status = "exact" /\ row.at >= run[r].number
      BY <3>3, <3>4, <3>5
    <3> QED BY <2>3, <3>1, <3>3, <3>6, <3>7 DEF Linking, key
  <2> QED BY <2>4, <2>5 DEF LinkInv
<1>6. ASSUME NEW r \in Runners, PruneStaleMappings(r) PROVE LinkInv'
  <2>1. /\ run[r].at = "prune"
        /\ mapping' = {row \in mapping : row.at >= run[r].number \/ row.status \in Human}
        /\ run' = [run EXCEPT ![r].at = "review"]
    BY <1>6 DEF PruneStaleMappings
  <2>2. /\ run'[r].at = "review" /\ run'[r].declared = run[r].declared
        /\ run'[r].calm = run[r].calm /\ run'[r].number = run[r].number
        /\ \A s \in Runners \ {r} : run'[s] = run[s]
    BY <1>0, <2>1 DEF RunRecords
  <2>3. Alone'
    BY <2>1, <2>2 DEF LinkInv, Alone
  <2>4. ASSUME NEW s \in Runners, run'[s].at \in AfterReading, run'[s].calm,
               NEW link \in run'[s].declared
        PROVE  Linking(s, link)'
    <3>1. s = r
      BY <2>1, <2>2, <2>4 DEF LinkInv, Alone, AfterReading
    <3>2. Linking(r, link)
      BY <2>1, <2>2, <2>4, <3>1 DEF LinkInv, AfterReading
    <3> QED BY <2>1, <2>2, <3>1, <3>2 DEF Linking
  <2> QED BY <2>3, <2>4 DEF LinkInv
<1>7. ASSUME NEW r \in Runners,
             \/ (UpsertMapping(r) /\ run[r].todo = {}) \/ ReviewCoverage(r) \/ ClearFindings(r)
             \/ RecordFindings(r) \/ Interrupt(r)
      PROVE  LinkInv'
  <2>1. UNCHANGED mapping /\ \A s \in Runners \ {r} : run'[s] = run[s]
    BY <1>0, <1>7 DEF UpsertMapping, ReviewCoverage, ClearFindings, RecordFindings, Interrupt
  <2>2. \/ run'[r].at = "idle"
        \/ /\ run[r].at \in AfterReading /\ run'[r].at \in {"prune", "clear", "record"}
           /\ run'[r].declared = run[r].declared /\ run'[r].calm = run[r].calm
           /\ run'[r].number = run[r].number /\ (run[r].at = "upsert" => run[r].todo = {})
    <3>1. CASE UpsertMapping(r) /\ run[r].todo = {}
      BY <1>0, <3>1 DEF UpsertMapping, RunRecords, AfterReading
    <3>2. CASE ReviewCoverage(r)
      <4> DEFINE todo == FindingsDue
      <4>1. run' = [run EXCEPT ![r].at = "clear", ![r].todo = todo] /\ run[r].at = "review"
        BY <3>2 DEF ReviewCoverage
      <4> HIDE DEF todo
      <4> QED BY <1>0, <4>1 DEF RunRecords, AfterReading
    <3>3. CASE ClearFindings(r)
      BY <1>0, <3>3 DEF ClearFindings, RunRecords, AfterReading
    <3>4. CASE RecordFindings(r) \/ Interrupt(r)
      BY <1>0, <3>4 DEF RecordFindings, Interrupt, Idle
    <3> QED BY <1>7, <3>1, <3>2, <3>3, <3>4
  <2>3. Alone'
    BY <2>1, <2>2 DEF LinkInv, Alone, AfterReading
  <2>4. \A s \in Runners : run'[s].at \in AfterReading /\ run'[s].calm
               => \A link \in run'[s].declared : Linking(s, link)'
    BY <2>1, <2>2, StillLinked DEF AfterReading
  <2> QED BY <2>3, <2>4 DEF LinkInv
<1> QED BY <1>1, <1>2, <1>3, <1>4, <1>5, <1>6, <1>7 DEF Next, Reconcile

\* A run nothing disturbed leaves every MMP campaign whose published id it
\* resolved linked to that campaign, whatever older rows or people's decisions
\* it found, unless a person had decided something about the campaign.
THEOREM DeclaredGetLinked == Spec => []DeclaredIsLinked
<1>1. Init => LinkInv
  BY DEF Init, LinkInv, Alone, Idle, AfterReading
<1> QED BY <1>1, StaysTyped, LinkStep, LinkInvIsEnough, PTL DEF Spec

(***************************************************************************)
(* What one run credits.                                                   *)
(***************************************************************************)

\* What a run has credited: the statuses figures count, people's apart.
Credited(row) == row.status \in {"exact", "embedded"}

\* Two rows that do not credit one MMP campaign to two network campaigns, or
\* may: CreditedOnce of one pair.
Agree(a, b) ==
    LET t == Link(a)[2]
    IN  Link(b)[2] = t /\ Link(a)[1] # Link(b)[1]
        => /\ Cardinality(Embedded[t]) > 1 \/ shares[t] # "none"
           /\ {a.status, b.status} # {"exact"}
           /\ name[Link(a)[1]] # name[Link(b)[1]]

\* Tenjin publishes remote ids, AppsFlyer shares the network's own, and a run
\* has read no other.
OneProvider(f) ==
    \/ \A t \in Mmp : shares[t] = "none"
    \/ \A t \in Mmp : f.remote[t] = "none"

\* Why a rule credits t to m: by its id, or by the one campaign with a name t
\* embeds, where no id says otherwise.
Reason(f, row) ==
    LET m == Link(row)[1]
        t == Link(row)[2]
    IN  /\ m \in f.known /\ t \in Mmp
        /\ row.status = "exact" => Resolve(f, t) = m \/ shares[t] = m
        /\ row.status = "embedded" =>
              /\ name[m] \in Embedded[t] /\ \A o \in f.known : name[o] = name[m] => o = m
              /\ Resolve(f, t) \in f.known => Resolve(f, t) = m

LEMMA SingletonOf ==
    ASSUME NEW S, Cardinality(S) = 1, IsFiniteSet(S), NEW x \in S
    PROVE  \A y \in S : y = x
<1>1. Cardinality(S \ {x}) = 0
  BY FS_RemoveElement
<1>2. IsFiniteSet(S \ {x})
  BY FS_Subset
<1>3. S \ {x} = {}
  BY <1>1, <1>2, FS_EmptySet
<1> QED BY <1>3

LEMMA AtMostOne ==
    ASSUME NEW S, ~(Cardinality(S) > 1), IsFiniteSet(S), NEW x \in S
    PROVE  \A y \in S : y = x
<1>1. Cardinality(S) \in Nat
  BY FS_CardinalityType
<1>2. Cardinality(S) # 0
  BY FS_EmptySet
<1> QED BY <1>1, <1>2, SingletonOf

LEMMA ForwardReason ==
    ASSUME FactsTyped, NEW f, FactsRead(f), NEW m \in f.known, NEW row \in Forward(f, m),
           Credited(row)
    PROVE  Reason(f, row)
<1> DEFINE declared == {t \in Declared(f) : Resolve(f, t) = m}
           same == ById(f, m)
           called == NameCandidates(f, m)
           embeddedOnly == \A t \in called : WholeName[t] # name[m]
<1>1. /\ m \in Network /\ m # "none" /\ f.known \subseteq Network /\ IsFiniteSet(f.known)
      /\ \A t \in declared \cup same \cup called : t \in Mmp
  <2>1. IsFiniteSet(f.known) /\ m # "none"
    BY ReconciliationAssumption, FS_Subset DEF FactsRead
  <2> QED BY <2>1 DEF FactsRead, Declared, ById, NameCandidates, Paid
<1>2. ASSUME NEW t \in Mmp, NEW status, NEW among, row = Row("network", m, t, status, among)
      PROVE  Link(row)[1] = m /\ Link(row)[2] = t /\ row.status = status
  BY <1>2 DEF Link, Row
<1>3. CASE declared # {}
  <2>1. PICK t \in declared : row = Row("network", m, t, "exact", declared)
    BY <1>3 DEF Forward
  <2> QED BY <1>1, <1>2, <2>1 DEF Reason
<1>4. CASE declared = {} /\ same # {}
  <2> DEFINE t == CHOOSE t \in same : TRUE
  <2>1. t \in same /\ row = Row("network", m, t, "exact", {})
    BY <1>4 DEF Forward
  <2> HIDE DEF t
  <2>2. shares[t] = m
    BY <2>1 DEF ById
  <2> QED BY <1>1, <1>2, <2>1, <2>2 DEF Reason
<1>5. CASE declared = {} /\ same = {}
  <2>1. row \in LinkedByName(f, m)
    BY <1>5 DEF Forward
  <2>2. /\ ~(Cardinality(Namesakes(f, m)) > 1) /\ embeddedOnly
        /\ \E t \in called : row = Row("network", m, t, "embedded", called)
    <3>1. row.status \in {"exact", "embedded"}
      BY DEF Credited
    <3>2. ASSUME NEW t, NEW among PROVE Row("network", m, t, "unmatched", among) # row
                                   /\ Row("network", m, t, "ambiguous", among) # row
                                   /\ Row("network", m, t, "name", among) # row
      BY <3>1 DEF Row
    <3> QED BY <2>1, <3>2 DEF LinkedByName
  <2>3. PICK t \in called : row = Row("network", m, t, "embedded", called)
    BY <2>2
  <2>4. \A o \in f.known : name[o] = name[m] => o = m
    <3>1. IsFiniteSet(Namesakes(f, m)) /\ m \in Namesakes(f, m)
      BY <1>1, FS_Subset DEF Namesakes
    <3>2. \A o \in Namesakes(f, m) : o = m
      BY <2>2, <3>1, AtMostOne
    <3> QED BY <3>2 DEF Namesakes
  <2>5. name[m] \in Embedded[t] /\ Resolve(f, t) \in {"none", m}
    BY <2>2, <2>3 DEF NameCandidates, NameKeys
  <2>6. "none" \notin f.known
    BY <1>1, ReconciliationAssumption
  <2> QED BY <1>1, <1>2, <2>3, <2>4, <2>5, <2>6 DEF Reason
<1> QED BY <1>3, <1>4, <1>5

LEMMA ReverseReason ==
    ASSUME FactsTyped, NEW f, FactsRead(f), NEW t \in Mmp, Resolve(f, t) \notin f.known,
           Credited(Reverse(f, t))
    PROVE  Reason(f, Reverse(f, t))
<1> DEFINE matches == {m \in f.known : name[m] \in NameKeys(t)}
           row == Reverse(f, t)
<1>1. ASSUME NEW m, NEW status, row = Row("mmp", t, m, status, {})
      PROVE  Link(row)[1] = m /\ Link(row)[2] = t /\ row.status = status /\ row.target = m
  BY <1>1 DEF Link, Row
<1>2. CASE shares[t] \in f.known
  <2>1. row = Row("mmp", t, shares[t], "exact", {})
    BY <1>2 DEF Reverse
  <2> HIDE DEF row
  <2> QED BY <1>1, <1>2, <2>1 DEF Reason, row
<1>3. CASE shares[t] \notin f.known /\ Cardinality(matches) # 1
  <2>1. row = Row("mmp", t, "none", "unmatched", {})
    BY <1>3 DEF Reverse
  <2> QED BY <1>1, <2>1 DEF Credited
<1>4. CASE shares[t] \notin f.known /\ Cardinality(matches) = 1
  <2> DEFINE m == CHOOSE m \in matches : TRUE
  <2>1. IsFiniteSet(matches) /\ matches # {}
    BY <1>4, ReconciliationAssumption, FS_Subset, FS_EmptySet DEF FactsRead
  <2>2. m \in matches
    BY <2>1
  <2>3. row = Row("mmp", t, m, IF name[m] = WholeName[t] THEN "name" ELSE "embedded", {})
    BY <1>4 DEF Reverse
  <2> HIDE DEF m
  <2>4. row.status = IF name[m] = WholeName[t] THEN "name" ELSE "embedded"
    BY <1>1, <2>3
  <2>5. name[m] # WholeName[t] /\ row.status = "embedded"
    BY <2>4 DEF Credited
  <2>6. name[m] \in Embedded[t] /\ \A o \in f.known : name[o] = name[m] => o = m
    <3>1. \A o \in matches : o = m
      BY <1>4, <2>1, <2>2, SingletonOf
    <3> QED BY <2>2, <2>5, <3>1 DEF NameKeys
  <2> HIDE DEF row
  <2> QED BY <1>1, <2>2, <2>3, <2>5, <2>6 DEF Reason, row
<1> QED BY <1>2, <1>3, <1>4

\* The rows of one reading of the facts agree.
LEMMA ReasonsAgree ==
    ASSUME FactsTyped, NEW f, FactsRead(f), OneProvider(f), NEW a, NEW b,
           Credited(a), Credited(b), Reason(f, a), Reason(f, b)
    PROVE  Agree(a, b)
<1> DEFINE t == Link(a)[2]
           m == Link(a)[1]
           n == Link(b)[1]
<1> SUFFICES ASSUME Link(b)[2] = t, m # n
             PROVE  /\ Cardinality(Embedded[t]) > 1 \/ shares[t] # "none"
                    /\ {a.status, b.status} # {"exact"}
                    /\ name[m] # name[n]
  BY DEF Agree
<1>1. /\ m \in f.known /\ n \in f.known /\ t \in Mmp
      /\ "none" \notin f.known
      /\ a.status \in {"exact", "embedded"} /\ b.status \in {"exact", "embedded"}
  BY ReconciliationAssumption DEF Reason, FactsRead, Credited
<1>2. /\ a.status = "exact" => Resolve(f, t) = m \/ shares[t] = m
      /\ a.status = "embedded" => /\ name[m] \in Embedded[t]
                                  /\ \A o \in f.known : name[o] = name[m] => o = m
                                  /\ Resolve(f, t) \in f.known => Resolve(f, t) = m
      /\ b.status = "exact" => Resolve(f, t) = n \/ shares[t] = n
      /\ b.status = "embedded" => /\ name[n] \in Embedded[t]
                                  /\ \A o \in f.known : name[o] = name[n] => o = n
                                  /\ Resolve(f, t) \in f.known => Resolve(f, t) = n
  BY DEF Reason
<1>3. shares[t] = "none" \/ Resolve(f, t) = "none"
  <2>1. CASE shares[t] = "none"
    BY <2>1
  <2>2. CASE f.remote[t] = "none"
    BY <1>1, <2>2, ReconciliationAssumption DEF Resolve
  <2> QED BY <1>1, <2>1, <2>2 DEF OneProvider
<1>4. ~(a.status = "exact" /\ b.status = "exact")
  BY <1>1, <1>2, <1>3
<1>5. name[m] # name[n]
  BY <1>1, <1>2, <1>4
<1>6. CASE a.status = "embedded" /\ b.status = "embedded"
  <2>1. IsFiniteSet(Embedded[t])
    BY <1>1, ReconciliationAssumption, FS_Subset
  <2>2. name[m] \in Embedded[t] /\ name[n] \in Embedded[t]
    BY <1>2, <1>6
  <2>3. Cardinality(Embedded[t]) > 1
    BY <1>5, <2>1, <2>2, AtMostOne
  <2> QED BY <1>4, <1>5, <1>6, <2>3
<1>7. CASE ~(a.status = "embedded" /\ b.status = "embedded")
  <2>1. shares[t] # "none"
    BY <1>1, <1>2, <1>3, <1>7
  <2> QED BY <1>4, <1>5, <2>1
<1> QED BY <1>6, <1>7

LEMMA ReconciledAgree ==
    ASSUME FactsTyped, NEW f, FactsRead(f), OneProvider(f), NEW decided,
           NEW a \in Reconciled(f, decided), NEW b \in Reconciled(f, decided),
           Credited(a), Credited(b)
    PROVE  Agree(a, b)
<1>1. ASSUME NEW row \in Reconciled(f, decided), Credited(row) PROVE Reason(f, row)
  <2>1. CASE row.source \in f.known \ decided /\ row \in Forward(f, row.source)
    BY <1>1, <2>1, ForwardReason
  <2>2. CASE /\ row.source \in Paid(f) /\ row = Reverse(f, row.source)
             /\ Resolve(f, row.source) \notin f.known
    <3>1. row.source \in Mmp
      BY <2>2 DEF Paid, FactsRead
    <3> QED BY <1>1, <2>2, <3>1, ReverseReason
  <2>3. CASE row.status = "not_applicable"
    BY <1>1, <2>3 DEF Credited
  <2> QED BY <2>1, <2>2, <2>3, ReconciledRows
<1> QED BY <1>1, ReasonsAgree

\* Network campaigns get rows of one kind from a run.
OneKind(a, b) ==
    a.from = "network" /\ b.from = "network" /\ a.source = b.source => a.status = b.status

\* Two rows one run may have computed.
Consistent(a, b) ==
    a.status \notin Human /\ b.status \notin Human
    => OneKind(a, b) /\ (Credited(a) /\ Credited(b) => Agree(a, b))

LEMMA ForwardOneKind ==
    ASSUME NEW f, NEW m \in f.known, NEW a \in Forward(f, m), NEW b \in Forward(f, m)
    PROVE  a.status = b.status
<1> DEFINE declared == {t \in Declared(f) : Resolve(f, t) = m}
           same == ById(f, m)
<1>1. CASE declared # {}
  BY <1>1 DEF Forward, Row
<1>2. CASE declared = {} /\ same # {}
  BY <1>2 DEF Forward, Row
<1>3. CASE declared = {} /\ same = {}
  <2>1. a \in LinkedByName(f, m) /\ b \in LinkedByName(f, m)
    BY <1>3 DEF Forward
  <2> QED BY <2>1 DEF LinkedByName, Row
<1> QED BY <1>1, <1>2, <1>3

LEMMA ReconciledConsistent ==
    ASSUME FactsTyped, NEW f, FactsRead(f), OneProvider(f), NEW decided,
           NEW a \in Reconciled(f, decided), NEW b \in Reconciled(f, decided)
    PROVE  Consistent(a, b)
<1>1. ASSUME NEW row \in Reconciled(f, decided), row.from = "network"
      PROVE  row.source \in f.known /\ row \in Forward(f, row.source)
  <2>1. CASE row.source \in Paid(f) /\ row = Reverse(f, row.source)
    BY <1>1, <2>1, ReverseRow DEF Paid, FactsRead
  <2> QED BY <1>1, <2>1, ReconciledRows
<1> QED BY <1>1, ForwardOneKind, ReconciledAgree DEF Consistent, OneKind

LEMMA DecidedConsistent ==
    ASSUME NEW a, NEW b, a.status \in Human \/ b.status \in Human
    PROVE  Consistent(a, b)
BY DEF Consistent

\* Runs in progress have numbers of their own, and until they write no row has.
RunsApart ==
    /\ \A r, s \in Busy : run[r].number = run[s].number => r = s
    /\ \A row \in mapping : row.by <= clock
    /\ \A r \in Runners, row \in mapping : run[r].at = "read" => row.by # run[r].number

ProviderInv ==
    /\ OneProvider(Facts) /\ (mmp = "tenjin" => \A t \in Mmp : shares[t] = "none")
    /\ \A r \in Runners : run[r].at = "read" => OneProvider(run[r].facts)

\* Rows computed by one run are consistent, those it still has to write among
\* them.
CreditInv ==
    /\ RunsApart /\ ProviderInv
    /\ \A a, b \in mapping : a.by = b.by => Consistent(a, b)
    /\ \A r \in Runners : run[r].at = "upsert" =>
          \A a \in run[r].todo :
              /\ \A b \in run[r].todo : Consistent(a, b)
              /\ \A b \in mapping : b.by = run[r].number => Consistent(a, b) /\ Consistent(b, a)

LEMMA NamesStay == [Next]_vars => UNCHANGED <<mmp, name, shares>>
<1> SUFFICES ASSUME [Next]_vars PROVE UNCHANGED <<mmp, name, shares>>
  OBVIOUS
<1>1. ASSUME NEW r \in Runners, Reconcile(r) PROVE UNCHANGED <<mmp, name, shares>>
  BY <1>1 DEF Reconcile, StartRun, ReadDecided, UpsertMapping, PruneStaleMappings, ReviewCoverage,
              ClearFindings, RecordFindings, Interrupt, facts
<1>2. ASSUME NEW row, NEW status, NEW target, SetMappingVerification(row, status, target)
      PROVE  UNCHANGED <<mmp, name, shares>>
  BY <1>2 DEF SetMappingVerification, facts
<1> QED BY <1>1, <1>2 DEF Next, Sync, UpsertCampaigns, UpsertAttributionInstalls,
                          UpsertAttributionCampaigns, UpsertAdGroup, vars, facts

LEMMA CreditInvIsEnough == CreditInv => CreditedOnce
BY DEF CreditInv, Consistent, CreditedOnce, Credited, Agree, Human

\* A step that credits nothing.
LEMMA CreditsNothing ==
    ASSUME CreditInv, RunsApart', ProviderInv', UNCHANGED <<name, shares>>,
           \A row \in mapping' : row.status \in Human \/ row \in mapping,
           \A r \in Runners : run'[r].at = "upsert" =>
               run[r].at = "upsert" /\ run'[r].todo = run[r].todo /\ run'[r].number = run[r].number
    PROVE  CreditInv'
<1>1. ASSUME NEW a, NEW b, Consistent(a, b) PROVE Consistent(a, b)'
  BY <1>1 DEF Consistent, OneKind, Credited, Agree, Link
<1>2. \A a, b \in mapping' : a.by = b.by => Consistent(a, b)'
  BY <1>1, DecidedConsistent DEF CreditInv
<1>3. ASSUME NEW r \in Runners, run'[r].at = "upsert", NEW a \in run[r].todo
      PROVE  /\ \A b \in run[r].todo : Consistent(a, b)'
             /\ \A b \in mapping' : b.by = run[r].number => Consistent(a, b)' /\ Consistent(b, a)'
  BY <1>1, <1>3, DecidedConsistent DEF CreditInv
<1> QED BY <1>2, <1>3 DEF CreditInv

\* A step that neither begins a run nor writes a row, nor changes the facts.
LEMMA NobodyBegins ==
    ASSUME CreditInv, UNCHANGED <<facts, clock>>,
           \A row \in mapping' : \E old \in mapping : row.by = old.by,
           \A r \in Runners :
               /\ run'[r].at # "idle" => run[r].at # "idle" /\ run'[r].number = run[r].number
               /\ run'[r].at = "read" => run[r].at = "read" /\ run'[r].facts = run[r].facts
    PROVE  RunsApart' /\ ProviderInv'
<1>1. RunsApart'
  BY DEF CreditInv, RunsApart, Busy
<1>2. ProviderInv'
  BY DEF CreditInv, ProviderInv, OneProvider, Facts, facts
<1> QED BY <1>1, <1>2

LEMMA CreditStep == Typed /\ CreditInv /\ [Next]_vars => CreditInv'
<1> SUFFICES ASSUME Typed, CreditInv, [Next]_vars PROVE CreditInv'
  OBVIOUS
<1>0. /\ mapping \subseteq MappingRows /\ clock \in Nat /\ run \in [Runners -> RunRecords]
      /\ \A r \in Runners : RunTyped(r)
      /\ UNCHANGED <<mmp, name, shares>> /\ FactsTyped
  BY NamesStay DEF Typed, TablesTyped, RunsTyped
<1>1. CASE UNCHANGED vars
  <2>1. UNCHANGED <<mapping, run, clock, facts>>
    BY <1>1 DEF vars
  <2> QED BY <1>0, <2>1, NobodyBegins, CreditsNothing
<1>2. CASE Sync
  <2>1. UNCHANGED <<mapping, run, clock>> /\ (remote' = remote \/ mmp = "tenjin")
    BY <1>2 DEF Sync, UpsertCampaigns, UpsertAttributionInstalls,
                UpsertAttributionCampaigns, UpsertAdGroup
  <2>2. RunsApart'
    BY <2>1 DEF CreditInv, RunsApart, Busy
  <2>3. ProviderInv'
    BY <1>0, <2>1 DEF CreditInv, ProviderInv, OneProvider, Facts
  <2> QED BY <1>0, <2>1, <2>2, <2>3, CreditsNothing
<1>3. ASSUME NEW row \in mapping, NEW status \in Human,
             NEW target \in {row.target} \cup (IF row.from = "network" THEN Mmp ELSE Network),
             SetMappingVerification(row, status, target)
      PROVE  CreditInv'
  <2>1. DecisionWrites(row, status, target)
    BY <1>3, DecisionSteps
  <2> DEFINE new == Decided(row, status, target)
  <2>2. /\ new.by = row.by /\ new.status = status
        /\ mapping' = (mapping \ {row}) \cup {new} /\ UNCHANGED <<facts, clock>>
    BY <1>0, <2>1, DecidedRow DEF DecisionWrites
  <2> HIDE DEF new
  <2>3. new.status \in Human
    BY <2>2
  <2>4. ASSUME NEW s \in Runners
        PROVE  /\ run'[s].at = run[s].at /\ run'[s].number = run[s].number
               /\ run'[s].facts = run[s].facts /\ run'[s].todo = run[s].todo
    <3> DEFINE calm == run[s] = Idle
    <3>1. run'[s] = [run[s] EXCEPT !.calm = calm] /\ calm \in BOOLEAN
      BY <2>1 DEF DecisionWrites
    <3> HIDE DEF calm
    <3> QED BY <1>0, <3>1 DEF RunRecords
  <2>5. RunsApart' /\ ProviderInv'
    BY <2>2, <2>4, NobodyBegins
  <2> QED BY <1>0, <2>2, <2>3, <2>4, <2>5, CreditsNothing
<1>4. ASSUME NEW r \in Runners, StartRun(r) PROVE CreditInv'
  <2>1. /\ clock' = clock + 1 /\ UNCHANGED <<mapping, facts>> /\ run[r].at = "idle"
    <3>1. run[r] = Idle /\ clock' = clock + 1 /\ UNCHANGED <<mapping, facts>>
      BY <1>4 DEF StartRun
    <3> QED BY <3>1 DEF Idle
  <2>2. /\ run'[r].at = "read" /\ run'[r].number = clock + 1 /\ run'[r].facts = Facts
    <3> DEFINE calm == Busy = {}
    <3>1. run'[r] = [Idle EXCEPT !.at = "read", !.number = clock + 1, !.facts = Facts, !.calm = calm]
      BY <1>4 DEF StartRun
    <3> HIDE DEF calm
    <3> QED BY <3>1 DEF Idle
  <2>3. ASSUME NEW s \in Runners \ {r}
        PROVE  /\ run'[s].at = run[s].at /\ run'[s].number = run[s].number
               /\ run'[s].facts = run[s].facts /\ run'[s].todo = run[s].todo
    <3> DEFINE calm == run[s] = Idle
    <3>1. run'[s] = [run[s] EXCEPT !.calm = calm] /\ calm \in BOOLEAN
      BY <1>4 DEF StartRun
    <3> HIDE DEF calm
    <3> QED BY <1>0, <3>1 DEF RunRecords
  <2>4. RunsApart'
    <3>1. \A s \in Busy : run[s].number <= clock /\ run[s].number \in Nat
      BY <1>0 DEF Busy, RunTyped
    <3>2. \A row \in mapping : row.by \in Nat /\ row.by <= clock
      BY <1>0 DEF MappingRows, CreditInv, RunsApart
    <3>3. \A s \in Busy' : s # r => s \in Busy /\ run'[s].number = run[s].number
      BY <2>3 DEF Busy
    <3>4. \A s, q \in Busy' : run'[s].number = run'[q].number => s = q
      BY <1>0, <2>2, <3>1, <3>3 DEF CreditInv, RunsApart
    <3>5. \A s \in Runners, row \in mapping : run'[s].at = "read" => row.by # run'[s].number
      BY <1>0, <2>2, <2>3, <3>2 DEF CreditInv, RunsApart
    <3> QED BY <1>0, <2>1, <3>2, <3>4, <3>5 DEF RunsApart
  <2>5. ProviderInv'
    BY <2>1, <2>2, <2>3 DEF CreditInv, ProviderInv, OneProvider, Facts, facts
  <2> QED BY <1>0, <2>1, <2>2, <2>3, <2>4, <2>5, CreditsNothing
<1>5. ASSUME NEW r \in Runners, ReadDecided(r) PROVE CreditInv'
  <2> DEFINE f == run[r].facts
             decided == {IF row.from = "mmp" THEN IdOf(row.source) ELSE row.source :
                          row \in {row \in mapping : row.status \in Human}}
             links == {<<Resolve(f, t), t>> :
                          t \in {u \in Declared(f) : Resolve(f, u) \in f.known \ decided}}
             due == Reconciled(f, decided)
  <2>1. /\ UNCHANGED <<mapping, facts, clock>> /\ run[r].at = "read"
        /\ run' = [run EXCEPT ![r] = [run[r] EXCEPT !.at = "upsert", !.facts = NoFacts, !.todo = due,
                                                     !.declared = links]]
    BY <1>0, <1>5 DEF ReadDecided
  <2>2. /\ FactsTyped /\ FactsRead(f) /\ OneProvider(f)
        /\ \A row \in mapping : row.by # run[r].number
    BY <1>0, <2>1 DEF RunTyped, CreditInv, RunsApart, ProviderInv
  <2>3. \A a, b \in due : Consistent(a, b)
    <3> HIDE DEF f, decided
    <3> QED BY <2>2, ReconciledConsistent
  <2> HIDE DEF due, links
  <2>4. /\ run'[r].at = "upsert" /\ run'[r].todo = due /\ run'[r].number = run[r].number
        /\ \A s \in Runners \ {r} : run'[s] = run[s]
    BY <1>0, <2>1 DEF RunRecords
  <2>5. RunsApart' /\ ProviderInv'
    BY <2>1, <2>4, NobodyBegins
  <2>6. ASSUME NEW a, NEW b, Consistent(a, b) PROVE Consistent(a, b)'
    BY <1>0, <2>6 DEF Consistent, OneKind, Credited, Agree, Link
  <2>7. ASSUME NEW s \in Runners, run'[s].at = "upsert", NEW a \in run'[s].todo
        PROVE  /\ \A b \in run'[s].todo : Consistent(a, b)'
               /\ \A b \in mapping' : b.by = run'[s].number => Consistent(a, b)' /\ Consistent(b, a)'
    <3>1. CASE s = r
      BY <2>1, <2>2, <2>3, <2>4, <2>6, <2>7, <3>1
    <3>2. CASE s # r
      BY <2>1, <2>4, <2>6, <2>7, <3>2 DEF CreditInv
    <3> QED BY <3>1, <3>2
  <2>8. \A a, b \in mapping' : a.by = b.by => Consistent(a, b)'
    BY <2>1, <2>6 DEF CreditInv
  <2> QED BY <2>5, <2>7, <2>8 DEF CreditInv
<1>6. ASSUME NEW r \in Runners, UpsertMapping(r), run[r].todo # {} PROVE CreditInv'
  <2>1. PICK due \in run[r].todo, new \in MappingRows :
            /\ UpsertWrites(r, due, new)
            /\ run' = [run EXCEPT ![r] = [run[r] EXCEPT !.todo = run[r].todo \ {due}]]
    BY <1>6, UpsertOne
  <2>2. /\ run[r].at = "upsert" /\ UNCHANGED <<facts, clock>> /\ run[r].number \in 1 .. clock
    BY <1>0, <1>6 DEF UpsertMapping, RunTyped
  <2>3. /\ run'[r].at = "upsert" /\ run'[r].todo = run[r].todo \ {due}
        /\ run'[r].number = run[r].number
        /\ \A s \in Runners \ {r} : run'[s] = run[s]
    BY <1>0, <2>1, <2>2 DEF RunRecords
  <2>4. /\ new.by = run[r].number
        /\ mapping' = {row \in mapping : Key(row) # Key(new)} \cup {new}
    BY <2>1 DEF UpsertWrites
  <2>5. RunsApart'
    <3>1. r \in Busy /\ \A s \in Runners : run'[s].at = run[s].at /\ run'[s].number = run[s].number
      BY <2>2, <2>3 DEF Busy
    <3>2. \A s \in Runners : run[s].at = "read" => run[s].number # new.by
      BY <2>2, <2>4, <3>1 DEF CreditInv, RunsApart, Busy
    <3>3. new.by <= clock
      BY <1>0, <2>2, <2>4
    <3> QED BY <2>2, <2>4, <3>1, <3>2, <3>3 DEF CreditInv, RunsApart, Busy
  <2>6. ProviderInv'
    BY <2>2, <2>3 DEF CreditInv, ProviderInv, OneProvider, Facts, facts
  <2>7. ASSUME NEW a, NEW b, Consistent(a, b) PROVE Consistent(a, b)'
    BY <1>0, <2>7 DEF Consistent, OneKind, Credited, Agree, Link
  \* The new row stands where the due one did, unless a person decided it.
  <2>8. ASSUME NEW b
        PROVE  /\ Consistent(due, b) => Consistent(new, b)
               /\ Consistent(b, due) => Consistent(b, new)
    <3>1. CASE new.status \in Human
      BY <3>1, DecidedConsistent
    <3>2. CASE new.status \notin Human
      <4>1. /\ new.status = due.status /\ new.from = due.from /\ new.source = due.source
            /\ new.target = due.target
        BY <2>1, <3>2 DEF UpsertWrites
      <4> QED BY <4>1 DEF Consistent, OneKind, Credited, Agree, Link
    <3> QED BY <3>1, <3>2
  <2>9. Consistent(new, new)
    BY DEF Consistent, OneKind, Agree
  <2>10. ASSUME NEW a \in mapping', NEW b \in mapping', a.by = b.by
         PROVE  Consistent(a, b)'
    <3>1. CASE a \in mapping /\ b \in mapping
      BY <2>7, <2>10, <3>1 DEF CreditInv
    <3>2. CASE a = new /\ b = new
      BY <2>7, <2>9, <3>2
    <3>3. CASE a = new /\ b \in mapping
      BY <2>2, <2>4, <2>7, <2>8, <2>10, <3>3 DEF CreditInv
    <3>4. CASE a \in mapping /\ b = new
      BY <2>2, <2>4, <2>7, <2>8, <2>10, <3>4 DEF CreditInv
    <3> QED BY <2>4, <3>1, <3>2, <3>3, <3>4
  <2>11. ASSUME NEW s \in Runners, run'[s].at = "upsert", NEW a \in run'[s].todo
         PROVE  /\ \A b \in run'[s].todo : Consistent(a, b)'
                /\ \A b \in mapping' : b.by = run'[s].number => Consistent(a, b)' /\ Consistent(b, a)'
    <3>1. /\ run[s].at = "upsert" /\ run'[s].todo \subseteq run[s].todo
          /\ run'[s].number = run[s].number
      BY <2>2, <2>3, <2>11
    <3>2. ASSUME NEW b \in mapping', b.by = run[s].number PROVE Consistent(a, b) /\ Consistent(b, a)
      <4>1. CASE b \in mapping
        BY <2>11, <3>1, <3>2, <4>1 DEF CreditInv
      <4>2. CASE b = new
        <5>1. s = r
          BY <2>2, <2>4, <3>1, <3>2, <4>2 DEF CreditInv, RunsApart, Busy
        <5> QED BY <2>8, <2>11, <3>1, <3>2, <4>2, <5>1 DEF CreditInv
      <4> QED BY <2>4, <4>1, <4>2
    <3> QED BY <2>7, <2>11, <3>1, <3>2 DEF CreditInv
  <2> QED BY <2>5, <2>6, <2>10, <2>11 DEF CreditInv
<1>7. ASSUME NEW r \in Runners,
             \/ (UpsertMapping(r) /\ run[r].todo = {}) \/ PruneStaleMappings(r) \/ ReviewCoverage(r)
             \/ ClearFindings(r) \/ RecordFindings(r) \/ Interrupt(r)
      PROVE  CreditInv'
  <2>1. /\ mapping' \subseteq mapping /\ UNCHANGED <<facts, clock>>
        /\ \A s \in Runners \ {r} : run'[s] = run[s]
    BY <1>0, <1>7 DEF UpsertMapping, PruneStaleMappings, ReviewCoverage, ClearFindings, RecordFindings,
                      Interrupt
  <2>2. /\ run[r].at # "idle" /\ run'[r].at \in {"idle", "prune", "review", "clear", "record"}
        /\ run'[r].at # "idle" => run'[r].number = run[r].number
    <3>1. CASE UpsertMapping(r) /\ run[r].todo = {}
      BY <1>0, <3>1 DEF UpsertMapping, RunRecords
    <3>2. CASE PruneStaleMappings(r)
      BY <1>0, <3>2 DEF PruneStaleMappings, RunRecords
    <3>3. CASE ReviewCoverage(r)
      <4> DEFINE todo == FindingsDue
      <4>1. run' = [run EXCEPT ![r].at = "clear", ![r].todo = todo] /\ run[r].at = "review"
        BY <3>3 DEF ReviewCoverage
      <4> HIDE DEF todo
      <4> QED BY <1>0, <4>1 DEF RunRecords
    <3>4. CASE ClearFindings(r)
      BY <1>0, <3>4 DEF ClearFindings, RunRecords
    <3>5. CASE RecordFindings(r) \/ Interrupt(r)
      BY <1>0, <3>5 DEF RecordFindings, Interrupt, Idle
    <3> QED BY <1>7, <3>1, <3>2, <3>3, <3>4, <3>5
  <2>3. RunsApart' /\ ProviderInv'
    BY <2>1, <2>2, NobodyBegins
  <2> QED BY <1>0, <2>1, <2>2, <2>3, CreditsNothing
<1> QED BY <1>1, <1>2, <1>3, <1>4, <1>5, <1>6, <1>7 DEF Next, Reconcile

\* The tables, the runs, and what one run computes keep together.
THEOREM StaysCredited == Spec => [](Typed /\ CreditInv)
<1>1. ASSUME Init PROVE CreditInv
  <2>1. OneProvider(Facts) /\ (mmp = "tenjin" => \A t \in Mmp : shares[t] = "none")
    <3>1. PICK w \in Worlds : mmp = w.mmp /\ shares = w.shares /\ remote = w.remote
      BY <1>1 DEF Init
    <3> QED BY <3>1, ReconciliationAssumption DEF OneProvider, Facts
  <2> QED BY <1>1, <2>1 DEF Init, CreditInv, RunsApart, ProviderInv, Busy, Idle
<1> QED BY <1>1, InitTyped, NextTyped, CreditStep, PTL DEF Spec

\* One run credits a paid MMP campaign to two network campaigns only when the
\* MMP's name embeds more than one name, or its id is the network's and its
\* name another's; never through two identifiers and never to namesakes,
\* however many runs write rows at once.
THEOREM CreditsOnce == Spec => []CreditedOnce
BY StaysCredited, CreditInvIsEnough, PTL

=============================================================================
