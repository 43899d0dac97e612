--------------------------- MODULE Figures_proofs ---------------------------
(***************************************************************************)
(* Theorems about what the screens of Figures show while campaigns are     *)
(* reconciled, for any facts, filters, runs and changes.  They need of the *)
(* mapping rows what Reconciliation_proofs shows, and here what one run    *)
(* leaves of the network's and of the MMP's side beside each other.        *)
(***************************************************************************)
EXTENDS Figures, Reconciliation_proofs, FiniteSums

(***************************************************************************)
(* The row that describes a campaign.                                      *)
(***************************************************************************)

\* Some row of a campaign is the strongest.
LEMMA SomeRowIsBest ==
    ASSUME NEW rows, rows # {}, \A row \in rows : row.status \in Computed \cup Human
    PROVE  BestOf(rows) \in rows
<1> DEFINE Has(k) == \E row \in rows : Strength[row.status] = k
<1>1. \A row \in rows : Strength[row.status] \in 1 .. 8
  BY DEF Computed, Human, Strength
<1>2. \E k \in 1 .. 8 : Has(k)
  BY <1>1
<1>3. \E k \in 1 .. 8 : Has(k) /\ \A j \in 1 .. 8 : Has(j) => k <= j
  <2> HIDE DEF Has
  <2>1. Has(1) \/ Has(2) \/ Has(3) \/ Has(4) \/ Has(5) \/ Has(6) \/ Has(7) \/ Has(8)
    BY <1>2
  <2> QED BY <2>1
<1>4. PICK k \in 1 .. 8 : Has(k) /\ \A j \in 1 .. 8 : Has(j) => k <= j
  BY <1>3
<1>5. PICK row \in rows : Strength[row.status] = k
  BY <1>4
<1>6. \A other \in rows : Strength[row.status] <= Strength[other.status]
  BY <1>1, <1>4, <1>5
<1> QED BY <1>6 DEF BestOf

(***************************************************************************)
(* The campaign table.                                                     *)
(***************************************************************************)

LEMMA TableFromLinks == Typed /\ CreditInv => TableShowsLinks
<1> SUFFICES ASSUME Typed, CreditInv, NEW m \in Network, NEW f \in Filters,
                    TableRow(m, f).installs # NotReported
             PROVE  LET links == {link[2] : link \in {l \in Links : l[1] = m}}
                        best == BestOf(RowsOf(m))
                        leftover == {r \in RowsOf(m) : /\ r.status = "name"
                                                       /\ best.status = "verified" \/ best.by # r.by}
                    IN  TableRow(m, f).installs
                        = InstalledBy((links \cup {r.target : r \in leftover}) \ Organic, f.countries)
  BY DEF TableShowsLinks
<1> DEFINE links == {link[2] : link \in {l \in Links : l[1] = m}}
           best == BestOf(RowsOf(m))
           leftover == {r \in RowsOf(m) : /\ r.status = "name"
                                          /\ best.status = "verified" \/ best.by # r.by}
           shown == {p \in NotOrganic(AttributionRows(f.countries)) : p[1] \in ShownChildren(m)}
           named == (links \cup {r.target : r \in leftover}) \ Organic
<1>1. mapping \subseteq MappingRows /\ reported \subseteq Mmp
  BY DEF Typed, TablesTyped, FactsTyped, FactsRead, Facts
<1>2. shown # {} /\ TableRow(m, f).installs = Installed(shown)
  BY DEF TableRow
<1>3. RowsOf(m) # {} /\ Established(best) /\ ShownChildren(m) = Children(m)
  BY <1>2 DEF ShownChildren
<1>4. best \in RowsOf(m)
  BY <1>1, <1>3, SomeRowIsBest DEF RowsOf, MappingRows
<1> HIDE DEF best
\* A shared name is shown only beside a row of another run, or a person's.
<1>5. ASSUME NEW r \in RowsOf(m), r.status = "name" PROVE r \in leftover
  <2>1. best.status \in {"exact", "verified", "embedded"}
    BY <1>3 DEF Established, Authoritative
  <2>2. CASE best.status # "verified" /\ best.by = r.by
    <3>1. Consistent(best, r)
      BY <1>4, <2>2 DEF CreditInv, RowsOf
    <3> QED BY <1>4, <1>5, <2>1, <2>2, <3>1 DEF Consistent, OneKind, RowsOf, Human
  <2> QED BY <1>5, <2>2
<1>6. ASSUME NEW t \in Mmp PROVE t \in Children(m) <=> t \in links \cup {r.target : r \in leftover}
  <2>1. "none" \notin Mmp
    BY ReconciliationAssumption
  <2>2. ASSUME t \in Children(m) PROVE t \in links \cup {r.target : r \in leftover}
    <3>1. PICK r \in RowsOf(m) : /\ r.target = t /\ r.target # "none"
                                 /\ r.status \notin {"rejected", "ambiguous", "not_applicable",
                                                     "unmatched"}
      BY <2>2 DEF Children
    <3>2. r.status \in {"exact", "embedded", "verified", "name"}
      BY <1>1, <3>1 DEF RowsOf, MappingRows, Computed, Human
    <3>3. CASE r.status = "name"
      BY <1>5, <3>1, <3>3
    <3>4. CASE r.status # "name"
      <4>1. <<m, t>> \in Links
        BY <3>1, <3>2, <3>4 DEF Links, RowsOf, Operational, Link
      <4> QED BY <4>1
    <3> QED BY <3>3, <3>4
  <2>3. ASSUME t \in links PROVE t \in Children(m)
    <3>1. PICK r \in mapping : r.from = "network" /\ Operational(r) /\ Link(r)[1] = m /\ Link(r)[2] = t
      BY <2>3 DEF Links
    <3> QED BY <3>1 DEF Children, RowsOf, Operational, Link
  <2>4. ASSUME NEW r \in leftover, t = r.target PROVE t \in Children(m)
    BY <2>1, <2>4 DEF Children
  <2> QED BY <2>2, <2>3, <2>4
<1>7. shown = {p \in AttributionRows(f.countries) : p[1] \in named}
  <2>1. \A p \in AttributionRows(f.countries) : p[1] \in Mmp
    BY <1>1 DEF AttributionRows
  <2> HIDE DEF links, leftover
  <2> QED BY <1>3, <1>6, <2>1 DEF NotOrganic
<1> QED BY <1>2, <1>7 DEF InstalledBy, best

\* The table shows beside a campaign the paid installs of its operational links,
\* but for a shared name left beside a link of another run or a person's
\* decision, whatever runs have overlapped.
THEOREM TableIsOfLinks == Spec => []TableShowsLinks
<1>1. Spec => [](Typed /\ CreditInv)
  BY StaysCredited, PTL
<1> QED BY <1>1, TableFromLinks, PTL

(***************************************************************************)
(* Links of the MMP's side alone.                                          *)
(***************************************************************************)

\* A link a run computed for an MMP campaign.
MmpLink(row) == row.from = "mmp" /\ row.status \in {"exact", "embedded"} /\ row.target # "none"

\* What the network's side says of the campaign an MMP link names.
Answer(other, row) ==
    /\ other.from = "network" /\ other.source = row.target
    /\ \/ other.status \in {"exact", "ambiguous"}
       \/ other.status = "embedded" /\ other.target = row.source

\* A person has decided something about the campaign, from either side.
Settled(row) ==
    \E other \in mapping : /\ other.status \in Human
                           /\ \/ other.from = "network" /\ other.source = row.target
                              \/ other.from = "mmp" /\ shares[other.source] = row.target

\* The newest run, with what it has still to write, answers an MMP link; or a
\* person has, or the MMP publishes an id.
Answered(row, todo) ==
    \/ \E other \in todo : Answer(other, row)
    \/ \E other \in mapping : other.by = clock /\ Answer(other, row)
    \/ Settled(row) \/ remote[row.source] # "none"

\* Which side a row is of, shows in its source.
Sided(row) == (row.from = "network" => row.source \in Network) /\ (row.from = "mmp" => row.source \in Mmp)

\* Whatever the rules link an MMP campaign to, they also have an answer for.
LEMMA EveryLinkAnswered ==
    ASSUME FactsTyped, NEW f, FactsRead(f), NEW decided,
           NEW row \in Reconciled(f, decided), MmpLink(row)
    PROVE  \/ \E other \in Reconciled(f, decided) : Answer(other, row)
           \/ row.target \in decided
           \/ f.remote[row.source] # "none"
<1> DEFINE t == row.source
           m == row.target
           declared == {u \in Declared(f) : Resolve(f, u) = m}
           same == ById(f, m)
           called == NameCandidates(f, m)
           matches == {n \in f.known : name[n] \in NameKeys(t)}
<1>1. t \in Paid(f) /\ t \in Mmp /\ row = Reverse(f, t) /\ Resolve(f, t) \notin f.known
  <2>1. ~(row.source \in f.known /\ row \in Forward(f, row.source))
    BY ForwardRows DEF MmpLink
  <2> QED BY <2>1, ReconciledRows DEF MmpLink, Paid, FactsRead
<1>2. /\ m \in f.known
      /\ row.status = "exact" => shares[t] = m
      /\ row.status = "embedded" => /\ name[m] \in NameKeys(t) /\ name[m] # WholeName[t]
                                    /\ \A o \in f.known : name[o] = name[m] => o = m
  <2>1. Reason(f, row) /\ Link(row) = <<m, t>>
    BY <1>1, ReverseReason DEF MmpLink, Credited, Link
  <2>2. m \in f.known
    BY <2>1 DEF Reason
  <2>3. row.status = "exact" => shares[t] = m
    BY <1>1, <2>1, <2>2 DEF Reason
  <2>4. row.status = "embedded" => name[m] # WholeName[t]
    <3>1. CASE shares[t] \in f.known \/ Cardinality(matches) # 1
      BY <1>1, <3>1 DEF Reverse, Row, MmpLink
    <3>2. CASE shares[t] \notin f.known /\ Cardinality(matches) = 1
      <4> DEFINE n == CHOOSE n \in matches : TRUE
      <4>1. row = Row("mmp", t, n, IF name[n] = WholeName[t] THEN "name" ELSE "embedded", {})
        BY <1>1, <3>2 DEF Reverse
      <4> HIDE DEF n
      <4> QED BY <4>1 DEF Row
    <3> QED BY <3>1, <3>2
  <2> QED BY <2>1, <2>2, <2>3, <2>4 DEF Reason, NameKeys
<1> SUFFICES ASSUME m \notin decided, f.remote[t] = "none"
             PROVE  \E other \in Reconciled(f, decided) : Answer(other, row)
  OBVIOUS
<1>3. Forward(f, m) \subseteq Reconciled(f, decided)
  BY <1>2 DEF Reconciled
<1>4. Resolve(f, t) = "none"
  BY <1>1, <1>2, ReconciliationAssumption DEF Resolve, FactsRead
<1>5. ASSUME NEW u, NEW status, NEW among, Row("network", m, u, status, among) \in Forward(f, m),
             status \in {"exact", "ambiguous"} \/ (status = "embedded" /\ u = t)
      PROVE  \E other \in Reconciled(f, decided) : Answer(other, row)
  <2>1. Answer(Row("network", m, u, status, among), row)
    BY <1>5 DEF Answer, Row
  <2> QED BY <1>3, <1>5, <2>1
<1>6. CASE declared # {}
  <2>1. PICK u \in declared : TRUE
    BY <1>6
  <2>2. Row("network", m, u, "exact", declared) \in Forward(f, m)
    BY <1>6, <2>1 DEF Forward
  <2> QED BY <1>5, <2>2
<1>7. CASE declared = {} /\ same # {}
  <2>1. Row("network", m, CHOOSE u \in same : TRUE, "exact", {}) \in Forward(f, m)
    BY <1>7 DEF Forward
  <2> QED BY <1>5, <2>1
<1>8. CASE declared = {} /\ same = {}
  <2>1. Forward(f, m) = LinkedByName(f, m)
    BY <1>8 DEF Forward
  <2>2. row.status = "embedded"
    BY <1>1, <1>2, <1>8 DEF ById, MmpLink
  <2>3. t \in called /\ WholeName[t] # name[m]
    BY <1>1, <1>2, <1>4, <2>2 DEF NameCandidates
  <2>4. CASE Cardinality(Namesakes(f, m)) > 1
    <3>1. Row("network", m, "none", "ambiguous", called) \in Forward(f, m)
      BY <2>1, <2>3, <2>4 DEF LinkedByName
    <3> QED BY <1>5, <3>1
  <2>5. CASE ~(Cardinality(Namesakes(f, m)) > 1) /\ \A u \in called : WholeName[u] # name[m]
    <3>1. Row("network", m, t, "embedded", called) \in Forward(f, m)
      BY <2>1, <2>3, <2>5 DEF LinkedByName
    <3> QED BY <1>5, <3>1
  <2>6. CASE /\ ~(Cardinality(Namesakes(f, m)) > 1) /\ ~(\A u \in called : WholeName[u] # name[m])
             /\ Cardinality(called) # 1
    <3>1. Row("network", m, "none", "ambiguous", called) \in Forward(f, m)
      BY <2>1, <2>3, <2>6 DEF LinkedByName
    <3> QED BY <1>5, <3>1
  <2>7. CASE ~(\A u \in called : WholeName[u] # name[m]) /\ Cardinality(called) = 1
    <3>1. IsFiniteSet(called)
      BY ReconciliationAssumption, FS_Subset DEF NameCandidates, Paid, FactsRead
    <3>2. \A u \in called : u = t
      BY <2>3, <2>7, <3>1, SingletonOf
    <3> QED BY <2>3, <2>7, <3>2
  <2> QED BY <2>4, <2>5, <2>6, <2>7
<1> QED BY <1>6, <1>7, <1>8

\* The rows of a run have keys of their own, and sources of their side.
LEMMA ReconciledKeys ==
    ASSUME FactsTyped, NEW f, FactsRead(f), NEW decided
    PROVE  /\ \A row \in Reconciled(f, decided) : Sided(row)
           /\ \A a, b \in Reconciled(f, decided) : Key(a) = Key(b) => a = b
<1>1. ASSUME NEW row \in Reconciled(f, decided)
      PROVE  \/ row.from = "network" /\ row.source \in f.known /\ row \in Forward(f, row.source)
             \/ row.from = "mmp" /\ row.source \in Mmp \ Organic /\ row = Reverse(f, row.source)
             \/ /\ row.from = "mmp" /\ row.source \in Organic
                /\ row = Row("mmp", row.source, "none", "not_applicable", {})
  <2>1. CASE \E m \in f.known \ decided : row \in Forward(f, m)
    BY <2>1, ForwardRows
  <2>2. CASE \E t \in Paid(f) : row = Reverse(f, t)
    BY <2>2, ReverseRow DEF Paid, FactsRead
  <2>3. CASE \E t \in f.reported \cap Organic : row = Row("mmp", t, "none", "not_applicable", {})
    BY <2>3 DEF Row
  <2>4. \/ \E m \in f.known \ decided : row \in Forward(f, m)
        \/ \E t \in Paid(f) : row = Reverse(f, t)
        \/ \E t \in f.reported \cap Organic : row = Row("mmp", t, "none", "not_applicable", {})
    BY DEF Reconciled
  <2> QED BY <2>1, <2>2, <2>3, <2>4
<1>2. ASSUME NEW m \in f.known, NEW a \in Forward(f, m), NEW b \in Forward(f, m),
             a.target = b.target
      PROVE  a = b
  <2> DEFINE declared == {t \in Declared(f) : Resolve(f, t) = m}
             same == ById(f, m)
  <2>1. CASE declared # {}
    BY <1>2, <2>1 DEF Forward, Row
  <2>2. CASE declared = {} /\ same # {}
    BY <1>2, <2>2 DEF Forward
  <2>3. CASE declared = {} /\ same = {}
    <3>1. a \in LinkedByName(f, m) /\ b \in LinkedByName(f, m)
      BY <2>3 DEF Forward
    <3> QED BY <1>2, <3>1 DEF LinkedByName, Row
  <2> QED BY <2>1, <2>2, <2>3
<1>3. ASSUME NEW a \in Reconciled(f, decided), NEW b \in Reconciled(f, decided), Key(a) = Key(b)
      PROVE  a = b
  <2>1. a.from = b.from /\ a.source = b.source /\ a.target = b.target
    BY <1>3 DEF Key
  <2> QED BY <1>1, <1>2, <2>1
<1>4. ASSUME NEW row \in Reconciled(f, decided) PROVE Sided(row)
  BY <1>1, ReconciliationAssumption DEF Sided, FactsRead
<1> QED BY <1>3, <1>4

\* The newest run began alone, and none has begun since.
Undisturbed == \A pair \in overlap : clock \notin {pair[1], pair[2]}

Finished == newest = clock \/ \E r \in Runners : run[r].at \in {"prune", "review", "clear", "record"}

Kept ==
    /\ \A row \in mapping : Sided(row) /\ row.by <= row.at
    /\ \A r \in Runners : run[r].at = "upsert" =>
          /\ \A due \in run[r].todo : Sided(due)
          /\ \A a, b \in run[r].todo : Key(a) = Key(b) => a = b
          /\ \A due \in run[r].todo, row \in mapping :
                row.by = run[r].number /\ row.status \notin Human => Key(row) # Key(due)
    /\ \A r \in Runners : run[r].at = "read" =>
          \A t \in Mmp : run[r].facts.remote[t] # "none" => remote[t] # "none"
    /\ \A r \in Runners : run[r].at \in {"read", "upsert", "prune", "review", "clear"}
          => run[r].number # newest

\* While an undisturbed run writes, it answers what it links with what it has
\* written and has to; once it has finished, with what it has written.
AnswersWhileWriting ==
    Undisturbed => \A r \in Runners : run[r].at = "upsert" =>
        \A row \in run[r].todo \cup {m \in mapping : m.by = clock} :
            MmpLink(row) => Answered(row, run[r].todo)

AnswersOnceFinished ==
    Undisturbed /\ Finished => \A row \in mapping : row.by = clock /\ MmpLink(row) => Answered(row, {})

AnswerInv == Kept /\ AnswersWhileWriting /\ AnswersOnceFinished

LEMMA AnswerInvIsEnough == Typed /\ StaleInv /\ CreditInv /\ AnswerInv => OneSidedIsContested
<1> SUFFICES ASSUME Typed, StaleInv, CreditInv, AnswerInv, newest = clock,
                    \A pair \in overlap : newest \notin {pair[1], pair[2]},
                    NEW row \in mapping, row.from = "mmp", row.status \in Computed, Operational(row)
             PROVE  \/ row.source \in LinkedMmp
                    \/ \E other \in RowsOf(row.target) :
                          other.status \in {"exact", "ambiguous"} \cup Human
                    \/ \E other \in mapping : /\ other.from = "mmp" /\ other.status \in Human
                                              /\ shares[other.source] = row.target
                    \/ remote[row.source] # "none"
  BY DEF OneSidedIsContested
<1>1. MmpLink(row)
  BY DEF MmpLink, Operational, Computed
<1>2. row.by = clock
  <2>1. row.by \in Nat /\ clock \in Nat /\ row.by <= clock
    BY DEF Typed, TablesTyped, MappingRows, CreditInv, RunsApart
  <2>2. row.by < newest => <<row.by, newest>> \in overlap
    BY StaleInvIsEnough DEF StaleOnlyByOverlap
  <2>3. ~(<<row.by, newest>> \in overlap)
    OBVIOUS
  <2> QED BY <2>1, <2>2, <2>3
<1>3. Answered(row, {})
  BY <1>1, <1>2 DEF AnswerInv, AnswersOnceFinished, Undisturbed, Finished
<1>4. row.source # "none"
  BY ReconciliationAssumption DEF AnswerInv, Kept, Sided
<1>5. CASE \E other \in mapping : Answer(other, row)
  <2>1. PICK other \in mapping : Answer(other, row)
    BY <1>5
  <2>2. CASE other.status \in {"exact", "ambiguous"}
    BY <2>1, <2>2 DEF Answer, RowsOf
  <2>3. CASE other.status = "embedded" /\ other.target = row.source
    <3>1. Link(other) \in Links /\ Link(other)[2] = row.source
      BY <1>4, <2>1, <2>3 DEF Links, Answer, Operational, Link
    <3> QED BY <3>1 DEF LinkedMmp
  <2> QED BY <2>1, <2>2, <2>3 DEF Answer
<1>6. CASE Settled(row)
  BY <1>6 DEF Settled, RowsOf
<1> QED BY <1>3, <1>5, <1>6 DEF Answered

\* A step that leaves the newest run's rows where they are, or a person's in
\* their place, leaves their links answered.
LEMMA StaysAnswered ==
    ASSUME NEW row, row.source \in Mmp, UNCHANGED <<clock, shares>>,
           \A t \in Mmp : remote[t] # "none" => remote'[t] # "none",
           \A other \in mapping : other.by = clock \/ other.status \in Human =>
               \/ other \in mapping'
               \/ \E new \in mapping' : /\ new.status \in Human /\ new.from = other.from
                                        /\ new.source = other.source,
           Answered(row, {})
    PROVE  Answered(row, {})'
<1>1. CASE Settled(row)
  <2>1. Settled(row)'
    BY <1>1 DEF Settled
  <2> QED BY <2>1 DEF Answered
<1>2. CASE remote[row.source] # "none"
  BY <1>2 DEF Answered
<1>3. CASE \E other \in mapping : other.by = clock /\ Answer(other, row)
  <2>1. PICK other \in mapping : other.by = clock /\ Answer(other, row)
    BY <1>3
  <2>2. CASE other \in mapping'
    <3>1. Answer(other, row)'
      BY <2>1 DEF Answer
    <3> QED BY <2>1, <2>2, <3>1 DEF Answered
  <2>3. CASE other \notin mapping'
    <3>1. \E new \in mapping' : /\ new.status \in Human /\ new.from = other.from
                                /\ new.source = other.source
      BY <2>1, <2>3
    <3>2. Settled(row)'
      BY <2>1, <3>1 DEF Settled, Answer
    <3> QED BY <3>2 DEF Answered
  <2> QED BY <2>2, <2>3
<1> QED BY <1>1, <1>2, <1>3 DEF Answered

\* What is left to write answers as well as what is written.
LEMMA AnsweredBoth ==
    ASSUME NEW row, NEW todo
    PROVE  Answered(row, todo) <=> (Answered(row, {}) \/ \E other \in todo : Answer(other, row))
BY DEF Answered

\* Of an undisturbed run's steps, its own are all there are.
LEMMA RunsAlone ==
    ASSUME Typed, StaleInv, Undisturbed, NEW r \in Busy
    PROVE  run[r].number = clock
<1>1. run[r].number \in 1 .. clock /\ clock \in Nat
  BY DEF Typed, TablesTyped, RunsTyped, RunTyped, Busy
<1>2. run[r].number < clock => <<run[r].number, clock>> \in overlap
  BY <1>1 DEF StaleInv, RunsOverlap
<1>3. <<run[r].number, clock>> \notin overlap
  BY DEF Undisturbed
<1> QED BY <1>1, <1>2, <1>3

\* A step that writes nothing: runs go on or end, people decide, syncs store.
LEMMA NothingWritten ==
    ASSUME Typed, AnswerInv, Kept', UNCHANGED <<clock, overlap, shares>>,
           \A t \in Mmp : remote[t] # "none" => remote'[t] # "none",
           \A other \in mapping : other.by = clock \/ other.status \in Human =>
               \/ other \in mapping'
               \/ \E new \in mapping' : /\ new.status \in Human /\ new.from = other.from
                                        /\ new.source = other.source,
           \A row \in mapping' : row.status \in Human \/ row \in mapping,
           \A r \in Runners :
               /\ run'[r].at = "upsert" => run[r].at = "upsert" /\ run'[r].todo = run[r].todo,
           Finished' => \/ Finished
                        \/ \E r \in Runners : run[r].at = "upsert" /\ run[r].todo = {}
    PROVE  AnswerInv'
<1>1. \A row : MmpLink(row)' = MmpLink(row) /\ (MmpLink(row) => row.status \notin Human)
  BY DEF MmpLink, Human
<1>2. ASSUME NEW row, row.source \in Mmp, NEW todo, Answered(row, todo)
      PROVE  /\ Answered(row, {}) => Answered(row, {})'
             /\ \/ \E other \in todo : Answer(other, row)
                \/ Answered(row, {})'
  BY <1>2, StaysAnswered, AnsweredBoth
<1>3. \A row \in mapping : MmpLink(row) => row.source \in Mmp
  BY DEF AnswerInv, Kept, Sided, MmpLink
<1>4. AnswersWhileWriting'
  <2> SUFFICES ASSUME Undisturbed', NEW r \in Runners, run'[r].at = "upsert",
                      NEW row \in run'[r].todo \cup {m \in mapping' : m.by = clock}, MmpLink(row)
               PROVE  Answered(row, run[r].todo)'
    BY <1>1 DEF AnswersWhileWriting
  <2>1. Undisturbed
    BY DEF Undisturbed
  <2>2. run[r].at = "upsert" /\ run'[r].todo = run[r].todo
    OBVIOUS
  <2>3. row \in run[r].todo \cup {m \in mapping : m.by = clock} /\ row.source \in Mmp
    BY <1>1, <1>3, <2>2 DEF AnswerInv, Kept, Sided, MmpLink
  <2>4. PICK todo : todo = run[r].todo
    OBVIOUS
  <2>5. Answered(row, todo)
    BY <2>1, <2>2, <2>3, <2>4 DEF AnswerInv, AnswersWhileWriting
  <2>6. (\E other \in todo : Answer(other, row)) \/ Answered(row, {})'
    BY <1>2, <2>3, <2>5
  <2> QED BY <2>2, <2>4, <2>6 DEF Answered, Answer
<1>5. AnswersOnceFinished'
  <2> SUFFICES ASSUME Undisturbed', Finished', NEW row \in mapping', row.by = clock, MmpLink(row)
               PROVE  Answered(row, {})'
    BY <1>1 DEF AnswersOnceFinished
  <2>1. Undisturbed /\ row \in mapping /\ row.source \in Mmp
    BY <1>1, <1>3 DEF Undisturbed
  <2>2. Answered(row, {})
    <3>1. CASE Finished
      BY <2>1, <3>1 DEF AnswerInv, AnswersOnceFinished
    <3>2. CASE \E r \in Runners : run[r].at = "upsert" /\ run[r].todo = {}
      BY <2>1, <3>2 DEF AnswerInv, AnswersWhileWriting
    <3> QED BY <3>1, <3>2
  <2> QED BY <1>2, <2>1, <2>2
<1> QED BY <1>4, <1>5 DEF AnswerInv

\* The steps of a run that compute and write no row.
LaterSteps(r) ==
    \/ (UpsertMapping(r) /\ run[r].todo = {}) \/ PruneStaleMappings(r) \/ ReviewCoverage(r)
    \/ ClearFindings(r) \/ RecordFindings(r) \/ Interrupt(r)

LEMMA LaterMoves ==
    ASSUME Typed, NEW r \in Runners, LaterSteps(r)
    PROVE  /\ UNCHANGED <<facts, clock, overlap>> /\ mapping' \subseteq mapping
           /\ \A s \in Runners \ {r} : run'[s] = run[s]
           /\ run[r].at # "idle"
           /\ run'[r].at # "idle" => run'[r].number = run[r].number
           /\ <<run[r].at, run'[r].at>> \in {<<"upsert", "prune">>, <<"prune", "review">>,
                                             <<"review", "clear">>, <<"clear", "record">>}
              \/ run'[r].at = "idle"
           /\ run[r].at = "upsert" /\ run'[r].at = "prune" => run[r].todo = {}
           /\ newest' = newest \/ (newest' = run[r].number /\ run'[r].at = "record")
<1>0. run \in [Runners -> RunRecords]
  BY DEF Typed, RunsTyped
<1>1. /\ UNCHANGED <<facts, clock, overlap>> /\ mapping' \subseteq mapping
      /\ \A s \in Runners \ {r} : run'[s] = run[s]
  BY <1>0 DEF LaterSteps, UpsertMapping, PruneStaleMappings, ReviewCoverage, ClearFindings, RecordFindings,
              Interrupt
<1>2. CASE UpsertMapping(r) /\ run[r].todo = {}
  <2>1. /\ run[r].at = "upsert" /\ run' = [run EXCEPT ![r].at = "prune"] /\ newest' = newest
    BY <1>2 DEF UpsertMapping
  <2> QED BY <1>0, <1>1, <1>2, <2>1 DEF RunRecords
<1>3. CASE PruneStaleMappings(r)
  <2>1. /\ run[r].at = "prune" /\ run' = [run EXCEPT ![r].at = "review"] /\ newest' = newest
    BY <1>3 DEF PruneStaleMappings
  <2> QED BY <1>0, <1>1, <2>1 DEF RunRecords
<1>4. CASE ReviewCoverage(r)
  <2> DEFINE todo == FindingsDue
  <2>1. /\ run' = [run EXCEPT ![r].at = "clear", ![r].todo = todo] /\ run[r].at = "review"
        /\ newest' = newest
    BY <1>4 DEF ReviewCoverage
  <2> HIDE DEF todo
  <2> QED BY <1>0, <1>1, <2>1 DEF RunRecords
<1>5. CASE ClearFindings(r)
  <2>1. /\ run[r].at = "clear" /\ run' = [run EXCEPT ![r].at = "record"]
        /\ newest' = IF run[r].number > newest THEN run[r].number ELSE newest
    BY <1>5 DEF ClearFindings
  <2> QED BY <1>0, <1>1, <2>1 DEF RunRecords
<1>6. CASE RecordFindings(r) \/ Interrupt(r)
  <2>1. run[r].at # "idle" /\ run' = [run EXCEPT ![r] = Idle] /\ newest' = newest
    BY <1>6 DEF RecordFindings, Interrupt
  <2> QED BY <1>0, <1>1, <2>1 DEF Idle
<1> QED BY <1>2, <1>3, <1>4, <1>5, <1>6 DEF LaterSteps

\* What happens to the runs when one begins, reads decisions or writes a row,
\* and when a person decides.
LEMMA OthersTold ==
    ASSUME Typed, NEW s \in Runners, run'[s] = [run[s] EXCEPT !.calm = run[s] = Idle]
    PROVE  /\ run'[s].at = run[s].at /\ run'[s].number = run[s].number
           /\ run'[s].facts = run[s].facts /\ run'[s].todo = run[s].todo
<1> DEFINE calm == run[s] = Idle
<1>1. run'[s] = [run[s] EXCEPT !.calm = calm] /\ calm \in BOOLEAN
  OBVIOUS
<1> HIDE DEF calm
<1> QED BY <1>1 DEF Typed, RunsTyped, RunRecords

LEMMA RunBegins ==
    ASSUME Typed, NEW r \in Runners, StartRun(r)
    PROVE  /\ run[r].at = "idle" /\ run'[r].at = "read" /\ run'[r].number = clock + 1
           /\ run'[r].facts = Facts /\ clock' = clock + 1
           /\ \A s \in Runners \ {r} :
                 /\ run'[s].at = run[s].at /\ run'[s].number = run[s].number
                 /\ run'[s].facts = run[s].facts /\ run'[s].todo = run[s].todo
           /\ UNCHANGED <<facts, mapping, newest>>
           /\ overlap' = overlap \cup {<<run[s].number, clock + 1>> : s \in Busy}
<1>1. /\ run[r] = Idle /\ UNCHANGED <<facts, mapping, newest>> /\ clock' = clock + 1
      /\ overlap' = overlap \cup {<<run[s].number, clock + 1>> : s \in Busy}
  BY DEF StartRun
<1>2. run[r].at = "idle"
  BY <1>1 DEF Idle
<1>3. /\ run'[r].at = "read" /\ run'[r].number = clock + 1 /\ run'[r].facts = Facts
  <2> DEFINE calm == Busy = {}
  <2>1. run'[r] = [Idle EXCEPT !.at = "read", !.number = clock + 1, !.facts = Facts, !.calm = calm]
    BY DEF StartRun
  <2> HIDE DEF calm
  <2> QED BY <2>1 DEF Idle
<1>4. \A s \in Runners \ {r} :
          /\ run'[s].at = run[s].at /\ run'[s].number = run[s].number
          /\ run'[s].facts = run[s].facts /\ run'[s].todo = run[s].todo
  <2>1. \A s \in Runners \ {r} : run'[s] = [run[s] EXCEPT !.calm = run[s] = Idle]
    BY DEF StartRun
  <2> QED BY <2>1, OthersTold
<1> QED BY <1>1, <1>2, <1>3, <1>4

\* The rows to write come from what the run read and what people had decided.
LEMMA RowsComputed ==
    ASSUME Typed, CreditInv, Kept, NEW r \in Runners, ReadDecided(r)
    PROVE  /\ UNCHANGED <<facts, mapping, clock, overlap, newest>> /\ run[r].at = "read"
           /\ run'[r].at = "upsert" /\ run'[r].number = run[r].number
           /\ \A s \in Runners \ {r} : run'[s] = run[s]
           /\ \A row \in mapping : row.by # run[r].number
           /\ \A due \in run'[r].todo : Sided(due)
           /\ \A a, b \in run'[r].todo : Key(a) = Key(b) => a = b
           /\ \A row \in run'[r].todo : MmpLink(row) =>
                 \/ \E other \in run'[r].todo : Answer(other, row)
                 \/ Settled(row) \/ remote[row.source] # "none"
<1> DEFINE f == run[r].facts
           decided == {IF row.from = "mmp" THEN IdOf(row.source) ELSE row.source :
                        row \in {row \in mapping : row.status \in Human}}
           links == {<<Resolve(f, t), t>> :
                        t \in {u \in Declared(f) : Resolve(f, u) \in f.known \ decided}}
           due == Reconciled(f, decided)
<1>0. run \in [Runners -> RunRecords] /\ RunTyped(r) /\ mapping \subseteq MappingRows
  BY DEF Typed, TablesTyped, RunsTyped
<1>1. /\ UNCHANGED <<facts, mapping, clock, overlap, newest>> /\ run[r].at = "read"
      /\ run' = [run EXCEPT ![r] = [run[r] EXCEPT !.at = "upsert", !.facts = NoFacts, !.todo = due,
                                                   !.declared = links]]
  BY <1>0 DEF ReadDecided
<1>2. FactsTyped /\ FactsRead(f) /\ \A row \in mapping : row.by # run[r].number
  BY <1>0, <1>1 DEF RunTyped, CreditInv, RunsApart, Typed, TablesTyped
<1>3. (\A row \in due : Sided(row)) /\ \A a, b \in due : Key(a) = Key(b) => a = b
  <2> HIDE DEF f, decided
  <2> QED BY <1>2, ReconciledKeys
<1>4. ASSUME NEW row \in due, MmpLink(row)
      PROVE  \/ \E other \in due : Answer(other, row)
             \/ Settled(row) \/ remote[row.source] # "none"
  <2>1. row \in DueRows /\ row.target \in Network \cup Mmp \cup {"none"} /\ row.source \in Mmp
    <3>1. row \in DueRows
      BY <1>2, <1>4, ReconciledRows
    <3> QED BY <1>3, <1>4, <3>1 DEF DueRows, Sided, MmpLink
  <2>2. \/ \E other \in due : Answer(other, row)
        \/ row.target \in decided
        \/ f.remote[row.source] # "none"
    <3> HIDE DEF f, decided
    <3> QED BY <1>2, <1>4, EveryLinkAnswered
  <2>3. ASSUME row.target \in decided, row.target \notin Mmp PROVE Settled(row)
    <3>1. PICK other \in mapping : /\ other.status \in Human
                                   /\ row.target = IF other.from = "mmp" THEN IdOf(other.source)
                                                   ELSE other.source
      BY <2>3
    <3>2. CASE other.from = "mmp"
      <4>1. other.source \in Mmp
        BY <3>2 DEF Kept, Sided
      <4>2. shares[other.source] = row.target
        BY <2>3, <3>1, <3>2, <4>1 DEF IdOf
      <4> QED BY <3>1, <3>2, <4>2 DEF Settled
    <3>3. CASE other.from # "mmp"
      <4>1. other.from = "network"
        BY <1>0, <3>3 DEF MappingRows
      <4> QED BY <3>1, <3>3, <4>1 DEF Settled
    <3> QED BY <3>2, <3>3
  <2>4. row.target \notin Mmp
    <3>1. Reason(f, row)
      <4>1. row.source \in Paid(f) /\ row = Reverse(f, row.source) /\ Resolve(f, row.source) \notin f.known
        <5>1. ~(row.source \in f.known /\ row \in Forward(f, row.source))
          BY <1>2, <1>4, ForwardRows DEF MmpLink
        <5> QED BY <1>2, <1>4, <5>1, ReconciledRows DEF MmpLink
      <4> QED BY <1>2, <1>4, <2>1, <4>1, ReverseReason DEF MmpLink, Credited
    <3>2. row.target \in Network
      BY <1>2, <1>4, <3>1 DEF Reason, Link, MmpLink, FactsRead
    <3> QED BY <3>2, ReconciliationAssumption
  <2>5. f.remote[row.source] # "none" => remote[row.source] # "none"
    BY <1>1, <2>1 DEF Kept
  <2> QED BY <2>2, <2>3, <2>4, <2>5
<1> HIDE DEF due, links
<1>5. /\ run'[r].at = "upsert" /\ run'[r].todo = due /\ run'[r].number = run[r].number
      /\ \A s \in Runners \ {r} : run'[s] = run[s]
  BY <1>0, <1>1 DEF RunRecords
<1> QED BY <1>1, <1>2, <1>3, <1>4, <1>5

\* A step that writes no row.
LEMMA KeptWithoutWriting ==
    ASSUME Kept, \A t \in Mmp : remote[t] # "none" => remote'[t] # "none",
           \A row \in mapping' :
               \/ row \in mapping
               \/ /\ row.status \in Human
                  /\ \E old \in mapping : /\ row.from = old.from /\ row.source = old.source
                                          /\ row.by = old.by /\ row.at = old.at,
           \A r \in Runners :
               /\ run'[r].at = "upsert" =>
                     /\ run[r].at = "upsert" /\ run'[r].todo = run[r].todo
                     /\ run'[r].number = run[r].number
               /\ run'[r].at = "read" => run[r].at = "read" /\ run'[r].facts = run[r].facts
               /\ run'[r].at \in {"read", "upsert", "prune", "review", "clear"}
                     => run'[r].number # newest'
    PROVE  Kept'
<1>1. \A row \in mapping' : Sided(row) /\ row.by <= row.at
  BY DEF Kept, Sided
<1>2. ASSUME NEW r \in Runners, run'[r].at = "upsert"
      PROVE  /\ \A due \in run'[r].todo : Sided(due)
             /\ \A a, b \in run'[r].todo : Key(a) = Key(b) => a = b
             /\ \A due \in run'[r].todo, row \in mapping' :
                   row.by = run'[r].number /\ row.status \notin Human => Key(row) # Key(due)
  BY <1>2 DEF Kept
<1>3. ASSUME NEW r \in Runners, run'[r].at = "read", NEW t \in Mmp, run'[r].facts.remote[t] # "none"
      PROVE  remote'[t] # "none"
  BY <1>3 DEF Kept
<1>4. \A row : Sided(row)' = Sided(row)
  BY DEF Sided
<1> QED BY <1>1, <1>2, <1>3, <1>4 DEF Kept

LEMMA SyncKeepsIds ==
    ASSUME Typed, Sync
    PROVE  /\ \A t \in Mmp : remote[t] # "none" => remote'[t] # "none"
           /\ UNCHANGED <<mapping, run, clock, overlap, newest, shares>>
<1>1. \/ remote' = remote
      \/ \E t \in Mmp \ Organic, id \in AdGroups \cup Network : remote' = [remote EXCEPT ![t] = id]
  BY DEF Sync, UpsertCampaigns, UpsertAttributionInstalls,
         UpsertAttributionCampaigns, UpsertAdGroup
<1>2. "none" \notin AdGroups \cup Network
  BY ReconciliationAssumption
<1>3. remote \in [Mmp -> AdGroups \cup Network \cup {"none"}]
  BY DEF Typed, TablesTyped, FactsTyped, FactsRead, Facts
<1> QED BY <1>1, <1>2, <1>3 DEF Sync, UpsertCampaigns, UpsertAttributionInstalls,
                                UpsertAttributionCampaigns, UpsertAdGroup

\* A person's decision leaves the row where it was, as theirs.
LEMMA DecisionMoves ==
    ASSUME Typed, NEW row \in mapping, NEW status \in Human,
           NEW target \in {row.target} \cup (IF row.from = "network" THEN Mmp ELSE Network),
           SetMappingVerification(row, status, target)
    PROVE  /\ UNCHANGED <<facts, clock, overlap, newest>>
           /\ \E new : /\ new.from = row.from /\ new.source = row.source /\ new.status \in Human
                       /\ new.by = row.by /\ new.at = row.at
                       /\ mapping' = (mapping \ {row}) \cup {new}
           /\ \A s \in Runners :
                 /\ run'[s].at = run[s].at /\ run'[s].number = run[s].number
                 /\ run'[s].facts = run[s].facts /\ run'[s].todo = run[s].todo
<1>1. DecisionWrites(row, status, target)
  BY DecisionSteps
<1>2. row \in MappingRows
  BY DEF Typed, TablesTyped
<1> DEFINE new == Decided(row, status, target)
<1>3. /\ Key(new) = <<row.from, row.source, target>> /\ new.status = status
      /\ new.at = row.at /\ new.by = row.by /\ new.source = row.source
      /\ mapping' = (mapping \ {row}) \cup {new} /\ UNCHANGED <<facts, clock, overlap, newest>>
  BY <1>1, <1>2, DecidedRow DEF DecisionWrites
<1>4. \A s \in Runners :
          /\ run'[s].at = run[s].at /\ run'[s].number = run[s].number
          /\ run'[s].facts = run[s].facts /\ run'[s].todo = run[s].todo
  BY <1>1, OthersTold DEF DecisionWrites
<1> HIDE DEF new
<1>5. new.from = row.from
  BY <1>3 DEF Key
<1> QED BY <1>3, <1>4, <1>5

\* One row is written, and the run goes on with the others.
LEMMA RowWritten ==
    ASSUME Typed, NEW r \in Runners, UpsertMapping(r), run[r].todo # {}
    PROVE  /\ UNCHANGED <<facts, clock, overlap, newest>> /\ run[r].at = "upsert"
           /\ run[r].number \in 1 .. clock
           /\ run'[r].at = "upsert" /\ run'[r].number = run[r].number
           /\ \A s \in Runners \ {r} : run'[s] = run[s]
           /\ \E due \in run[r].todo, new \in MappingRows :
                 UpsertWrites(r, due, new) /\ run'[r].todo = run[r].todo \ {due}
<1>1. PICK due \in run[r].todo, new \in MappingRows :
          /\ UpsertWrites(r, due, new)
          /\ run' = [run EXCEPT ![r] = [run[r] EXCEPT !.todo = run[r].todo \ {due}]]
  BY UpsertOne
<1>2. UNCHANGED <<facts, clock, overlap, newest>> /\ run[r].at = "upsert"
  BY DEF UpsertMapping
<1>3. run \in [Runners -> RunRecords] /\ RunTyped(r)
  BY DEF Typed, RunsTyped
<1> QED BY <1>1, <1>2, <1>3 DEF RunRecords, RunTyped

LEMMA KeptStep == Typed /\ CreditInv /\ Kept /\ [Next]_vars => Kept'
<1> SUFFICES ASSUME Typed, CreditInv, Kept, [Next]_vars PROVE Kept'
  OBVIOUS
<1>0. /\ clock \in Nat /\ newest \in 0 .. clock /\ mapping \subseteq MappingRows
      /\ \A r \in Runners : RunTyped(r)
      /\ \A r, s \in Busy : run[r].number = run[s].number => r = s
  BY DEF Typed, TablesTyped, RunsTyped, CreditInv, RunsApart
<1>1. CASE UNCHANGED vars
  BY <1>1, KeptWithoutWriting DEF vars, facts, Kept
<1>2. CASE Sync
  BY <1>2, SyncKeepsIds, KeptWithoutWriting DEF Kept
<1>3. ASSUME NEW row \in mapping, NEW status \in Human,
             NEW target \in {row.target} \cup (IF row.from = "network" THEN Mmp ELSE Network),
             SetMappingVerification(row, status, target)
      PROVE  Kept'
  <2>1. UNCHANGED <<remote, newest>>
    BY <1>3, DecisionMoves DEF facts
  <2> QED BY <1>3, <2>1, DecisionMoves, KeptWithoutWriting DEF Kept
<1>4. ASSUME NEW r \in Runners, StartRun(r) PROVE Kept'
  <2>1. /\ run'[r].at = "read" /\ run'[r].number = clock + 1 /\ run'[r].facts.remote = remote
        /\ UNCHANGED <<mapping, remote, newest>>
        /\ \A s \in Runners \ {r} :
              /\ run'[s].at = run[s].at /\ run'[s].number = run[s].number
              /\ run'[s].facts = run[s].facts /\ run'[s].todo = run[s].todo
    BY <1>4, RunBegins DEF facts, Facts
  <2>2. run'[r].number # newest'
    BY <1>0, <2>1
  <2>3. ASSUME NEW s \in Runners, run'[s].at = "upsert"
        PROVE  /\ \A due \in run'[s].todo : Sided(due)
               /\ \A a, b \in run'[s].todo : Key(a) = Key(b) => a = b
               /\ \A due \in run'[s].todo, row \in mapping' :
                     row.by = run'[s].number /\ row.status \notin Human => Key(row) # Key(due)
    BY <2>1, <2>3 DEF Kept
  <2>4. ASSUME NEW s \in Runners, run'[s].at = "read", NEW t \in Mmp, run'[s].facts.remote[t] # "none"
        PROVE  remote'[t] # "none"
    BY <2>1, <2>4 DEF Kept
  <2>5. ASSUME NEW s \in Runners, run'[s].at \in {"read", "upsert", "prune", "review", "clear"}
        PROVE  run'[s].number # newest'
    BY <2>1, <2>2, <2>5 DEF Kept
  <2> QED BY <2>1, <2>3, <2>4, <2>5 DEF Kept, Sided
<1>5. ASSUME NEW r \in Runners, ReadDecided(r) PROVE Kept'
  <2>1. /\ UNCHANGED <<remote, mapping, newest>> /\ run[r].at = "read"
        /\ run'[r].at = "upsert" /\ run'[r].number = run[r].number
        /\ \A s \in Runners \ {r} : run'[s] = run[s]
        /\ \A row \in mapping : row.by # run[r].number
        /\ \A due \in run'[r].todo : Sided(due)
        /\ \A a, b \in run'[r].todo : Key(a) = Key(b) => a = b
    BY <1>5, RowsComputed DEF facts
  <2>2. ASSUME NEW s \in Runners, run'[s].at = "upsert"
        PROVE  /\ \A due \in run'[s].todo : Sided(due)
               /\ \A a, b \in run'[s].todo : Key(a) = Key(b) => a = b
               /\ \A due \in run'[s].todo, row \in mapping' :
                     row.by = run'[s].number /\ row.status \notin Human => Key(row) # Key(due)
    <3>1. CASE s = r
      BY <2>1, <3>1
    <3>2. CASE s # r
      BY <2>1, <2>2, <3>2 DEF Kept
    <3> QED BY <3>1, <3>2
  <2>3. ASSUME NEW s \in Runners, run'[s].at = "read", NEW t \in Mmp, run'[s].facts.remote[t] # "none"
        PROVE  remote'[t] # "none"
    BY <2>1, <2>3 DEF Kept
  <2>4. ASSUME NEW s \in Runners, run'[s].at \in {"read", "upsert", "prune", "review", "clear"}
        PROVE  run'[s].number # newest'
    BY <2>1, <2>4 DEF Kept
  <2> QED BY <2>1, <2>2, <2>3, <2>4 DEF Kept, Sided
<1>6. ASSUME NEW r \in Runners, UpsertMapping(r), run[r].todo # {} PROVE Kept'
  <2>1. /\ UNCHANGED <<remote, clock, newest>> /\ run[r].at = "upsert"
        /\ run[r].number \in 1 .. clock
        /\ run'[r].at = "upsert" /\ run'[r].number = run[r].number
        /\ \A s \in Runners \ {r} : run'[s] = run[s]
    BY <1>6, RowWritten DEF facts
  <2>2. PICK due \in run[r].todo, new \in MappingRows :
            UpsertWrites(r, due, new) /\ run'[r].todo = run[r].todo \ {due}
    BY <1>6, RowWritten
  <2>3. /\ Key(new) = Key(due) /\ new.at = clock /\ new.by = run[r].number
        /\ new.from = due.from /\ new.source = due.source
        /\ mapping' = {row \in mapping : Key(row) # Key(new)} \cup {new}
    BY <2>2 DEF UpsertWrites
  <2>4. Sided(new) /\ new.by <= new.at
    BY <1>0, <2>1, <2>2, <2>3 DEF Kept, Sided
  <2>5. ASSUME NEW s \in Runners, run'[s].at = "upsert"
        PROVE  /\ \A d \in run'[s].todo : Sided(d)
               /\ \A a, b \in run'[s].todo : Key(a) = Key(b) => a = b
               /\ \A d \in run'[s].todo, row \in mapping' :
                     row.by = run'[s].number /\ row.status \notin Human => Key(row) # Key(d)
    <3>1. CASE s = r
      BY <2>1, <2>2, <2>3, <3>1 DEF Kept
    <3>2. CASE s # r
      <4>1. new.by # run[s].number
        BY <1>0, <2>1, <2>3, <2>5, <3>2 DEF Busy
      <4> QED BY <2>1, <2>3, <2>5, <3>2, <4>1 DEF Kept
    <3> QED BY <3>1, <3>2
  <2>6. ASSUME NEW s \in Runners, run'[s].at = "read", NEW t \in Mmp, run'[s].facts.remote[t] # "none"
        PROVE  remote'[t] # "none"
    BY <2>1, <2>6 DEF Kept
  <2>7. ASSUME NEW s \in Runners, run'[s].at \in {"read", "upsert", "prune", "review", "clear"}
        PROVE  run'[s].number # newest'
    BY <2>1, <2>7 DEF Kept
  <2>8. \A row \in mapping' : Sided(row) /\ row.by <= row.at
    BY <2>3, <2>4 DEF Kept
  <2> QED BY <2>5, <2>6, <2>7, <2>8 DEF Kept, Sided
<1>7. ASSUME NEW r \in Runners, LaterSteps(r) PROVE Kept'
  <2>1. UNCHANGED remote /\ mapping' \subseteq mapping
    BY <1>7, LaterMoves DEF facts
  <2>2. ASSUME NEW s \in Runners, run'[s].at \in {"read", "upsert", "prune", "review", "clear"}
        PROVE  run'[s].number # newest'
    <3>1. CASE s = r
      BY <1>7, <2>2, <3>1, LaterMoves DEF Kept
    <3>2. CASE s # r
      <4>1. run'[s] = run[s] /\ run[s].number # newest /\ s \in Busy /\ r \in Busy
        BY <1>7, <2>2, <3>2, LaterMoves DEF Kept, Busy
      <4>2. run[s].number # run[r].number
        BY <1>0, <3>2, <4>1
      <4> QED BY <1>7, <4>1, <4>2, LaterMoves
    <3> QED BY <3>1, <3>2
  <2>3. \A s \in Runners :
            /\ run'[s].at = "upsert" =>
                  /\ run[s].at = "upsert" /\ run'[s].todo = run[s].todo
                  /\ run'[s].number = run[s].number
            /\ run'[s].at = "read" => run[s].at = "read" /\ run'[s].facts = run[s].facts
    BY <1>7, LaterMoves
  <2> QED BY <2>1, <2>2, <2>3, KeptWithoutWriting
<1> QED BY <1>1, <1>2, <1>3, <1>4, <1>5, <1>6, <1>7 DEF Next, Reconcile, LaterSteps

LEMMA AnswerStep == Typed /\ CreditInv /\ StaleInv /\ AnswerInv /\ [Next]_vars => AnswerInv'
<1> SUFFICES ASSUME Typed, CreditInv, StaleInv, AnswerInv, [Next]_vars PROVE AnswerInv'
  OBVIOUS
<1>0. /\ clock \in Nat /\ newest \in 0 .. clock /\ mapping \subseteq MappingRows /\ Kept /\ Kept'
      /\ \A r \in Runners : RunTyped(r)
      /\ \A r, s \in Busy : run[r].number = run[s].number => r = s
  BY KeptStep DEF Typed, TablesTyped, RunsTyped, CreditInv, RunsApart, AnswerInv
<1>1. CASE UNCHANGED vars
  BY <1>0, <1>1, NothingWritten DEF vars, facts, Finished
<1>2. CASE Sync
  <2>1. Finished' => Finished
    BY <1>2, SyncKeepsIds DEF Finished
  <2> QED BY <1>0, <1>2, <2>1, SyncKeepsIds, NothingWritten
<1>3. ASSUME NEW row \in mapping, NEW status \in Human,
             NEW target \in {row.target} \cup (IF row.from = "network" THEN Mmp ELSE Network),
             SetMappingVerification(row, status, target)
      PROVE  AnswerInv'
  <2>1. /\ UNCHANGED <<remote, shares, clock, overlap, newest>>
        /\ \A s \in Runners : run'[s].at = run[s].at /\ run'[s].todo = run[s].todo
    BY <1>3, DecisionMoves DEF facts
  <2>2. PICK new : /\ new.from = row.from /\ new.source = row.source /\ new.status \in Human
                   /\ mapping' = (mapping \ {row}) \cup {new}
    BY <1>3, DecisionMoves
  <2>3. Finished' => Finished
    BY <2>1 DEF Finished
  <2>4. \A other \in mapping : \/ other \in mapping'
                               \/ \E n \in mapping' : /\ n.status \in Human /\ n.from = other.from
                                                      /\ n.source = other.source
    BY <2>2
  <2>5. \A m \in mapping' : m.status \in Human \/ m \in mapping
    BY <2>2
  <2> QED BY <1>0, <2>1, <2>3, <2>4, <2>5, NothingWritten
<1>4. ASSUME NEW r \in Runners, StartRun(r) PROVE AnswerInv'
  <2>1. /\ run'[r].at = "read" /\ clock' = clock + 1 /\ UNCHANGED newest
        /\ \A s \in Runners \ {r} : run'[s].at = run[s].at
        /\ overlap' = overlap \cup {<<run[s].number, clock + 1>> : s \in Busy}
    BY <1>4, RunBegins
  <2>2. ASSUME Undisturbed', NEW s \in Runners, run'[s].at \notin {"idle", "read"} PROVE FALSE
    <3>1. s \in Busy
      BY <2>1, <2>2 DEF Busy
    <3>2. <<run[s].number, clock + 1>> \in overlap'
      BY <2>1, <3>1
    <3> QED BY <2>1, <2>2, <3>2 DEF Undisturbed
  <2>3. newest' # clock'
    BY <1>0, <2>1
  <2>4. AnswersWhileWriting'
    BY <2>2 DEF AnswersWhileWriting
  <2>5. AnswersOnceFinished'
    BY <2>2, <2>3 DEF AnswersOnceFinished, Finished
  <2> QED BY <1>0, <2>4, <2>5 DEF AnswerInv
<1>5. ASSUME NEW r \in Runners, ReadDecided(r) PROVE AnswerInv'
  <2>1. /\ UNCHANGED <<remote, shares, mapping, clock, overlap, newest>> /\ run[r].at = "read"
        /\ run'[r].at = "upsert" /\ run'[r].number = run[r].number
        /\ \A s \in Runners \ {r} : run'[s] = run[s]
        /\ \A row \in mapping : row.by # run[r].number
    BY <1>0, <1>5, RowsComputed DEF facts
  <2>2. PICK todo : todo = run'[r].todo
    OBVIOUS
  <2>3. \A row \in todo : MmpLink(row) =>
            \/ \E other \in todo : Answer(other, row)
            \/ Settled(row) \/ remote[row.source] # "none"
    BY <1>0, <1>5, <2>2, RowsComputed
  <2>4. ASSUME Undisturbed' PROVE \A row \in mapping : row.by # clock
    <3>1. Undisturbed /\ r \in Busy
      BY <2>1, <2>4 DEF Undisturbed, Busy
    <3> QED BY <2>1, <3>1, RunsAlone
  <2>5. ASSUME Undisturbed', NEW s \in Runners, run'[s].at = "upsert" PROVE s = r
    <3>1. Undisturbed /\ r \in Busy /\ (s # r => s \in Busy)
      BY <2>1, <2>5 DEF Undisturbed, Busy
    <3> QED BY <1>0, <3>1, RunsAlone
  <2>6. ASSUME NEW row \in todo, MmpLink(row) PROVE Answered(row, todo)'
    <3>1. (\E other \in todo : Answer(other, row)) \/ Settled(row)' \/ remote'[row.source] # "none"
      BY <2>1, <2>3, <2>6 DEF Settled
    <3> QED BY <3>1 DEF Answered, Answer
  <2>7. AnswersWhileWriting'
    <3> SUFFICES ASSUME Undisturbed', NEW s \in Runners, run'[s].at = "upsert",
                        NEW row \in run'[s].todo \cup {m \in mapping' : m.by = clock'}, MmpLink(row)
                 PROVE  Answered(row, run[s].todo)'
      BY DEF AnswersWhileWriting, MmpLink
    <3>1. s = r /\ row \in todo
      BY <2>1, <2>2, <2>4, <2>5
    <3>2. Answered(row, todo)'
      BY <2>6, <3>1
    <3> QED BY <2>2, <3>1, <3>2 DEF Answered, Answer
  <2>8. AnswersOnceFinished'
    BY <2>1, <2>4 DEF AnswersOnceFinished
  <2> QED BY <1>0, <2>7, <2>8 DEF AnswerInv
<1>6. ASSUME NEW r \in Runners, UpsertMapping(r), run[r].todo # {} PROVE AnswerInv'
  <2>1. /\ UNCHANGED <<remote, shares, clock, overlap, newest>> /\ run[r].at = "upsert"
        /\ run'[r].at = "upsert" /\ \A s \in Runners \ {r} : run'[s] = run[s]
    BY <1>6, RowWritten DEF facts
  <2>2. PICK due \in run[r].todo, new \in MappingRows :
            UpsertWrites(r, due, new) /\ run'[r].todo = run[r].todo \ {due}
    BY <1>6, RowWritten
  <2>3. /\ Key(new) = Key(due) /\ new.by = run[r].number
        /\ new.from = due.from /\ new.source = due.source /\ new.target = due.target
        /\ mapping' = {row \in mapping : Key(row) # Key(new)} \cup {new}
        /\ \A row \in mapping : Key(row) = Key(new) /\ row.status \in Human => new.status = row.status
        /\ new.status = due.status \/ new.status \in Human
    BY <2>2 DEF UpsertWrites
  <2> SUFFICES ASSUME Undisturbed' PROVE AnswersWhileWriting' /\ AnswersOnceFinished'
    BY <1>0 DEF AnswerInv, AnswersWhileWriting, AnswersOnceFinished
  <2>4. Undisturbed /\ run[r].number = clock
    <3>1. Undisturbed /\ r \in Busy
      BY <2>1 DEF Undisturbed, Busy
    <3> QED BY <3>1, RunsAlone
  <2>5. ASSUME NEW s \in Runners, run'[s].at # "idle" PROVE s = r
    <3>1. s \in Busy /\ r \in Busy
      BY <2>1, <2>5 DEF Busy
    <3> QED BY <1>0, <2>4, <3>1, RunsAlone
  <2>6. PICK todo : todo = run[r].todo
    OBVIOUS
  <2>7. ASSUME NEW row \in todo \cup {m \in mapping : m.by = clock}, MmpLink(row)
        PROVE  Answered(row, todo) /\ row.source \in Mmp
    <3>1. Answered(row, todo)
      BY <2>1, <2>4, <2>6, <2>7 DEF AnswerInv, AnswersWhileWriting
    <3> QED BY <1>0, <2>1, <2>6, <2>7, <3>1 DEF Kept, Sided, MmpLink
  <2>8. \A other \in mapping : other.by = clock \/ other.status \in Human =>
            \/ other \in mapping'
            \/ \E n \in mapping' : /\ n.status \in Human /\ n.from = other.from
                                   /\ n.source = other.source
    <3> SUFFICES ASSUME NEW other \in mapping, other.by = clock \/ other.status \in Human,
                        other \notin mapping'
                 PROVE  new.status \in Human /\ new.from = other.from /\ new.source = other.source
      BY <2>3
    <3>1. Key(other) = Key(new)
      BY <2>3
    <3>2. other.status \in Human
      BY <1>0, <2>1, <2>2, <2>3, <2>4, <3>1 DEF Kept
    <3>3. other.from = new.from /\ other.source = new.source
      BY <3>1 DEF Key
    <3> QED BY <2>3, <3>1, <3>2, <3>3
  \* What was answered stays answered, by the new row if it was by the due one.
  <2>9. ASSUME NEW row, row.source \in Mmp, Answered(row, todo)
        PROVE  Answered(row, todo \ {due})'
    <3>1. CASE Answered(row, {})
      <4>1. Answered(row, {})'
        BY <2>1, <2>8, <2>9, <3>1, StaysAnswered
      <4> QED BY <4>1 DEF Answered
    <3>2. CASE \E other \in todo \ {due} : Answer(other, row)
      BY <3>2 DEF Answered, Answer
    <3>3. CASE Answer(due, row)
      <4>1. CASE new.status \in Human
        <5>1. Settled(row)'
          BY <2>3, <3>3, <4>1 DEF Settled, Answer
        <5> QED BY <5>1 DEF Answered
      <4>2. CASE new.status = due.status
        <5>1. Answer(new, row)' /\ new \in mapping' /\ new.by = clock'
          BY <2>1, <2>3, <2>4, <3>3, <4>2 DEF Answer
        <5> QED BY <5>1 DEF Answered
      <4> QED BY <2>3, <4>1, <4>2
    <3> QED BY <2>9, <3>1, <3>2, <3>3, AnsweredBoth
  <2>10. ASSUME NEW row \in (todo \ {due}) \cup {m \in mapping' : m.by = clock}, MmpLink(row)
         PROVE  Answered(row, todo \ {due})'
    <3>1. CASE row \in todo \cup {m \in mapping : m.by = clock}
      BY <2>7, <2>9, <2>10, <3>1
    <3>2. CASE row = new
      <4>1. MmpLink(due) /\ due.source = row.source /\ due.target = row.target
        BY <2>3, <2>10, <3>2 DEF MmpLink, Human
      <4>2. Answered(due, todo) /\ due.source \in Mmp
        BY <2>2, <2>6, <2>7, <4>1
      <4>3. Answered(row, todo)
        BY <4>1, <4>2 DEF Answered, Answer, Settled
      <4> QED BY <2>9, <4>1, <4>2, <4>3
    <3> QED BY <2>3, <2>10, <3>1, <3>2
  <2>11. AnswersWhileWriting'
    <3> SUFFICES ASSUME NEW s \in Runners, run'[s].at = "upsert",
                        NEW row \in run'[s].todo \cup {m \in mapping' : m.by = clock'}, MmpLink(row)
                 PROVE  Answered(row, run[s].todo)'
      BY DEF AnswersWhileWriting, MmpLink
    <3>1. s = r /\ run'[s].todo = todo \ {due}
      BY <2>2, <2>5, <2>6
    <3>2. Answered(row, todo \ {due})'
      BY <2>1, <2>10, <3>1
    <3> QED BY <3>1, <3>2 DEF Answered, Answer
  <2>12. ~Finished'
    <3>1. newest # clock
      BY <1>0, <2>1, <2>4 DEF Kept
    <3> QED BY <2>1, <2>5, <3>1 DEF Finished
  <2> QED BY <2>11, <2>12 DEF AnswersOnceFinished
<1>7. ASSUME NEW r \in Runners, LaterSteps(r) PROVE AnswerInv'
  <2>1. UNCHANGED <<remote, shares, clock, overlap>> /\ mapping' \subseteq mapping
    BY <1>7, LaterMoves DEF facts
  <2>2. \A s \in Runners : run'[s].at = "upsert" => run[s].at = "upsert" /\ run'[s].todo = run[s].todo
    BY <1>7, LaterMoves
  <2>3. Finished' => Finished \/ \E s \in Runners : run[s].at = "upsert" /\ run[s].todo = {}
    BY <1>7, LaterMoves DEF Finished
  \* Only rows stamped before the run are pruned.
  <2>4. \A other \in mapping : other.by = clock \/ other.status \in Human => other \in mapping'
    <3>1. CASE PruneStaleMappings(r)
      <4>1. /\ mapping' = {row \in mapping : row.at >= run[r].number \/ row.status \in Human}
            /\ run[r].number \in 1 .. clock
        BY <1>0, <3>1 DEF PruneStaleMappings, RunTyped
      <4>2. \A other \in mapping : other.by <= other.at /\ other.at \in Nat
        BY <1>0 DEF Kept, MappingRows
      <4> QED BY <1>0, <4>1, <4>2
    <3>2. CASE ~PruneStaleMappings(r)
      <4>1. mapping' = mapping
        BY <1>7, <3>2 DEF LaterSteps, UpsertMapping, ReviewCoverage, ClearFindings, RecordFindings,
                          Interrupt
      <4> QED BY <4>1
    <3> QED BY <3>1, <3>2
  <2> QED BY <1>0, <2>1, <2>2, <2>3, <2>4, NothingWritten
<1> QED BY <1>1, <1>2, <1>3, <1>4, <1>5, <1>6, <1>7 DEF Next, Reconcile, LaterSteps

LEMMA AnswerAlways == Spec => [](Typed /\ AnswerInv)
<1>1. Init => AnswerInv
  BY DEF Init, AnswerInv, Kept, AnswersWhileWriting, AnswersOnceFinished, Idle
<1> QED BY <1>1, StaysTyped, StaysCredited, StaysOverlapped, AnswerStep, PTL DEF Spec

\* An MMP campaign that only its own side links was refused by the other side
\* for a reason, after a run that nothing overlapped, whatever syncs and people
\* have changed since.
THEOREM OneSidedContested == Spec => []OneSidedIsContested
BY AnswerAlways, StaysCredited, StaysOverlapped, AnswerInvIsEnough, PTL

(***************************************************************************)
(* Spend and installs, summed over rows.                                   *)
(***************************************************************************)

SpendAt == [p \in DOMAIN Delivered |-> Delivered[p].spend]
InstallsAt == [p \in DOMAIN Attributed |-> Attributed[p].installs]

\* There are finitely many rows of either kind.
LEMMA FiniteRows == IsFiniteSet(DOMAIN Delivered) /\ IsFiniteSet(DOMAIN Attributed)
<1>1. IsFiniteSet(Network \X Countries) /\ IsFiniteSet(Mmp \X Countries)
  BY FS_Product, ReconciliationAssumption, FiguresAssumption
<1> QED BY <1>1, FS_Subset, FiguresAssumption

\* What some rows spent is a natural number, and the sum of what two parts of
\* them did.
LEMMA SpentInParts ==
    ASSUME NEW rows \in SUBSET DOMAIN Delivered, NEW part \in SUBSET rows
    PROVE  /\ Spent(rows) \in Nat /\ Spent(part) \in Nat /\ Spent(rows \ part) \in Nat
           /\ Spent(rows) = Spent(part) + Spent(rows \ part)
<1>1. ASSUME NEW some \in SUBSET rows
      PROVE  Spent(some) = SumFunctionOnSet(SpendAt, some) /\ Spent(some) \in Nat
  <2>1. IsFiniteSet(some)
    BY FiniteRows, FS_Subset
  <2>2. \A p \in some : SpendAt[p] = Delivered[p].spend /\ SpendAt[p] \in Nat
    BY FiguresAssumption DEF SpendAt
  <2>3. [p \in some |-> Delivered[p].spend] = [p \in some |-> SpendAt[p]]
    BY <2>2
  <2>4. Spent(some) = SumFunctionOnSet(SpendAt, some)
    BY <2>1, <2>3, SumIsOfSet DEF Spent
  <2> QED BY <2>1, <2>2, <2>4, SumIsNat
<1>2. IsFiniteSet(rows) /\ \A p \in rows : SpendAt[p] \in Int
  BY FiniteRows, FS_Subset, FiguresAssumption DEF SpendAt
<1>3. SumFunctionOnSet(SpendAt, rows)
      = SumFunctionOnSet(SpendAt, part) + SumFunctionOnSet(SpendAt, rows \ part)
  BY <1>2, SumOfParts
<1> QED BY <1>1, <1>3

\* Rows that spent nothing add nothing.
LEMMA NothingSpent ==
    ASSUME NEW rows \in SUBSET DOMAIN Delivered, \A p \in rows : Delivered[p].spend = 0
    PROVE  Spent(rows) = 0
<1>1. IsFiniteSet(rows)
  BY FiniteRows, FS_Subset
<1> DEFINE f == [p \in rows |-> Delivered[p].spend]
<1>2. Spent(rows) = SumFunctionOnSet(f, rows)
  BY DEF Spent, SumFunction
<1>3. \A p \in rows : f[p] = 0
  OBVIOUS
<1> HIDE DEF f
<1> QED BY <1>1, <1>2, <1>3, SumOfZeros

\* The same of installs, which also count what each row counts.
LEMMA InstalledInParts ==
    ASSUME NEW rows \in SUBSET DOMAIN Attributed, NEW part \in SUBSET rows
    PROVE  /\ Installed(rows) \in Nat /\ Installed(part) \in Nat /\ Installed(rows \ part) \in Nat
           /\ Installed(rows) = Installed(part) + Installed(rows \ part)
           /\ Installed(rows) = SumFunctionOnSet(InstallsAt, rows)
           /\ \A p \in rows : Attributed[p].installs <= Installed(rows)
<1>1. ASSUME NEW some \in SUBSET rows
      PROVE  /\ Installed(some) = SumFunctionOnSet(InstallsAt, some) /\ Installed(some) \in Nat
             /\ \A p \in some : Attributed[p].installs <= Installed(some)
  <2>1. IsFiniteSet(some)
    BY FiniteRows, FS_Subset
  <2>2. \A p \in some : InstallsAt[p] = Attributed[p].installs /\ InstallsAt[p] \in Nat
    BY FiguresAssumption DEF InstallsAt
  <2>3. [p \in some |-> Attributed[p].installs] = [p \in some |-> InstallsAt[p]]
    BY <2>2
  <2>4. Installed(some) = SumFunctionOnSet(InstallsAt, some)
    BY <2>1, <2>3, SumIsOfSet DEF Installed
  <2>5. /\ SumFunctionOnSet(InstallsAt, some) \in Nat
        /\ \A p \in some : InstallsAt[p] <= SumFunctionOnSet(InstallsAt, some)
    BY <2>1, <2>2, SumIsNat
  <2> QED BY <2>2, <2>4, <2>5
<1>2. IsFiniteSet(rows) /\ \A p \in rows : InstallsAt[p] \in Int
  BY FiniteRows, FS_Subset, FiguresAssumption DEF InstallsAt
<1>3. SumFunctionOnSet(InstallsAt, rows)
      = SumFunctionOnSet(InstallsAt, part) + SumFunctionOnSet(InstallsAt, rows \ part)
  BY <1>2, SumOfParts
<1> QED BY <1>1, <1>3

LEMMA NothingInstalled ==
    ASSUME NEW rows \in SUBSET DOMAIN Attributed, \A p \in rows : Attributed[p].installs = 0
    PROVE  Installed(rows) = 0
<1>1. IsFiniteSet(rows)
  BY FiniteRows, FS_Subset
<1> DEFINE f == [p \in rows |-> Attributed[p].installs]
<1>2. Installed(rows) = SumFunctionOnSet(f, rows)
  BY DEF Installed, SumFunction
<1>3. \A p \in rows : f[p] = 0
  OBVIOUS
<1> HIDE DEF f
<1> QED BY <1>1, <1>2, <1>3, SumOfZeros

(***************************************************************************)
(* The populations of cards, coverage and gaps.                            *)
(***************************************************************************)

\* A campaign coverage calls mapped is one the cards call linked, and some row
\* of its own is established.
LEMMA MappedIsLinked ==
    ASSUME NEW m
    PROVE  /\ CampaignState(m) = "mapped" <=> m \in LinkedNetwork
           /\ m \in LinkedNetwork => \E row \in RowsOf(m) : Established(row)
<1>1. m \in LinkedNetwork <=>
          \E row \in mapping : row.from = "network" /\ row.source = m /\ Operational(row)
  <2>1. ASSUME NEW row \in mapping, row.from = "network", row.source = m, Operational(row)
        PROVE  m \in LinkedNetwork
    <3>1. Link(row) \in Links /\ Link(row)[1] = m
      BY <2>1 DEF Links, Link
    <3> QED BY <3>1 DEF LinkedNetwork
  <2> QED BY <2>1 DEF LinkedNetwork, Links, Link
<1>2. \A row : Operational(row) => Established(row)
  BY DEF Operational, Established, Authoritative
<1> QED BY <1>1, <1>2 DEF CampaignState, RowsOf

\* Installs coverage calls mapped are of campaigns the cards call linked, or of
\* one-sided ones; what the gaps leave out is linked.
LEMMA MappedOrOneSided ==
    ASSUME NEW t \in Mmp \ Organic
    PROVE  InstallState(t) = "mapped" <=> t \in LinkedMmp \cup OneSided
<1>1. t \in LinkedMmp <=>
          \E row \in mapping : row.from = "network" /\ Operational(row) /\ row.target = t
  <2>1. ASSUME NEW row \in mapping, row.from = "network", Operational(row), row.target = t
        PROVE  t \in LinkedMmp
    <3>1. Link(row) \in Links /\ Link(row)[2] = t
      BY <2>1 DEF Links, Link
    <3> QED BY <3>1 DEF LinkedMmp
  <2> QED BY <2>1 DEF LinkedMmp, Links, Link
<1>2. t \in LinkedMmp => InstallState(t) = "mapped"
  BY <1>1 DEF InstallState, Link
<1> QED BY <1>2 DEF OneSided

LEMMA OneSidedApart ==
    ASSUME NEW all \in SUBSET DOMAIN Attributed
    PROVE  LET paid == NotOrganic(all)
           IN  Installed({p \in paid : p[1] \in LinkedMmp \cup OneSided})
               - Installed({p \in paid : p[1] \in LinkedMmp})
               = Installed({p \in all : p[1] \in OneSided})
<1> DEFINE paid == NotOrganic(all)
           both == {p \in paid : p[1] \in LinkedMmp \cup OneSided}
           linked == {p \in paid : p[1] \in LinkedMmp}
           sided == {p \in all : p[1] \in OneSided}
<1>1. \A t \in OneSided : t \notin Organic /\ t \notin LinkedMmp
  BY DEF OneSided, InstallState
<1>2. both \ linked = sided
  BY <1>1 DEF NotOrganic
<1>3. both \in SUBSET DOMAIN Attributed /\ linked \in SUBSET both
  BY DEF NotOrganic
<1> HIDE DEF both, linked, sided
<1>4. /\ Installed(both) = Installed(linked) + Installed(both \ linked)
      /\ Installed(linked) \in Nat /\ Installed(both \ linked) \in Nat
  BY <1>3, InstalledInParts
<1>5. /\ Installed(both) = Installed(linked) + Installed(sided)
      /\ Installed(linked) \in Nat /\ Installed(sided) \in Nat
  BY <1>2, <1>4, Zenon
<1>6. Installed(both) - Installed(linked) = Installed(sided)
  BY <1>5
<1> QED BY <1>6 DEF both, linked, sided

\* What the cards count of a filter without channel and account is what coverage
\* counts of its slice: spend, spend of linked campaigns, paid installs.
LEMMA CardsAreCoverage ==
    ASSUME Typed, NEW f \in Filters
    PROVE  LET coverage == EligibleCoverage(f.countries)
               rows == DeliveryRows(f.countries)
               paid == NotOrganic(AttributionRows(f.countries))
           IN  /\ rows \in SUBSET DOMAIN Delivered /\ paid \in SUBSET DOMAIN Attributed
               /\ coverage.spend = Spent(rows)
               /\ coverage.mappedSpend = Spent({p \in rows : p[1] \in LinkedNetwork})
               /\ coverage.paid = Installed(paid)
               /\ coverage.mapped = Installed({p \in paid : p[1] \in LinkedMmp \cup OneSided})
<1> DEFINE coverage == EligibleCoverage(f.countries)
           rows == DeliveryRows(f.countries)
           paid == NotOrganic(AttributionRows(f.countries))
           did == {p \in rows : DidDeliver(p)}
           linked == {p \in rows : p[1] \in LinkedNetwork}
<1>1. rows \in SUBSET DOMAIN Delivered /\ paid \in SUBSET DOMAIN Attributed
  BY DEF DeliveryRows, NotOrganic, AttributionRows
<1>2. ASSUME NEW some \in SUBSET rows PROVE Spent(some) = Spent({p \in some : DidDeliver(p)})
  <2> DEFINE part == {p \in some : DidDeliver(p)}
  <2>1. some \in SUBSET DOMAIN Delivered /\ part \in SUBSET some
    BY <1>1
  <2>2. \A p \in some \ part : Delivered[p].spend = 0
    BY <2>1, FiguresAssumption DEF DidDeliver
  <2>3. some \ part \in SUBSET DOMAIN Delivered
    BY <2>1
  <2> HIDE DEF part
  <2>4. Spent(some \ part) = 0
    BY <2>2, <2>3, NothingSpent
  <2>5. Spent(some) = Spent(part) + Spent(some \ part) /\ Spent(part) \in Nat
    BY <2>1, SpentInParts
  <2>6. Spent(some) = Spent(part)
    BY <2>4, <2>5
  <2> QED BY <2>6 DEF part
<1>3. coverage.spend = Spent(rows)
  BY <1>2 DEF EligibleCoverage
<1>4. coverage.mappedSpend = Spent(linked)
  <2>1. coverage.mappedSpend = Spent({p \in did : CampaignState(p[1]) = "mapped"})
    BY DEF EligibleCoverage
  <2>2. {p \in did : CampaignState(p[1]) = "mapped"} = {p \in linked : DidDeliver(p)}
    BY MappedIsLinked
  <2>3. Spent(linked) = Spent({p \in linked : DidDeliver(p)})
    BY <1>2
  <2> QED BY <2>1, <2>2, <2>3
<1>5. coverage.paid = Installed(paid)
  BY DEF EligibleCoverage
<1>6. coverage.mapped = Installed({p \in paid : p[1] \in LinkedMmp \cup OneSided})
  <2>1. coverage.mapped = Installed({p \in paid : InstallState(p[1]) = "mapped"})
    BY DEF EligibleCoverage
  <2>2. \A p \in paid : p[1] \in Mmp \ Organic
    BY FiguresAssumption DEF NotOrganic, AttributionRows
  <2>3. {p \in paid : InstallState(p[1]) = "mapped"} = {p \in paid : p[1] \in LinkedMmp \cup OneSided}
    BY <2>2, MappedOrOneSided
  <2> QED BY <2>1, <2>3
<1> QED BY <1>1, <1>3, <1>4, <1>5, <1>6

\* Each linked MMP campaign is credited to one campaign of the network.
LEMMA CreditedToOne ==
    ASSUME Typed, AnswerInv, NEW t \in LinkedMmp
    PROVE  CreditedTo(t) \in Network
<1> DEFINE links == {row \in mapping : row.from = "network" /\ Operational(row) /\ row.target = t}
<1>1. links # {}
  BY DEF LinkedMmp, Links, Link
<1>2. \A row \in links : row.status \in Computed \cup Human /\ row.source \in Network
  BY DEF Typed, TablesTyped, MappingRows, AnswerInv, Kept, Sided
<1>3. BestOf(links) \in links
  <2> HIDE DEF links
  <2> QED BY <1>1, <1>2, SomeRowIsBest
<1> QED BY <1>2, <1>3 DEF CreditedTo

LEMMA CardsOfCoverage == Typed /\ AnswerInv => CardsAgree
<1> SUFFICES ASSUME Typed, AnswerInv, NEW f \in Filters, f.channel = None, f.account = None
             PROVE  LET cards == LoadMarketing(f)
                        installs == LoadInstalls(f)
                        coverage == EligibleCoverage(f.countries)
                        chart == Chart(f)
                    IN  /\ cards.spend = coverage.spend /\ cards.mappedSpend = coverage.mappedSpend
                        /\ cards.spend = chart.spend
                        /\ installs.paid + installs.organic = chart.installs
                        /\ installs.paid = coverage.paid
                        /\ coverage.mapped - installs.mapped = InstalledBy(OneSided, f.countries)
                        /\ f.countries = Countries =>
                              installs.mapped = SumFunction([m \in Network |-> DecisionInstalls(m)])
  BY DEF CardsAgree
<1> DEFINE cards == LoadMarketing(f)
           installs == LoadInstalls(f)
           coverage == EligibleCoverage(f.countries)
           chart == Chart(f)
           rows == DeliveryRows(f.countries)
           all == AttributionRows(f.countries)
           paid == NotOrganic(all)
           linked == {p \in paid : p[1] \in LinkedMmp}
<1>1. /\ rows \in SUBSET DOMAIN Delivered /\ all \in SUBSET DOMAIN Attributed
      /\ paid \in SUBSET all /\ linked \in SUBSET paid
  BY DEF DeliveryRows, AttributionRows, NotOrganic
<1>2. /\ coverage.spend = Spent(rows)
      /\ coverage.mappedSpend = Spent({p \in rows : p[1] \in LinkedNetwork})
      /\ coverage.paid = Installed(paid)
      /\ coverage.mapped = Installed({p \in paid : p[1] \in LinkedMmp \cup OneSided})
  BY CardsAreCoverage
<1>3. /\ cards.spend = Spent(rows) /\ chart.spend = Spent(rows)
      /\ cards.mappedSpend = Spent({p \in rows : p[1] \in LinkedNetwork})
  <2>1. {p \in rows : /\ f.channel \in {None, "network"}
                      /\ f.account \in {None, AccountOf[p[1]]}} = rows
    OBVIOUS
  <2>2. {p \in rows : f.account \in {None, AccountOf[p[1]]}} = rows
    OBVIOUS
  <2> QED BY <2>1, <2>2 DEF LoadMarketing, Chart
<1>4. Admitted(f) = all
  BY DEF Admitted, None
<1>5. /\ installs.paid = Installed(paid) /\ installs.organic = Installed(all \ paid)
      /\ installs.mapped = Installed(linked) /\ chart.installs = Installed(all)
  BY <1>4 DEF LoadInstalls, Chart
<1>6. installs.paid + installs.organic = chart.installs
  BY <1>1, <1>5, InstalledInParts
<1>7. coverage.mapped - installs.mapped = InstalledBy(OneSided, f.countries)
  BY <1>1, <1>2, <1>5, OneSidedApart DEF InstalledBy
<1>8. ASSUME f.countries = Countries
      PROVE  installs.mapped = SumFunction([m \in Network |-> DecisionInstalls(m)])
  <2> DEFINE credit == [p \in linked |-> CreditedTo(p[1])]
             of(m) == {p \in linked : credit[p] = m}
  <2>1. ASSUME NEW m \in Network PROVE DecisionInstalls(m) = SumFunctionOnSet(InstallsAt, of(m))
    <3>1. of(m) = {p \in NotOrganic(AttributionRows(Countries)) :
                      p[1] \in LinkedMmp /\ CreditedTo(p[1]) = m}
      BY <1>8
    <3>2. of(m) \in SUBSET DOMAIN Attributed
      BY <1>1
    <3> HIDE DEF of
    <3> QED BY <3>1, <3>2, InstalledInParts DEF DecisionInstalls
  <2>2. /\ IsFiniteSet(linked) /\ \A p \in linked : InstallsAt[p] \in Int
        /\ IsFiniteSet(Network) /\ \A p \in linked : credit[p] \in Network
    <3>1. linked \in SUBSET DOMAIN Attributed
      BY <1>1
    <3>2. \A p \in linked : p[1] \in LinkedMmp
      OBVIOUS
    <3>3. \A p \in linked : credit[p] \in Network
      BY <3>2, CreditedToOne
    <3>4. IsFiniteSet(Network)
      BY ReconciliationAssumption
    <3> HIDE DEF linked, credit
    <3>5. IsFiniteSet(linked)
      BY <3>1, FiniteRows, FS_Subset
    <3>6. \A p \in linked : InstallsAt[p] \in Int
      BY <3>1, FiguresAssumption DEF InstallsAt
    <3> QED BY <3>3, <3>4, <3>5, <3>6
  <2> HIDE DEF linked, credit
  <2>3. SumFunction([m \in Network |-> SumFunctionOnSet(InstallsAt, of(m))])
        = SumFunctionOnSet(InstallsAt, linked)
    BY <2>2, SumOfGroups
  <2>4. [m \in Network |-> SumFunctionOnSet(InstallsAt, of(m))]
        = [m \in Network |-> DecisionInstalls(m)]
    BY <2>1
  <2>5. Installed(linked) = SumFunctionOnSet(InstallsAt, linked)
    BY <1>1, InstalledInParts
  <2> HIDE DEF of
  <2> QED BY <1>5, <2>3, <2>4, <2>5
<1> QED BY <1>2, <1>3, <1>5, <1>6, <1>7, <1>8

\* Cards, coverage, chart and decisions agree on the spend and the installs of
\* a slice, but for the installs of campaigns linked from the MMP's side alone,
\* whatever runs, syncs and decisions have made of the rows.
THEOREM CardsAlwaysAgree == Spec => []CardsAgree
BY AnswerAlways, CardsOfCoverage, PTL

(***************************************************************************)
(* The list of gaps.                                                       *)
(***************************************************************************)

LEMMA GapsOfCoverage == Typed => GapsAreNamed
<1> SUFFICES ASSUME Typed, NEW f \in Filters
             PROVE  LET countries == f.countries
                        coverage == EligibleCoverage(countries)
                        targetless == {m \in Network : /\ CampaignState(m) # "mapped"
                                                       /\ \E row \in RowsOf(m) : Established(row)}
                        of(campaigns) == Spent({p \in DeliveryRows(countries) : p[1] \in campaigns})
                    IN  /\ of(DeliveryGaps(countries)) + of(targetless)
                           = coverage.spend - coverage.mappedSpend
                        /\ InstalledBy(InstallGaps(countries) \ Organic, countries)
                           = coverage.paid - coverage.mapped + InstalledBy(OneSided, countries)
  BY DEF GapsAreNamed
<1> DEFINE countries == f.countries
           coverage == EligibleCoverage(countries)
           rows == DeliveryRows(countries)
           all == AttributionRows(countries)
           paid == NotOrganic(all)
<1>1. /\ rows \in SUBSET DOMAIN Delivered /\ all \in SUBSET DOMAIN Attributed
      /\ paid \in SUBSET all /\ \A p \in rows : p[1] \in Network
      /\ \A p \in all : p[1] \in Mmp
  BY FiguresAssumption DEF DeliveryRows, AttributionRows, NotOrganic
<1>2. /\ coverage.spend = Spent(rows)
      /\ coverage.mappedSpend = Spent({p \in rows : p[1] \in LinkedNetwork})
      /\ coverage.paid = Installed(paid)
      /\ coverage.mapped = Installed({p \in paid : p[1] \in LinkedMmp \cup OneSided})
  BY CardsAreCoverage
\* Spend: of linked campaigns, of targetless ones, and of those without any
\* established row, which the list names as far as they spent.
<1>3. Spent({p \in rows : p[1] \in DeliveryGaps(countries)})
      + Spent({p \in rows : /\ p[1] \in Network /\ CampaignState(p[1]) # "mapped"
                            /\ \E row \in RowsOf(p[1]) : Established(row)})
      = coverage.spend - coverage.mappedSpend
  <2> DEFINE linked == {p \in rows : p[1] \in LinkedNetwork}
             other == rows \ linked
             loose == {p \in rows : /\ p[1] \in Network /\ CampaignState(p[1]) # "mapped"
                                    /\ \E row \in RowsOf(p[1]) : Established(row)}
             bare == {p \in rows : \A row \in RowsOf(p[1]) : ~Established(row)}
             named == {p \in rows : p[1] \in DeliveryGaps(countries)}
  <2>1. /\ linked \in SUBSET rows /\ other \in SUBSET rows
        /\ loose \in SUBSET other /\ other \ loose = bare
    BY <1>1, MappedIsLinked
  <2>2. named \in SUBSET bare /\ \A p \in bare \ named : ~(Delivered[p].spend > 0)
    BY DEF DeliveryGaps
  <2>3. bare \in SUBSET DOMAIN Delivered /\ other \in SUBSET DOMAIN Delivered
    BY <1>1
  <2> HIDE DEF linked, loose, bare, named
  <2>4. /\ Spent(rows) = Spent(linked) + Spent(other)
        /\ Spent(linked) \in Nat /\ Spent(other) \in Nat
    BY <1>1, <2>1, SpentInParts
  <2> HIDE DEF other
  <2>5. Spent(other) = Spent(loose) + Spent(bare) /\ Spent(loose) \in Nat /\ Spent(bare) \in Nat
    BY <2>1, <2>3, SpentInParts
  <2>6. Spent(bare) = Spent(named)
    <3>1. Spent(bare) = Spent(named) + Spent(bare \ named) /\ Spent(named) \in Nat
      BY <2>2, <2>3, SpentInParts
    <3>2. \A p \in bare \ named : Delivered[p].spend = 0
      BY <2>2, <2>3, FiguresAssumption
    <3>3. Spent(bare \ named) = 0
      BY <2>3, <3>2, NothingSpent
    <3> QED BY <3>1, <3>3
  <2>7. Spent(named) + Spent(loose) = Spent(rows) - Spent(linked)
    BY <2>4, <2>5, <2>6
  <2> QED BY <1>2, <2>7 DEF linked, loose, named
\* Installs: of linked campaigns, and of those the list names.
<1>4. InstalledBy(InstallGaps(countries) \ Organic, countries)
      = coverage.paid - coverage.mapped + InstalledBy(OneSided, countries)
  <2> DEFINE linked == {p \in paid : p[1] \in LinkedMmp}
             other == paid \ linked
             both == {p \in paid : p[1] \in LinkedMmp \cup OneSided}
             named == {p \in all : p[1] \in InstallGaps(countries) \ Organic}
             targets == {row.target : row \in {r \in mapping : r.from = "network" /\ Established(r)}}
  <2>1. ASSUME NEW t \in Mmp PROVE t \in targets <=> t \in LinkedMmp
    <3>1. t # "none"
      BY ReconciliationAssumption
    <3>2. \A row : row.target = t => (Established(row) <=> Operational(row))
      BY <3>1 DEF Established, Authoritative, Operational
    <3>3. ASSUME NEW row \in mapping, row.from = "network", Operational(row), row.target = t
          PROVE  t \in LinkedMmp
      <4>1. Link(row) \in Links /\ Link(row)[2] = t
        BY <3>3 DEF Links, Link
      <4> QED BY <4>1 DEF LinkedMmp
    <3>4. t \in LinkedMmp =>
              \E row \in mapping : row.from = "network" /\ Operational(row) /\ row.target = t
      BY DEF LinkedMmp, Links, Link
    <3> QED BY <3>2, <3>3, <3>4
  <2>2. named \in SUBSET other
    <3>1. \A t \in InstallGaps(countries) : t \notin targets
      BY DEF InstallGaps
    <3> HIDE DEF targets
    <3> QED BY <1>1, <2>1, <3>1 DEF NotOrganic
  <2>3. ASSUME NEW p \in other \ named PROVE ~(Attributed[p].installs > 0)
    <3>1. p \in all /\ p[1] \notin Organic /\ p[1] \notin targets /\ p[1] \notin InstallGaps(countries)
      BY <1>1, <2>1, <2>3 DEF NotOrganic
    <3> QED BY <3>1 DEF InstallGaps
  <2>4. linked \in SUBSET paid /\ other \in SUBSET DOMAIN Attributed
    BY <1>1
  <2>5. Installed(both) - Installed(linked) = InstalledBy(OneSided, countries)
    BY <1>1, OneSidedApart DEF InstalledBy
  <2>6. both \in SUBSET DOMAIN Attributed
    BY <1>1
  <2> HIDE DEF linked, both, named
  <2>7. /\ Installed(paid) = Installed(linked) + Installed(other)
        /\ Installed(paid) \in Nat /\ Installed(linked) \in Nat /\ Installed(other) \in Nat
        /\ Installed(both) \in Nat
    BY <1>1, <2>4, <2>6, InstalledInParts
  <2> HIDE DEF other
  <2>8. Installed(other) = Installed(named)
    <3>1. Installed(other) = Installed(named) + Installed(other \ named) /\ Installed(named) \in Nat
      BY <2>2, <2>4, InstalledInParts
    <3>2. \A p \in other \ named : Attributed[p].installs = 0
      BY <2>3, <2>4, FiguresAssumption
    <3>3. Installed(other \ named) = 0
      BY <2>4, <3>2, NothingInstalled
    <3> QED BY <3>1, <3>3
  <2>9. Installed(named) = Installed(paid) - Installed(both) + (Installed(both) - Installed(linked))
    BY <2>7, <2>8
  <2> QED BY <1>2, <2>5, <2>9 DEF InstalledBy, both, named
<1> DEFINE targetless == {m \in Network : /\ CampaignState(m) # "mapped"
                                          /\ \E row \in RowsOf(m) : Established(row)}
<1>5. {p \in rows : p[1] \in targetless}
      = {p \in rows : /\ p[1] \in Network /\ CampaignState(p[1]) # "mapped"
                      /\ \E row \in RowsOf(p[1]) : Established(row)}
  OBVIOUS
<1> QED BY <1>3, <1>4, <1>5

\* The list beside the coverage names the campaigns behind what it misses.
THEOREM GapsAlwaysNamed == Spec => []GapsAreNamed
BY StaysTyped, GapsOfCoverage, PTL

(***************************************************************************)
(* The cost per install.                                                   *)
(***************************************************************************)

Cpi == Metric("mapped_cpi", "efficiency", "currency", "operational",
              {"marketing", "attribution", "mapping"}, {"cost_data", "attributed_installs"},
              MinimumInstalls, 24)

LEMMA CpiIsMapped == (CHOOSE d \in MappedMetrics : d.key = "mapped_cpi") = Cpi
<1>1. Cpi \in MappedMetrics /\ Cpi.key = "mapped_cpi"
  BY DEF Cpi, MappedMetrics, Metric
<1>2. \A d \in MappedMetrics : d.key = "mapped_cpi" => d = Cpi
  BY DEF Cpi, MappedMetrics, Metric
<1> QED BY <1>1, <1>2

\* What an open gate says of both streams and of the spend that is mapped.
LEMMA OpenGate ==
    ASSUME NEW context, Availability(Cpi, context) = "available"
    PROVE  /\ Streams \subseteq context.bound
           /\ {"cost_data", "attributed_installs"} \subseteq context.supports
           /\ \A s \in Streams : /\ context.status[s] \notin {"stale", "error", "delayed"}
                                 /\ ~(context.hours[s] > 24)
           /\ ~(100 * context.mapped < 80 * context.total)
           /\ ~(100 * context.ambiguous > 10 * context.total)
<1>1. Cpi.sources \cap Streams = Streams /\ Streams \subseteq Cpi.sources
  BY DEF Cpi, Metric, Streams
<1>2. /\ Cpi.needs = {"cost_data", "attributed_installs"} /\ Cpi.hours = 24
      /\ Cpi.class = "operational"
  BY DEF Cpi, Metric
<1> DEFINE are(statuses) == \E s \in Streams : context.status[s] \in statuses
           qualified == \/ 100 * context.mapped < 80 * context.total
                        \/ 100 * context.ambiguous > 10 * context.total
<1>3. Availability(Cpi, context)
      = IF ~(Streams \subseteq context.bound)
           \/ ~({"cost_data", "attributed_installs"} \subseteq context.supports)
        THEN "unavailable"
        ELSE IF are({"stale", "error"}) \/ \E s \in Streams : context.hours[s] > 24 THEN "stale"
        ELSE IF are({"delayed"}) \/ qualified THEN "partial" ELSE "available"
  BY <1>1, <1>2 DEF Availability, MinimumSpendCoveragePct, MaximumAmbiguousSpendPct
<1>4. /\ Streams \subseteq context.bound
      /\ {"cost_data", "attributed_installs"} \subseteq context.supports
      /\ ~are({"stale", "error"}) /\ ~(\E s \in Streams : context.hours[s] > 24)
      /\ ~are({"delayed"}) /\ ~qualified
  <2> HIDE DEF are, qualified
  <2> QED BY <1>3
<1> QED BY <1>4

\* A figure shown without a caveat has passed every one of the questions asked.
LEMMA ShownCpi ==
    ASSUME NEW f, NEW stream, Value(Cpi, f, stream).availability = "available"
    PROVE  LET cpi == Value(Cpi, f, stream)
               installs == LoadInstalls(f)
           IN  /\ Availability(Cpi, ContextOf(f, stream)) = "available"
               /\ cpi.numerator = LoadMarketing(f).mappedSpend
               /\ cpi.denominator = installs.aligned
               /\ HasRatio(installs.aligned, MinimumInstalls)
               /\ ~(installs.paid > installs.mapped) /\ ~(installs.mapped > installs.aligned)
<1> DEFINE gate == Availability(Cpi, ContextOf(f, stream))
           sums == Sums(Cpi, f)
           ratio == Ratio(Cpi, f, stream)
           mixed == Cpi.unit = "currency" /\ Cardinality(CurrenciesOf(Cpi, f)) > 1
           left == Caveat(Cpi.key, LoadInstalls(f), EligibleCoverage(SliceOf(f, stream)))
<1>1. Cpi.key = "mapped_cpi" /\ Cpi.family = "efficiency" /\ Cpi.floor = MinimumInstalls
  BY DEF Cpi, Metric
<1>2. Cpi.key \notin DOMAIN sums
  <2>1. sums = <<>>
    BY <1>1 DEF Sums
  <2>2. DOMAIN sums = {}
    BY <2>1
  <2> QED BY <2>2
<1>3. ratio = <<LoadMarketing(f).mappedSpend, LoadInstalls(f).aligned>>
  <2>1. ratio = CostRatios(LoadMarketing(f), LoadInstalls(f))["mapped_cpi"]
    BY <1>1 DEF Ratio
  <2> QED BY <2>1 DEF CostRatios
<1>4. left <=> \/ LoadInstalls(f).paid > LoadInstalls(f).mapped
               \/ LoadInstalls(f).mapped > LoadInstalls(f).aligned
  BY <1>1 DEF Caveat
<1>5. Value(Cpi, f, stream)
      = IF gate = "unavailable" THEN Figure(gate, 0, 0)
        ELSE IF mixed THEN Figure("blocked", 0, 0)
        ELSE IF Cpi.key \in DOMAIN sums
        THEN Figure(IF sums[Cpi.key] = NotReported THEN "unavailable" ELSE gate, sums[Cpi.key], 0)
        ELSE Figure(IF ~HasRatio(ratio[2], Cpi.floor) THEN "unavailable"
                    ELSE IF gate = "available" /\ left THEN "partial" ELSE gate, ratio[1], ratio[2])
  BY DEF Value
<1> HIDE DEF gate, sums, ratio, mixed, left
<1>6. /\ gate = "available" /\ HasRatio(ratio[2], Cpi.floor) /\ ~left
      /\ Value(Cpi, f, stream) = Figure(gate, ratio[1], ratio[2])
  BY <1>2, <1>5 DEF Figure
<1> QED BY <1>1, <1>3, <1>4, <1>6 DEF Figure, gate

\* What links a slice's installs to what delivered in it, links them.
LEMMA AlignedIsLinked == \A countries : AlignedMmp(countries) \subseteq LinkedMmp
BY DEF AlignedMmp, LinkedMmp

\* A cost per install without a caveat is of a filter that admits paid traffic,
\* and every install it leaves out is of a row without any.
LEMMA NothingLeftOut ==
    ASSUME Typed, NEW f \in Filters, HasRatio(LoadInstalls(f).aligned, MinimumInstalls),
           ~(LoadInstalls(f).paid > LoadInstalls(f).mapped),
           ~(LoadInstalls(f).mapped > LoadInstalls(f).aligned)
    PROVE  LET paid == NotOrganic(AttributionRows(f.countries))
               installs == LoadInstalls(f)
           IN  /\ f.channel \in {None, "network"} /\ paid \in SUBSET DOMAIN Attributed
               /\ installs.aligned \in Nat /\ installs.aligned >= MinimumInstalls
               /\ installs.paid = installs.aligned /\ installs.mapped = installs.aligned
               /\ installs.paid = Installed(paid)
               /\ \A p \in paid : p[1] \notin AlignedMmp(f.countries) => Attributed[p].installs = 0
<1> DEFINE all == AttributionRows(f.countries)
           paid == NotOrganic(Admitted(f))
           installs == LoadInstalls(f)
           linked == {p \in paid : p[1] \in LinkedMmp}
           aligned == {p \in paid : p[1] \in AlignedMmp(f.countries)}
<1>1. /\ installs.paid = Installed(paid) /\ installs.mapped = Installed(linked)
      /\ installs.aligned = Installed(aligned)
  BY DEF LoadInstalls
<1>2. paid \in SUBSET DOMAIN Attributed /\ linked \in SUBSET paid /\ aligned \in SUBSET linked
  BY AlignedIsLinked DEF NotOrganic, Admitted, AttributionRows
<1>3. f.channel \in {None, "network"}
  <2>1. CASE f.channel \in {"organic", "other"}
    <3>1. paid = {}
      BY <2>1 DEF NotOrganic, Admitted, None
    <3>2. aligned = {} /\ {} \in SUBSET DOMAIN Attributed /\ \A p \in {} : Attributed[p].installs = 0
      BY <3>1
    <3>3. installs.aligned = 0
      BY <1>1, <3>2, NothingInstalled
    <3> QED BY <3>3 DEF HasRatio
  <2> QED BY <2>1, FiguresAssumption
<1>4. paid = NotOrganic(all)
  BY <1>3 DEF Admitted, None, NotOrganic
<1> HIDE DEF paid, installs, linked, aligned
<1>5. Installed(paid) = Installed(linked) + Installed(paid \ linked)
  BY <1>2, InstalledInParts
<1>6. Installed(linked) = Installed(aligned) + Installed(linked \ aligned)
  BY <1>2, InstalledInParts
<1>7. /\ Installed(paid) \in Nat /\ Installed(linked) \in Nat /\ Installed(aligned) \in Nat
      /\ Installed(paid \ linked) \in Nat /\ Installed(linked \ aligned) \in Nat
  BY <1>2, InstalledInParts
<1>8. /\ ~(Installed(paid) > Installed(linked)) /\ ~(Installed(linked) > Installed(aligned))
      /\ Installed(aligned) >= MinimumInstalls
  BY <1>1 DEF HasRatio, installs
<1>9. Installed(paid) = Installed(aligned) /\ Installed(linked) = Installed(aligned)
  BY <1>5, <1>6, <1>7, <1>8
<1>10. ASSUME NEW p \in paid, p \notin aligned PROVE Attributed[p].installs = 0
  <2>1. /\ Installed(paid) = Installed(aligned) + Installed(paid \ aligned)
        /\ Installed(paid \ aligned) \in Nat
    BY <1>2, InstalledInParts
  <2>2. Installed(paid \ aligned) = 0
    BY <1>7, <1>9, <2>1
  <2>3. paid \ aligned \in SUBSET DOMAIN Attributed /\ {} \in SUBSET (paid \ aligned)
    BY <1>2
  <2>4. Attributed[p].installs <= Installed(paid \ aligned)
    BY <1>10, <2>3, InstalledInParts
  <2>5. Attributed[p].installs \in Nat
    BY <1>2, FiguresAssumption
  <2> QED BY <2>2, <2>4, <2>5
<1>11. \A p \in paid : p[1] \notin AlignedMmp(f.countries) => Attributed[p].installs = 0
  BY <1>10 DEF aligned
<1> QED BY <1>1, <1>2, <1>3, <1>4, <1>7, <1>8, <1>9, <1>11 DEF installs

(***************************************************************************)
(* Confidence.                                                             *)
(***************************************************************************)

LEMMA Grows ==
    ASSUME NEW a \in Nat, NEW b \in Nat, NEW c \in Nat, a <= b
    PROVE  a * c <= b * c /\ c * a <= c * b
OBVIOUS

\* Shares of at least four fifths mapped and at most a tenth ambiguous, of fresh
\* figures over a full sample, score seven tenths and more.
LEMMA SharesSuffice ==
    ASSUME NEW total \in Nat, NEW mapped \in Nat, NEW ambiguous \in Nat,
           ~(100 * mapped < 80 * total), ~(100 * ambiguous > 10 * total)
    PROVE  LET score == <<10 * mapped * (total - ambiguous) * 25, 10 * total * total * 25>>
           IN  ~(100 * score[1] < 50 * score[2])
<1> DEFINE clear == total - ambiguous
<1>1. clear \in Nat /\ 9 * total <= 10 * clear /\ 8 * total <= 10 * mapped
  OBVIOUS
<1> HIDE DEF clear
<1>2. (8 * total) * (9 * total) <= (10 * mapped) * (9 * total)
  BY <1>1, Grows
<1>3. (10 * mapped) * (9 * total) <= (10 * mapped) * (10 * clear)
  BY <1>1, Grows
<1> DEFINE square == total * total
           kept == mapped * clear
           half == mapped * total
<1>4. square \in Nat /\ kept \in Nat /\ half \in Nat
  BY <1>1
<1>5. /\ (8 * total) * (9 * total) = 72 * square /\ (10 * mapped) * (9 * total) = 90 * half
      /\ (10 * mapped) * (10 * clear) = 100 * kept
  BY <1>1
<1>6. 10 * mapped * clear * 25 = 250 * kept /\ 10 * total * total * 25 = 250 * square
  BY <1>1
<1> HIDE DEF square, kept, half
<1>7. ~(100 * (250 * kept) < 50 * (250 * square))
  BY <1>2, <1>3, <1>4, <1>5
<1> QED BY <1>6, <1>7 DEF clear

\* Figures whose gate is open by such shares, over a full sample, are trusted
\* unless it is unknown how fresh they are.
LEMMA NotLow ==
    ASSUME NEW f, NEW stream \in Contexts, TrustedBy(stream) # "unknown",
           Availability(Cpi, ContextOf(f, stream)) = "available",
           LoadInstalls(f).aligned \in Nat, LoadInstalls(f).aligned >= MinimumInstalls,
           ContextOf(f, stream).total \in Nat, ContextOf(f, stream).mapped \in Nat,
           ContextOf(f, stream).ambiguous \in Nat
    PROVE  Level(f, stream) # "low"
<1> DEFINE context == ContextOf(f, stream)
           aligned == LoadInstalls(f).aligned
           score == Confidence(context, aligned)
<1>1. /\ context.status = stream.status
      /\ stream.status \in [Streams -> {None, "fresh", "delayed", "stale", "unknown", "error"}]
  BY FiguresAssumption DEF ContextOf, Knowing
<1>2. TrustedBy(context) \in {None, "fresh"}
  <2>1. \A s \in Streams : context.status[s] \notin {"stale", "error", "delayed"}
    BY OpenGate
  <2>2. TrustedBy(context) = TrustedBy(stream)
    BY <1>1 DEF TrustedBy
  <2> QED BY <1>1, <2>1, <2>2 DEF TrustedBy, Streams
<1>3. (IF aligned > MinimumInstalls THEN MinimumInstalls ELSE aligned) = 25
  BY DEF MinimumInstalls
<1> HIDE DEF context
<1>4. CASE context.total = 0
  <2>1. score = <<10 * 25, 10 * 25>>
    BY <1>2, <1>3, <1>4 DEF Confidence, MinimumInstalls, None
  <2> QED BY <2>1 DEF Level, LevelOf, context
<1>5. CASE context.total # 0
  <2>1. score = <<10 * context.mapped * (context.total - context.ambiguous) * 25,
                  10 * context.total * context.total * 25>>
    BY <1>2, <1>3, <1>5 DEF Confidence, MinimumInstalls, None
  <2>2. /\ ~(100 * context.mapped < 80 * context.total)
        /\ ~(100 * context.ambiguous > 10 * context.total)
    BY OpenGate DEF context
  <2>3. context.total \in Nat /\ context.mapped \in Nat /\ context.ambiguous \in Nat
    BY DEF context
  <2>4. ~(100 * score[1] < 50 * score[2])
    BY <2>1, <2>2, <2>3, SharesSuffice
  <2>5. score[1] \in Int /\ score[2] \in Int
    BY <2>1, <2>3
  <2> HIDE DEF score
  <2>6. LevelOf(score) # "low"
    BY <2>4, <2>5 DEF LevelOf
  <2> QED BY <2>6 DEF Level, score, context
<1> QED BY <1>4, <1>5

\* What opens the gate of the cost per install opens it for the figures beside it.
LEMMA OpensBeside ==
    ASSUME NEW context, Availability(Cpi, context) = "available",
           NEW d, d.needs = {"attributed_installs"}, d.hours = 24
    PROVE  Availability(d, context) = "available"
<1>1. /\ Streams \subseteq context.bound /\ "attributed_installs" \in context.supports
      /\ \A s \in Streams : /\ context.status[s] \notin {"stale", "error", "delayed"}
                            /\ ~(context.hours[s] > 24)
      /\ ~(100 * context.mapped < 80 * context.total)
      /\ ~(100 * context.ambiguous > 10 * context.total)
  BY OpenGate
<1> DEFINE streams == d.sources \cap Streams
           are(statuses) == \E s \in streams : context.status[s] \in statuses
           qualified == /\ d.class = "operational" /\ Streams \subseteq d.sources
                        /\ \/ 100 * context.mapped < 80 * context.total
                           \/ 100 * context.ambiguous > 10 * context.total
<1>2. Availability(d, context)
      = IF ~(streams \subseteq context.bound) \/ ~(d.needs \subseteq context.supports)
        THEN "unavailable"
        ELSE IF are({"stale", "error"}) \/ \E s \in streams : context.hours[s] > d.hours THEN "stale"
        ELSE IF are({"delayed"}) \/ qualified THEN "partial" ELSE "available"
  BY DEF Availability, MinimumSpendCoveragePct, MaximumAmbiguousSpendPct
<1>3. /\ streams \subseteq context.bound /\ d.needs \subseteq context.supports
      /\ ~are({"stale", "error"}) /\ ~are({"delayed"}) /\ ~qualified
      /\ ~(\E s \in streams : context.hours[s] > d.hours)
  BY <1>1
<1> HIDE DEF streams, are, qualified
<1> QED BY <1>2, <1>3

\* The figures shown beside it.
LEMMA MetricsBeside ==
    ASSUME NEW d \in MetricDefinitions,
           d.key \in {"attribution_coverage", "mapped_paid_installs",
                      "delivery_aligned_paid_installs"}
    PROVE  /\ d.needs = {"attributed_installs"} /\ d.hours = 24 /\ d.unit # "currency"
           /\ d.floor = 0
           /\ d.family = IF d.key = "attribution_coverage" THEN "coverage" ELSE "attribution"
<1>1. /\ \A m \in DeliveryMetrics : m.key # d.key
      /\ \A m \in AttributedMetrics : m.key # d.key
  BY DEF DeliveryMetrics, AttributedMetrics, Metric
<1>2. CASE d \in MappedMetrics
  BY <1>2 DEF MappedMetrics, Metric
<1>3. CASE d \in CoverageMetrics
  BY <1>3 DEF CoverageMetrics, Metric
<1> QED BY <1>1, <1>2, <1>3 DEF MetricDefinitions

LEMMA CpiOfItsInstalls == Typed => CpiBoughtItsInstalls
<1> SUFFICES ASSUME Typed, NEW f \in Filters, NEW stream \in Contexts,
                    Value(Cpi, f, stream).availability = "available"
             PROVE  LET cpi == Value(Cpi, f, stream)
                        paid == {p \in NotOrganic(AttributionRows(f.countries)) :
                                    Attributed[p].installs > 0}
                    IN  /\ cpi.denominator = Installed(paid)
                        /\ \A p \in paid : \E q \in DeliveryRows(f.countries) :
                                <<q[1], p[1]>> \in Links /\ DidDeliver(q)
                        /\ f.account = None => 100 * cpi.numerator >= 80 * Chart(f).spend
                        /\ TrustedBy(stream) # "unknown" => Level(f, stream) # "low"
                        /\ f.account = None =>
                              ~ \E d \in MetricDefinitions :
                                  /\ d.key \in {"attribution_coverage", "mapped_paid_installs",
                                                "delivery_aligned_paid_installs"}
                                  /\ Qualified(d, f, stream)
  BY CpiIsMapped DEF CpiBoughtItsInstalls
<1> DEFINE cpi == Value(Cpi, f, stream)
           rows == DeliveryRows(f.countries)
           all == NotOrganic(AttributionRows(f.countries))
           paid == {p \in all : Attributed[p].installs > 0}
           installs == LoadInstalls(f)
           coverage == EligibleCoverage(f.countries)
           context == ContextOf(f, stream)
<1>1. /\ Availability(Cpi, context) = "available"
      /\ cpi.numerator = LoadMarketing(f).mappedSpend /\ cpi.denominator = installs.aligned
      /\ HasRatio(installs.aligned, MinimumInstalls)
      /\ ~(installs.paid > installs.mapped) /\ ~(installs.mapped > installs.aligned)
  BY ShownCpi
<1>2. /\ f.channel \in {None, "network"} /\ all \in SUBSET DOMAIN Attributed
      /\ installs.aligned \in Nat /\ installs.aligned >= MinimumInstalls
      /\ installs.paid = installs.aligned /\ installs.mapped = installs.aligned
      /\ installs.paid = Installed(all)
      /\ \A p \in all : p[1] \notin AlignedMmp(f.countries) => Attributed[p].installs = 0
  BY <1>1, NothingLeftOut
<1>3. /\ context.bound = stream.bound /\ context.status = stream.status
      /\ SliceOf(f, stream) = f.countries
      /\ context.total = coverage.spend /\ context.mapped = coverage.mappedSpend
      /\ context.ambiguous = coverage.ambiguousSpend
  <2>1. context = Knowing(stream, EligibleCoverage(SliceOf(f, stream)))
    BY DEF ContextOf
  <2>2. context.bound = stream.bound /\ context.status = stream.status
    BY <2>1, FiguresAssumption DEF Knowing
  <2>3. "marketing" \in stream.bound
    BY <1>1, <2>2, OpenGate DEF Streams
  <2>4. SliceOf(f, stream) = f.countries
    BY <2>3 DEF SliceOf
  <2>5. context = Knowing(stream, coverage)
    BY <2>1, <2>4
  <2> HIDE DEF context, coverage
  <2>6. /\ context.total = coverage.spend /\ context.mapped = coverage.mappedSpend
        /\ context.ambiguous = coverage.ambiguousSpend
    BY <2>5, FiguresAssumption DEF Knowing
  <2> QED BY <2>2, <2>4, <2>6
<1>4. /\ coverage.spend = Spent(rows) /\ rows \in SUBSET DOMAIN Delivered
      /\ coverage.mappedSpend = Spent({p \in rows : p[1] \in LinkedNetwork})
      /\ coverage.paid = Installed(all)
  BY CardsAreCoverage
<1>5. /\ coverage.spend \in Nat /\ coverage.mappedSpend \in Nat
      /\ coverage.ambiguousSpend \in Nat
  <2> DEFINE linked == {p \in rows : p[1] \in LinkedNetwork}
             unclear == {p \in {q \in rows : DidDeliver(q)} : CampaignState(p[1]) = "ambiguous"}
  <2>1. linked \in SUBSET rows /\ unclear \in SUBSET rows
    OBVIOUS
  <2>2. coverage.ambiguousSpend = Spent(unclear)
    BY DEF EligibleCoverage
  <2> HIDE DEF linked, unclear
  <2>3. Spent(rows) \in Nat /\ Spent(linked) \in Nat /\ Spent(unclear) \in Nat
    BY <1>4, <2>1, SpentInParts
  <2> QED BY <1>4, <2>2, <2>3 DEF linked
<1> HIDE DEF context
<1>6. cpi.denominator = Installed(paid)
  <2>1. paid \in SUBSET all /\ \A p \in all \ paid : Attributed[p].installs = 0
    BY <1>2, FiguresAssumption
  <2>2. all \ paid \in SUBSET DOMAIN Attributed
    BY <1>2
  <2> HIDE DEF paid, all
  <2>3. Installed(all \ paid) = 0
    BY <2>1, <2>2, NothingInstalled
  <2>4. Installed(all) = Installed(paid) + Installed(all \ paid) /\ Installed(paid) \in Nat
    BY <1>2, <2>1, InstalledInParts
  <2>5. Installed(all) = Installed(paid)
    BY <2>3, <2>4
  <2> QED BY <1>1, <1>2, <2>5
<1>7. ASSUME NEW p \in paid
      PROVE  \E q \in rows : <<q[1], p[1]>> \in Links /\ DidDeliver(q)
  <2>1. p[1] \in AlignedMmp(f.countries)
    BY <1>2, <1>7
  <2>2. PICK link \in Links : /\ link[2] = p[1]
                              /\ \E q \in rows : q[1] = link[1] /\ DidDeliver(q)
    BY <2>1 DEF AlignedMmp
  <2>3. link = <<link[1], link[2]>>
    BY DEF Links, Link
  <2> QED BY <2>2, <2>3
<1>8. ASSUME f.account = None PROVE 100 * cpi.numerator >= 80 * Chart(f).spend
  <2>1. /\ {p \in rows : /\ f.channel \in {None, "network"}
                         /\ f.account \in {None, AccountOf[p[1]]}} = rows
        /\ {p \in rows : f.account \in {None, AccountOf[p[1]]}} = rows
    BY <1>2, <1>8
  <2>2. LoadMarketing(f).mappedSpend = Spent({p \in rows : p[1] \in LinkedNetwork})
    BY <2>1 DEF LoadMarketing
  <2>3. Chart(f).spend = Spent(rows)
    BY <2>1 DEF Chart
  <2>4. ~(100 * context.mapped < 80 * context.total)
    BY <1>1, OpenGate
  <2>5. cpi.numerator = coverage.mappedSpend /\ Chart(f).spend = coverage.spend
    BY <1>1, <1>4, <2>2, <2>3
  <2>6. ~(100 * coverage.mappedSpend < 80 * coverage.spend)
    BY <1>3, <2>4
  <2> HIDE DEF cpi, coverage
  <2> QED BY <1>5, <2>5, <2>6
<1>9. TrustedBy(stream) # "unknown" => Level(f, stream) # "low"
  BY <1>1, <1>2, <1>3, <1>5, NotLow DEF context
<1>10. ASSUME NEW d \in MetricDefinitions,
              d.key \in {"attribution_coverage", "mapped_paid_installs",
                         "delivery_aligned_paid_installs"}
       PROVE  ~Qualified(d, f, stream)
  <2> DEFINE gate == Availability(d, ContextOf(f, stream))
             sums == Sums(d, f)
             ratio == Ratio(d, f, stream)
             left == Caveat(d.key, LoadInstalls(f), EligibleCoverage(SliceOf(f, stream)))
  <2>1. /\ d.needs = {"attributed_installs"} /\ d.hours = 24 /\ d.unit # "currency"
        /\ d.floor = 0
        /\ d.family = IF d.key = "attribution_coverage" THEN "coverage" ELSE "attribution"
    BY <1>10, MetricsBeside
  <2>2. gate = "available"
    BY <1>1, <2>1, OpensBeside DEF context
  <2>3. Value(d, f, stream)
        = IF gate = "unavailable" THEN Figure(gate, 0, 0)
          ELSE IF d.unit = "currency" /\ Cardinality(CurrenciesOf(d, f)) > 1 THEN Figure("blocked", 0, 0)
          ELSE IF d.key \in DOMAIN sums
          THEN Figure(IF sums[d.key] = NotReported THEN "unavailable" ELSE gate, sums[d.key], 0)
          ELSE Figure(IF ~HasRatio(ratio[2], d.floor) THEN "unavailable"
                      ELSE IF gate = "available" /\ left THEN "partial" ELSE gate, ratio[1], ratio[2])
    BY DEF Value
  <2>4. CASE d.key # "attribution_coverage"
    <3>1. sums = InstallSums(LoadInstalls(f))
      BY <2>1, <2>4 DEF Sums
    <3>2. \A key \in {"mapped_paid_installs", "delivery_aligned_paid_installs"} :
              /\ key \in DOMAIN sums /\ sums[key] = installs.aligned
              /\ sums[key] # NotReported
      <4>1. installs.aligned # NotReported
        BY <1>2 DEF NotReported
      <4> HIDE DEF sums, installs
      <4>2. /\ sums.mapped_paid_installs = installs.aligned
            /\ sums.delivery_aligned_paid_installs = installs.aligned
            /\ {"mapped_paid_installs", "delivery_aligned_paid_installs"} \subseteq DOMAIN sums
        BY <1>2, <3>1 DEF InstallSums, installs
      <4> QED BY <4>1, <4>2
    <3>3. PICK value : d.key \in DOMAIN sums /\ sums[d.key] = value /\ value # NotReported
      <4> HIDE DEF sums, installs
      <4> QED BY <1>10, <2>4, <3>2
    <3> HIDE DEF gate, sums, ratio, left
    <3>4. Value(d, f, stream) = Figure(gate, value, 0)
      BY <2>1, <2>2, <2>3, <3>3
    <3> QED BY <2>2, <3>4 DEF Figure, Qualified
  <2>5. CASE d.key = "attribution_coverage"
    <3>1. d.key \notin DOMAIN sums
      <4>1. sums = <<>>
        BY <2>1, <2>5 DEF Sums
      <4>2. DOMAIN sums = {}
        BY <4>1
      <4> QED BY <4>2
    <3>2. ratio[2] = coverage.paid
      BY <1>3, <2>1, <2>5 DEF Ratio, CoverageRatios
    <3>3. HasRatio(ratio[2], d.floor)
      BY <1>2, <1>4, <2>1, <3>2 DEF HasRatio, MinimumInstalls
    <3>4. ~left
      <4> DEFINE unclear == {p \in all : InstallState(p[1]) = "ambiguous"}
      <4>1. ASSUME NEW p \in unclear PROVE Attributed[p].installs = 0
        <5>1. p[1] \notin LinkedMmp
          <6>1. ASSUME p[1] \in LinkedMmp PROVE FALSE
            <7>1. \E row \in mapping : Operational(row) /\ Link(row)[2] = p[1]
              BY <6>1 DEF LinkedMmp, Links
            <7> QED BY <4>1, <7>1 DEF InstallState
          <6> QED BY <6>1
        <5> QED BY <1>2, <4>1, <5>1, AlignedIsLinked
      <4>2. unclear \in SUBSET DOMAIN Attributed
        BY <1>2
      <4>3. coverage.ambiguous = Installed(unclear)
        BY DEF EligibleCoverage
      <4>4. Installed(unclear) = 0
        BY <4>1, <4>2, NothingInstalled
      <4>5. left <=> coverage.ambiguous > 0
        BY <1>3, <2>5 DEF Caveat
      <4> HIDE DEF left, coverage, unclear
      <4> QED BY <4>3, <4>4, <4>5
    <3> HIDE DEF gate, sums, ratio, left
    <3>5. Value(d, f, stream).availability = "available"
      BY <2>1, <2>2, <2>3, <3>1, <3>3, <3>4 DEF Figure
    <3> QED BY <3>5 DEF Qualified
  <2> QED BY <2>4, <2>5
<1> QED BY <1>6, <1>7, <1>8, <1>9, <1>10

\* A cost per install shown without a caveat counts every paid install of its
\* slice, each bought by a campaign that delivered there, against at least 80%
\* of the slice's spend, beside unqualified coverage and confidence.
THEOREM CpiAlwaysBought == Spec => []CpiBoughtItsInstalls
BY StaysTyped, CpiOfItsInstalls, PTL

=============================================================================
