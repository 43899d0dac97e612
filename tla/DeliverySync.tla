---------------------------- MODULE DeliverySync ----------------------------
(***************************************************************************)
(* One ad account's delivery, from Meta's pages to stored rows: the ladder *)
(* of breakdowns, the attempts and pages of each read, the raw pages, the  *)
(* upsert on the dimension hash and the supersession of rows of another    *)
(* grain.  One step is one HTTP attempt or one SQL statement; revisions by *)
(* the provider, failing statements and deaths fall between any two.  A    *)
(* window is one day, so a campaign stands for a campaign-day; the joining *)
(* of campaign_id to the rows afterwards changes nothing modelled here.    *)
(***************************************************************************)
EXTENDS ProviderHttp, FiniteSets, FiniteSetsExt

CONSTANTS
    NCampaigns,     \* campaigns the account may have, 1 .. NCampaigns
    Devices,        \* impression_device values the account has traffic on
    MaxSpend,       \* bound on a device's spend; 0 is no traffic
    FirstSpend,     \* spends the account may start with
    Trouble,        \* answers that are neither a page nor a refused breakdown
    ChunkRows,      \* rows per INSERT (500)
    MaxPages,       \* MAX_PAGES
    MaxRevisions    \* bound on revisions by the provider

ASSUME DeliveryAssumption ==
    /\ NCampaigns \in Nat \ {0} /\ MaxSpend \in Nat \ {0} /\ ChunkRows \in Nat \ {0}
    /\ MaxPages \in Nat \ {0} /\ MaxRevisions \in Nat /\ IsFiniteSet(Devices)
    /\ FirstSpend \subseteq 0 .. MaxSpend

VARIABLES
    spend,       \* the provider's present numbers: campaign, device -> spend
    exists,      \* campaigns 1 .. exists are in the account
    refused,     \* rungs of the ladder the account refuses
    everRefused, \* history: rungs it ever refused
    revisions,   \* history: how often the provider revised a number
    read,        \* the performance window being synced
    table,       \* marketing_daily_metrics
    raw,         \* rows of the stored raw pages
    asRead       \* history: campaign -> the rows the last completed window left

provider == <<spend, exists, refused, everRefused, revisions>>
vars == <<provider, read, table, raw, asRead>>

Campaigns == 1 .. NCampaigns
Rungs == 1 .. 3

NormalizePlatform(device) ==
    CASE device \in {"iphone", "ipad", "ipod"} -> "ios"
      [] device \in {"android_smartphone", "android_tablet"} -> "android"
      [] device \in {"desktop", "mobile_web"} -> "web"
      [] OTHER -> "unknown"

Keys == [campaign : Campaigns, country : {"US", "none"},
         platform : {"ios", "android", "web", "unknown"}]

\* What the hash of a row covers: the native device is not in it.
DimensionKey(row) ==
    [campaign |-> row.campaign, country |-> row.country, platform |-> row.platform]

SumOf(byDevice) == SumFunctionOnSet(byDevice, Devices)

TotalSpend(c) == SumOf(spend[c])

\* toCanonicalMetric of what the account reports of campaign c on a rung of the
\* ladder: country and device, country, neither.
Report(rung, c) ==
    IF c > exists \/ TotalSpend(c) = 0 THEN {}
    ELSE IF rung = 1
    THEN {[campaign |-> c, country |-> "US", platform |-> NormalizePlatform(d),
           device |-> d, spend |-> spend[c][d]] : d \in {d \in Devices : spend[c][d] > 0}}
    ELSE {[campaign |-> c, country |-> IF rung = 2 THEN "US" ELSE "none",
           platform |-> "unknown", device |-> "none", spend |-> TotalSpend(c)]}

Idle == [at |-> "idle", rung |-> 1, page |-> 1, tries |-> 0, batch |-> {},
         left |-> {}, end |-> "none", failedAt |-> "none"]

TypeOK ==
    /\ spend \in [Campaigns -> [Devices -> 0 .. MaxSpend]]
    /\ exists \in Campaigns /\ revisions \in 0 .. MaxRevisions
    /\ refused \subseteq Rungs /\ everRefused \subseteq Rungs
    /\ read.at \in {"idle", "fetch", "insert", "supersede", "check"}
    /\ read.rung \in Rungs /\ read.page \in 1 .. MaxPages /\ read.tries \in 0 .. MaxTries - 1
    /\ read.end \in ErrorClasses \cup {"none", "stored", "interrupted"}
    /\ \A r \in table : /\ DimensionKey(r) \in Keys
                        /\ r.spend \in 1 .. MaxSpend * Cardinality(Devices)
                        /\ r.generation \in 0 .. MaxRevisions
    /\ \A r, q \in table : DimensionKey(r) = DimensionKey(q) => r = q

Init ==
    /\ spend \in [Campaigns -> [Devices -> FirstSpend]]
    /\ exists \in Campaigns
    /\ refused \in SUBSET Rungs /\ everRefused = refused
    /\ revisions = 0
    /\ read = Idle /\ table = {} /\ raw = {}
    /\ asRead = [c \in Campaigns |-> {}]

-----------------------------------------------------------------------------
\* The provider.

Revise ==
    /\ revisions < MaxRevisions
    /\ \E c \in Campaigns, d \in Devices, n \in 0 .. MaxSpend :
          n # spend[c][d] /\ spend' = [spend EXCEPT ![c][d] = n]
    /\ revisions' = revisions + 1
    /\ UNCHANGED <<exists, refused, everRefused, read, table, raw, asRead>>

NewCampaign ==
    /\ exists < NCampaigns
    /\ exists' = exists + 1
    /\ UNCHANGED <<spend, refused, everRefused, revisions, read, table, raw, asRead>>

\* An account gains or loses a breakdown.
ChangeBreakdowns ==
    /\ revisions < MaxRevisions
    /\ revisions' = revisions + 1
    /\ \E rung \in Rungs :
          refused' = IF rung \in refused THEN refused \ {rung} ELSE refused \cup {rung}
    /\ everRefused' = everRefused \cup refused'
    /\ UNCHANGED <<spend, exists, read, table, raw, asRead>>

-----------------------------------------------------------------------------
\* syncPerformance and the storing of its batch.

Ended(end) ==
    [Idle EXCEPT !.end = end, !.failedAt = read.at]

BeginWindow ==
    /\ read.at = "idle"
    /\ read' = [Idle EXCEPT !.at = "fetch"]
    /\ UNCHANGED <<provider, table, raw, asRead>>

\* Faulty variant: only the first page's raw rows are stored.
ReceivePageRawOnce ==
    /\ read.at = "fetch" /\ read.rung \notin refused
    /\ LET rows == IF read.page \in Campaigns THEN Report(read.rung, read.page) ELSE {}
       IN  /\ raw' = IF read.page = 1 THEN raw \cup rows ELSE raw
           /\ \/ /\ read.page >= exists
                 /\ read' = [read EXCEPT !.at = IF read.batch \cup rows = {} THEN "check"
                                                ELSE "insert",
                                         !.batch = @ \cup rows, !.left = read.batch \cup rows,
                                         !.tries = 0]
              \/ read' = IF read.page = MaxPages THEN Ended("pagination_failure")
                         ELSE [read EXCEPT !.page = @ + 1, !.batch = @ \cup rows, !.tries = 0]
    /\ UNCHANGED <<provider, table, asRead>>

\* The answer is a page: its raw rows are stored before they are used.  Whether
\* another follows is the provider's word; past the last campaign a broken
\* cursor may still promise one.
ReceivePage ==
    /\ read.at = "fetch" /\ read.rung \notin refused
    /\ LET rows == IF read.page \in Campaigns THEN Report(read.rung, read.page) ELSE {}
       IN  /\ raw' = raw \cup rows
           /\ \/ /\ read.page >= exists
                 /\ read' = [read EXCEPT !.at = IF read.batch \cup rows = {} THEN "check"
                                                ELSE "insert",
                                         !.batch = @ \cup rows, !.left = read.batch \cup rows,
                                         !.tries = 0]
              \/ read' = IF read.page = MaxPages THEN Ended("pagination_failure")
                         ELSE [read EXCEPT !.page = @ + 1, !.batch = @ \cup rows, !.tries = 0]
    /\ UNCHANGED <<provider, table, asRead>>

\* Faulty variant: any failure steps down the ladder.
StepDownOnAnyFailure ==
    /\ read.at = "fetch"
    /\ read' = IF read.rung = 3 THEN Ended("invalid_request")
               ELSE [Idle EXCEPT !.at = "fetch", !.rung = read.rung + 1]
    /\ UNCHANGED <<provider, table, raw, asRead>>

\* Faulty variant: after the last rung the ladder begins again.
StepDownAround ==
    /\ read.at = "fetch" /\ read.rung \in refused
    /\ read' = [Idle EXCEPT !.at = "fetch", !.rung = (read.rung % 3) + 1]
    /\ UNCHANGED <<provider, table, raw, asRead>>

\* A refused breakdown: the read starts over one rung down, its rows so far
\* forgotten; the last rung's refusal is the window's failure.
StepDown ==
    /\ read.at = "fetch" /\ read.rung \in refused
    /\ read' = IF read.rung = 3 THEN Ended("invalid_request")
               ELSE [Idle EXCEPT !.at = "fetch", !.rung = read.rung + 1]
    /\ UNCHANGED <<provider, table, raw, asRead>>

\* Any other answer: sent again while that may help, else the window fails.
MeetTrouble ==
    /\ read.at = "fetch"
    /\ \E answer \in Trouble :
          LET tries == read.tries + 1
          IN  read' = IF SentAgain(answer, tries)
                      THEN [read EXCEPT !.tries = tries]
                      ELSE Ended(ClassOf(answer))
    /\ UNCHANGED <<provider, table, raw, asRead>>

Stored(key) == {r \in table : DimensionKey(r) = key}

\* Faulty variant: every rewrite counts as a revision.
UpsertedRowAlwaysRestated(row) ==
    [campaign |-> row.campaign, country |-> row.country, platform |-> row.platform,
     spend |-> row.spend,
     generation |-> IF Stored(DimensionKey(row)) = {} THEN 0
                    ELSE (CHOOSE r \in Stored(DimensionKey(row)) : TRUE).generation + 1]

UpsertedRow(row) ==
    [campaign |-> row.campaign, country |-> row.country, platform |-> row.platform,
     spend |-> row.spend,
     generation |-> IF Stored(DimensionKey(row)) = {} THEN 0
                    ELSE LET old == CHOOSE r \in Stored(DimensionKey(row)) : TRUE
                         IN  old.generation + IF old.spend = row.spend THEN 0 ELSE 1]

\* One INSERT ... ON CONFLICT of up to ChunkRows rows.  PostgreSQL refuses one
\* that would touch a row twice.
InsertChunk ==
    /\ read.at = "insert"
    /\ \E chunk \in kSubset(IF Cardinality(read.left) < ChunkRows
                            THEN Cardinality(read.left) ELSE ChunkRows, read.left) :
          IF \E r, q \in chunk : r # q /\ DimensionKey(r) = DimensionKey(q)
          THEN /\ read' = Ended("unknown_error")
               /\ UNCHANGED <<table, asRead>>
          ELSE /\ table' = {r \in table : \A q \in chunk : DimensionKey(q) # DimensionKey(r)}
                           \cup {UpsertedRow(q) : q \in chunk}
               /\ asRead' = [c \in Campaigns |->
                                IF \E q \in chunk : q.campaign = c THEN {} ELSE asRead[c]]
               /\ read' = IF chunk = read.left
                          THEN [read EXCEPT !.at = "supersede",
                                            !.left = {[campaign |-> q.campaign] : q \in read.batch}]
                          ELSE [read EXCEPT !.left = @ \ chunk]
    /\ UNCHANGED <<provider, raw>>

\* Faulty variant: the deletion is not scoped to the campaign-day.
SupersedeEveryCampaign ==
    /\ read.at = "supersede"
    /\ \E k \in read.left :
          /\ table' = {r \in table : \E q \in read.batch : /\ q.campaign = k.campaign
                                                           /\ DimensionKey(q) = DimensionKey(r)}
          /\ read' = [read EXCEPT !.left = @ \ {k},
                                  !.at = IF read.left = {k} THEN "check" ELSE @]
    /\ UNCHANGED <<provider, raw, asRead>>

\* One DELETE per campaign-day of the batch: its rows this read did not produce.
SupersedeRestatedDimensions ==
    /\ read.at = "supersede"
    /\ \E k \in read.left :
          /\ table' = {r \in table : r.campaign = k.campaign =>
                          \E q \in read.batch : DimensionKey(q) = DimensionKey(r)}
          /\ read' = [read EXCEPT !.left = @ \ {k},
                                  !.at = IF read.left = {k} THEN "check" ELSE @]
    /\ UNCHANGED <<provider, raw, asRead>>

\* The data-quality findings are recorded and the window is complete.
CheckBatch ==
    /\ read.at = "check"
    /\ asRead' = [c \in Campaigns |->
                     IF \E q \in read.batch : q.campaign = c
                     THEN {q \in read.batch : q.campaign = c} ELSE asRead[c]]
    /\ read' = Ended("stored")
    /\ UNCHANGED <<provider, table, raw>>

\* A statement fails (storing a raw page included), or the process dies.
WindowInterrupted ==
    /\ read.at # "idle"
    /\ read' = Ended("interrupted")
    /\ UNCHANGED <<provider, table, raw, asRead>>

-----------------------------------------------------------------------------
ReadWindow ==
    \/ ReceivePage \/ StepDown \/ MeetTrouble \/ InsertChunk
    \/ SupersedeRestatedDimensions \/ CheckBatch

Next ==
    \/ Revise \/ NewCampaign \/ ChangeBreakdowns
    \/ BeginWindow \/ ReadWindow \/ WindowInterrupted

Spec == Init /\ [][Next]_vars

\* Every attempt has a timeout and every statement an answer.
FairSpec == Spec /\ WF_vars(ReadWindow)

-----------------------------------------------------------------------------
\* From the end of a completed window until the next one writes the campaign
\* again, storage has exactly the rows it read: no row of an earlier grain, no
\* row lost to another campaign's supersession (facts.ts:336-340).
StoredAsRead ==
    \A c \in Campaigns : asRead[c] # {} =>
        {[key |-> DimensionKey(r), spend |-> r.spend] : r \in {r \in table : r.campaign = c}}
        = {[key |-> DimensionKey(q), spend |-> q.spend] : q \in asRead[c]}

\* A number can be traced to a stored raw page, whatever failed or died between
\* the two (0004_raw_ingestion.sql:3-5).
TracedToRaw ==
    \A r \in table : \E q \in raw : DimensionKey(q) = DimensionKey(r) /\ q.spend = r.spend

\* A dimension is given up only for an account that refused it: an outage, a
\* throttle or an expired token "must not quietly coarsen the data"
\* (meta.ts:664-666).
CoarseOnlyIfRefused ==
    \A r \in table : /\ r.platform = "unknown" => 1 \in everRefused
                     /\ r.country = "none" => {1, 2} \subseteq everRefused

\* A no-op refresh is never counted as a revision, however often windows are
\* read again, fail or restart (facts.ts:398-400).
GenerationsAreRevisions == \A r \in table : r.generation <= revisions

\* A window that begins ends: ladder, attempts and pages are all bounded
\* (meta.ts:259, "bounded so a broken cursor cannot loop").
WindowsEnd == read.at # "idle" ~> read.at = "idle"

\* A window that was read in full and met no failing statement is stored; rows
\* that repeat a tuple are at most a warning on it (dataQuality.ts:107-111).
ReadWindowsAreStored == read.failedAt = "insert" => read.end # "unknown_error"

=============================================================================
