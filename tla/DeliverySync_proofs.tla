------------------------ MODULE DeliverySync_proofs ------------------------
(***************************************************************************)
(* Theorems about DeliverySync, for any account, devices, trouble, chunk   *)
(* and page limits and number of revisions.                                *)
(***************************************************************************)
EXTENDS DeliverySync, FiniteSums

\* Every answer has a class.
LEMMA ClassOfAnswer == ASSUME NEW answer PROVE ClassOf(answer) \in ErrorClasses
<1>1. ASSUME NEW status PROVE ClassOfStatus(status) \in ErrorClasses
  BY DEF ClassOfStatus, ErrorClasses
<1>2. ASSUME NEW says PROVE ClassifyBody(says) \in ErrorClasses \cup {"none"}
  BY DEF ClassifyBody, ErrorClasses
<1>3. ASSUME NEW status, NEW says PROVE ClassifyHttpStatus(status, says) \in ErrorClasses
  <2>1. "authentication_error" \in ErrorClasses
    BY DEF ErrorClasses
  <2> QED BY <1>1, <1>2, <2>1 DEF ClassifyHttpStatus
<1>4. ClassifyGraphError(answer) \in ErrorClasses \cup {"none"}
  BY DEF ClassifyGraphError, ErrorClasses
<1>5. {"timeout", "provider_unavailable", "schema_change"} \subseteq ErrorClasses
  BY DEF ErrorClasses
<1> QED BY <1>3, <1>4, <1>5 DEF ClassOf

LEMMA UpsertedTraced ==
    ASSUME NEW q
    PROVE  DimensionKey(UpsertedRow(q)) = DimensionKey(q) /\ UpsertedRow(q).spend = q.spend
BY DEF UpsertedRow, DimensionKey

(***************************************************************************)
(* From raw pages to rows.  The batch in hand is the part between the two  *)
(* tables that a failure, a step down or a death must not lose hold of.    *)
(***************************************************************************)
Places == {"idle", "fetch", "insert", "supersede", "check"}

\* A window in progress, over the raw pages stored by now.
Reads(pages) ==
    [at : Places, rung : Rungs, page : 1 .. MaxPages, tries : Nat, batch : SUBSET pages,
     left : (SUBSET pages) \cup (SUBSET [campaign : {q.campaign : q \in pages}]),
     end : ErrorClasses \cup {"none", "stored", "interrupted"}, failedAt : Places \cup {"none"}]

BatchIsRaw ==
    /\ read \in Reads(raw)
    /\ read.at = "insert" => read.left \subseteq raw

TraceInv == TracedToRaw /\ BatchIsRaw

LEMMA MoreRaw ==
    ASSUME NEW pages, NEW more, pages \subseteq more, NEW r \in Reads(pages)
    PROVE  r \in Reads(more)
<1>1. {q.campaign : q \in pages} \subseteq {q.campaign : q \in more}
  OBVIOUS
<1>2. [campaign : {q.campaign : q \in pages}] \subseteq [campaign : {q.campaign : q \in more}]
  BY <1>1
<1>3. r.left \in (SUBSET more) \cup (SUBSET [campaign : {q.campaign : q \in more}])
  BY <1>2 DEF Reads
<1> QED BY <1>3 DEF Reads

\* A window that ends, or begins at some rung, has nothing in hand.
LEMMA EmptyHanded ==
    ASSUME NEW pages, DeliveryAssumption, NEW rung \in Rungs
    PROVE  /\ \A end \in ErrorClasses \cup {"stored", "interrupted"} :
                 read.at \in Places => Ended(end) \in Reads(pages) /\ Ended(end).at = "idle"
           /\ [Idle EXCEPT !.at = "fetch", !.rung = rung] \in Reads(pages)
           /\ Idle \in Reads(pages) /\ [Idle EXCEPT !.at = "fetch"] \in Reads(pages)
<1>1. 1 \in 1 .. MaxPages /\ 1 \in Rungs /\ 0 \in Nat
  BY DEF DeliveryAssumption, Rungs
<1> QED BY <1>1 DEF Ended, Idle, Reads, Places

LEMMA TraceStep == TraceInv /\ [Next]_vars => TraceInv'
<1> SUFFICES ASSUME TraceInv, [Next]_vars PROVE TraceInv'
  OBVIOUS
<1> USE DEF TraceInv, BatchIsRaw
<1>0. /\ \A pages : \A end \in ErrorClasses \cup {"stored", "interrupted"} :
             Ended(end) \in Reads(pages) /\ Ended(end).at = "idle"
      /\ {"pagination_failure", "invalid_request", "unknown_error"} \subseteq ErrorClasses
      /\ read.rung \in Rungs
  <2>1. read.at \in Places /\ read.rung \in Rungs
    BY DEF Reads
  <2> QED BY <2>1, EmptyHanded, DeliveryAssumption DEF ErrorClasses
<1>1. CASE Revise \/ NewCampaign \/ ChangeBreakdowns \/ UNCHANGED vars
  BY <1>1 DEF Revise, NewCampaign, ChangeBreakdowns, vars, TracedToRaw
<1>2. CASE BeginWindow \/ StepDown \/ WindowInterrupted
  <2>1. raw' = raw /\ table' = table
    BY <1>2 DEF BeginWindow, StepDown, WindowInterrupted
  <2>2. \/ read' = Ended("invalid_request") \/ read' = Ended("interrupted")
        \/ read' = [Idle EXCEPT !.at = "fetch"]
        \/ read.rung # 3 /\ read' = [Idle EXCEPT !.at = "fetch", !.rung = read.rung + 1]
    BY <1>2 DEF BeginWindow, StepDown, WindowInterrupted
  <2>3. [Idle EXCEPT !.at = "fetch"] \in Reads(raw) /\ [Idle EXCEPT !.at = "fetch"].at = "fetch"
    BY EmptyHanded, <1>0, DeliveryAssumption DEF Idle
  <2>4. \A rung \in Rungs : /\ [Idle EXCEPT !.at = "fetch", !.rung = rung] \in Reads(raw)
                            /\ [Idle EXCEPT !.at = "fetch", !.rung = rung].at = "fetch"
    BY EmptyHanded, DeliveryAssumption DEF Idle
  <2>5. 1 \in Rungs /\ (read.rung # 3 => read.rung + 1 \in Rungs)
    BY <1>0 DEF Rungs
  <2>6. read' \in Reads(raw) /\ read'.at # "insert"
    <3>1. CASE read' = Ended("invalid_request") \/ read' = Ended("interrupted")
      BY <1>0, <3>1
    <3>2. CASE read' = [Idle EXCEPT !.at = "fetch"]
      BY <2>3, <3>2
    <3>3. CASE read.rung # 3 /\ read' = [Idle EXCEPT !.at = "fetch", !.rung = read.rung + 1]
      BY <2>4, <2>5, <3>3
    <3> QED BY <2>2, <3>1, <3>2, <3>3
  <2> QED BY <2>1, <2>6 DEF TracedToRaw
<1>3. CASE ReceivePage
  <2> DEFINE rows == IF read.page \in Campaigns THEN Report(read.rung, read.page) ELSE {}
  <2>1. raw' = raw \cup rows /\ table' = table
    BY <1>3 DEF ReceivePage
  <2>2. \/ read' = [read EXCEPT !.at = IF read.batch \cup rows = {} THEN "check" ELSE "insert",
                                !.batch = @ \cup rows, !.left = read.batch \cup rows, !.tries = 0]
        \/ read' = Ended("pagination_failure")
        \/ /\ read.page # MaxPages
           /\ read' = [read EXCEPT !.page = @ + 1, !.batch = @ \cup rows, !.tries = 0]
    BY <1>3 DEF ReceivePage
  <2> HIDE DEF rows
  <2>3. TracedToRaw'
    BY <2>1 DEF TracedToRaw
  <2>4. read \in Reads(raw \cup rows) /\ read.batch \subseteq raw
    BY MoreRaw DEF Reads
  <2>5. ASSUME read.page # MaxPages PROVE read.page + 1 \in 1 .. MaxPages
    BY <2>4, <2>5, DeliveryAssumption DEF Reads, DeliveryAssumption
  <2>6. CASE read' = [read EXCEPT !.at = IF read.batch \cup rows = {} THEN "check" ELSE "insert",
                             !.batch = @ \cup rows, !.left = read.batch \cup rows, !.tries = 0]
    <3>1. read' \in Reads(raw \cup rows)
      BY <2>4, <2>6 DEF Reads, Places
    <3>2. read'.left \subseteq raw \cup rows
      BY <2>4, <2>6 DEF Reads
    <3> QED BY <2>1, <2>3, <3>1, <3>2
  <2>7. CASE read' = Ended("pagination_failure")
    BY <1>0, <2>1, <2>3, <2>7
  <2>8. CASE /\ read.page # MaxPages
             /\ read' = [read EXCEPT !.page = @ + 1, !.batch = @ \cup rows, !.tries = 0]
    <3>1. read' \in Reads(raw \cup rows)
      BY <2>4, <2>5, <2>8 DEF Reads
    <3>2. read'.at = "fetch"
      BY <1>3, <2>4, <2>8 DEF Reads, ReceivePage
    <3> QED BY <2>1, <2>3, <3>1, <3>2
  <2> QED BY <2>2, <2>6, <2>7, <2>8
<1>4. CASE MeetTrouble
  <2>1. PICK answer \in Trouble :
            read' = IF SentAgain(answer, read.tries + 1)
                    THEN [read EXCEPT !.tries = read.tries + 1] ELSE Ended(ClassOf(answer))
    BY <1>4 DEF MeetTrouble
  <2>2. ClassOf(answer) \in ErrorClasses
    BY ClassOfAnswer
  <2>3. read.at = "fetch" /\ raw' = raw /\ table' = table
    BY <1>4 DEF MeetTrouble
  <2>4. read' \in Reads(raw) /\ read'.at # "insert"
    BY <1>0, <2>1, <2>2, <2>3 DEF Reads
  <2> QED BY <2>3, <2>4 DEF TracedToRaw
<1>5. CASE InsertChunk
  <2>1. PICK chunk \in SUBSET read.left :
            IF \E r, q \in chunk : r # q /\ DimensionKey(r) = DimensionKey(q)
            THEN read' = Ended("unknown_error") /\ UNCHANGED table
            ELSE /\ table' = {r \in table : \A q \in chunk : DimensionKey(q) # DimensionKey(r)}
                             \cup {UpsertedRow(q) : q \in chunk}
                 /\ read' = IF chunk = read.left
                            THEN [read EXCEPT !.at = "supersede",
                                     !.left = {[campaign |-> q.campaign] : q \in read.batch}]
                            ELSE [read EXCEPT !.left = @ \ chunk]
    BY <1>5 DEF InsertChunk, kSubset
  <2>2. raw' = raw /\ read.at = "insert" /\ read.left \subseteq raw
    BY <1>5 DEF InsertChunk
  <2>3. TracedToRaw'
    <3>1. \A q \in chunk : q \in raw
      BY <2>1, <2>2
    <3>2. \A r \in table' : r \in table \/ \E q \in chunk : r = UpsertedRow(q)
      BY <2>1
    <3> QED BY <2>2, <3>1, <3>2, UpsertedTraced DEF TracedToRaw
  <2>4. read.batch \subseteq raw
    BY DEF Reads
  <2>5. {[campaign |-> q.campaign] : q \in read.batch} \subseteq [campaign : {q.campaign : q \in raw}]
    BY <2>4
  <2>6. read' \in Reads(raw) /\ (read'.at = "insert" => read'.left \subseteq raw)
    <3>1. CASE read' = Ended("unknown_error")
      BY <1>0, <3>1
    <3>2. CASE read' = [read EXCEPT !.at = "supersede",
                           !.left = {[campaign |-> q.campaign] : q \in read.batch}]
      BY <2>5, <3>2 DEF Reads, Places
    <3>3. CASE read' = [read EXCEPT !.left = @ \ chunk]
      BY <2>2, <3>3 DEF Reads
    <3> QED BY <2>1, <3>1, <3>2, <3>3
  <2> QED BY <2>2, <2>3, <2>6
<1>6. CASE SupersedeRestatedDimensions
  <2>1. raw' = raw /\ table' \subseteq table /\ read.at = "supersede"
    BY <1>6 DEF SupersedeRestatedDimensions
  <2>2. PICK k \in read.left : read' = [read EXCEPT !.left = @ \ {k},
                                               !.at = IF read.left = {k} THEN "check" ELSE @]
    BY <1>6 DEF SupersedeRestatedDimensions
  <2>3. read' \in Reads(raw) /\ read'.at # "insert"
    BY <2>1, <2>2 DEF Reads, Places
  <2> QED BY <2>1, <2>3 DEF TracedToRaw
<1>7. CASE CheckBatch
  <2>1. raw' = raw /\ table' = table /\ read' = Ended("stored")
    BY <1>7 DEF CheckBatch
  <2> QED BY <1>0, <2>1 DEF TracedToRaw
<1> QED BY <1>1, <1>2, <1>3, <1>4, <1>5, <1>6, <1>7 DEF Next, ReadWindow

\* Every stored number can be traced to a stored raw page, whatever is revised,
\* fails or dies between the two statements.
THEOREM Traceable == Spec => []TracedToRaw
<1>1. Init => TraceInv
  <2>1. Idle \in Reads({}) /\ Idle.at # "insert"
    BY EmptyHanded, DeliveryAssumption DEF Idle, Rungs
  <2> QED BY <2>1 DEF Init, TraceInv, BatchIsRaw, TracedToRaw
<1>2. TraceInv => TracedToRaw
  BY DEF TraceInv
<1> QED BY <1>1, <1>2, TraceStep, PTL DEF Spec

(***************************************************************************)
(* Dimensions given up.  A rung is a claim about the account: those above  *)
(* it were refused.  The claim must survive pages, retries, chunks and     *)
(* whatever the account gains back meanwhile.                              *)
(***************************************************************************)
DevicesNormalised == \A d \in Devices : NormalizePlatform(d) # "unknown"

\* What a row on its way may lack.
Excused(row) ==
    /\ row.platform = "unknown" => 1 \in everRefused
    /\ row.country = "none" => {1, 2} \subseteq everRefused

CoarseInv ==
    /\ \A r \in table : Excused(r)
    /\ refused \subseteq everRefused
    /\ \A rung \in Rungs : rung < read.rung => rung \in everRefused
    /\ \A q \in read.batch : Excused(q)
    /\ read.at = "insert" => read.left \subseteq read.batch

LEMMA ReportedRows ==
    ASSUME DevicesNormalised, NEW rung \in Rungs, NEW c, NEW row \in Report(rung, c)
    PROVE  /\ row.platform = "unknown" => rung # 1
           /\ row.country = "none" => rung = 3
<1>1. CASE rung = 1
  <2>1. PICK d \in Devices : row.platform = NormalizePlatform(d) /\ row.country = "US"
    BY <1>1 DEF Report
  <2> QED BY <1>1, <2>1 DEF DevicesNormalised
<1>2. CASE rung # 1
  BY <1>2 DEF Report, Rungs
<1> QED BY <1>1, <1>2

LEMMA UpsertedKeepsDimensions ==
    ASSUME NEW q
    PROVE  UpsertedRow(q).platform = q.platform /\ UpsertedRow(q).country = q.country
BY DEF UpsertedRow

LEMMA CoarseStep == DevicesNormalised /\ TraceInv /\ CoarseInv /\ [Next]_vars => CoarseInv'
<1> SUFFICES ASSUME DevicesNormalised, TraceInv, CoarseInv, [Next]_vars PROVE CoarseInv'
  OBVIOUS
<1> USE DEF CoarseInv
<1>0. /\ \A end : Ended(end).batch = {} /\ Ended(end).at = "idle" /\ Ended(end).rung = 1
      /\ read \in Reads(raw) /\ read.rung \in Rungs
      /\ \A rung \in Rungs : ~(rung < 1)
  BY DEF Ended, Idle, TraceInv, BatchIsRaw, Reads, Rungs
<1>1. CASE Revise \/ NewCampaign \/ UNCHANGED vars
  BY <1>1 DEF Revise, NewCampaign, vars, provider, Excused
<1>2. CASE ChangeBreakdowns
  <2>1. /\ everRefused \subseteq everRefused' /\ refused' \subseteq everRefused'
        /\ read' = read /\ table' = table
    BY <1>2 DEF ChangeBreakdowns
  <2>2. \A row : Excused(row) => Excused(row)'
    BY <2>1 DEF Excused
  <2> QED BY <2>1, <2>2
<1> SUFFICES ASSUME UNCHANGED provider,
                    \/ BeginWindow \/ ReadWindow \/ WindowInterrupted
             PROVE  CoarseInv'
  BY <1>1, <1>2 DEF Next, BeginWindow, WindowInterrupted, ReadWindow, ReceivePage, StepDown,
                    MeetTrouble, InsertChunk, SupersedeRestatedDimensions, CheckBatch
<1>3. \A row : Excused(row)' <=> Excused(row)
  BY DEF provider, Excused
<1>4. everRefused' = everRefused /\ refused' = refused
  BY DEF provider
<1>5. ASSUME NEW end, read' = Ended(end), \A r \in table' : Excused(r) PROVE CoarseInv'
  BY <1>0, <1>3, <1>4, <1>5
<1>6. CASE BeginWindow
  <2>1. read'.rung = 1 /\ read'.batch = {} /\ read'.at = "fetch" /\ table' = table
    BY <1>6 DEF BeginWindow, Idle
  <2> QED BY <1>0, <1>3, <1>4, <2>1
<1>7. CASE StepDown
  <2>1. read.rung \in everRefused /\ table' = table
    BY <1>7 DEF StepDown
  <2>2. CASE read' = Ended("invalid_request")
    BY <1>5, <2>1, <2>2
  <2>3. CASE read' = [Idle EXCEPT !.at = "fetch", !.rung = read.rung + 1]
    <3>1. read'.rung = read.rung + 1 /\ read'.batch = {} /\ read'.at = "fetch"
      BY <2>3 DEF Idle
    <3>2. \A rung \in Rungs : rung < read.rung + 1 => rung < read.rung \/ rung = read.rung
      BY <1>0 DEF Rungs
    <3> QED BY <1>3, <1>4, <2>1, <3>1, <3>2
  <2> QED BY <1>7, <2>2, <2>3 DEF StepDown
<1>8. CASE ReceivePage
  <2> DEFINE rows == IF read.page \in Campaigns THEN Report(read.rung, read.page) ELSE {}
  <2>1. \/ read' = [read EXCEPT !.at = IF read.batch \cup rows = {} THEN "check" ELSE "insert",
                                !.batch = @ \cup rows, !.left = read.batch \cup rows, !.tries = 0]
        \/ read' = Ended("pagination_failure")
        \/ read' = [read EXCEPT !.page = @ + 1, !.batch = @ \cup rows, !.tries = 0]
    BY <1>8 DEF ReceivePage
  <2>2. table' = table /\ read.at = "fetch"
    BY <1>8 DEF ReceivePage
  <2>3. \A q \in rows : Excused(q)
    <3>1. ASSUME NEW q \in rows PROVE Excused(q)
      <4>1. /\ q.platform = "unknown" => read.rung # 1
            /\ q.country = "none" => read.rung = 3
        BY <1>0, <3>1, ReportedRows
      <4>2. /\ read.rung # 1 => 1 \in everRefused
            /\ read.rung = 3 => {1, 2} \subseteq everRefused
        BY <1>0 DEF Rungs
      <4> QED BY <4>1, <4>2 DEF Excused
    <3> QED BY <3>1
  <2> HIDE DEF rows
  <2>4. ASSUME read' # Ended("pagination_failure")
        PROVE  /\ read'.rung = read.rung /\ read'.batch = read.batch \cup rows
               /\ read'.at = "insert" => read'.left = read'.batch
    BY <1>0, <2>1, <2>2, <2>4 DEF Reads
  <2> QED BY <1>3, <1>4, <1>5, <2>2, <2>3, <2>4
<1>9. CASE MeetTrouble
  <2>1. PICK answer \in Trouble :
            read' = IF SentAgain(answer, read.tries + 1)
                    THEN [read EXCEPT !.tries = read.tries + 1] ELSE Ended(ClassOf(answer))
    BY <1>9 DEF MeetTrouble
  <2>2. read.at = "fetch" /\ table' = table
    BY <1>9 DEF MeetTrouble
  <2>3. CASE read' = [read EXCEPT !.tries = read.tries + 1]
    <3>1. read'.rung = read.rung /\ read'.batch = read.batch /\ read'.at = "fetch"
      BY <1>0, <2>2, <2>3 DEF Reads
    <3> QED BY <1>3, <1>4, <2>2, <3>1
  <2>4. CASE read' = Ended(ClassOf(answer))
    BY <1>5, <2>2, <2>4
  <2> QED BY <2>1, <2>3, <2>4
<1>10. CASE InsertChunk
  <2>1. PICK chunk \in SUBSET read.left :
            IF \E r, q \in chunk : r # q /\ DimensionKey(r) = DimensionKey(q)
            THEN read' = Ended("unknown_error") /\ UNCHANGED table
            ELSE /\ table' = {r \in table : \A q \in chunk : DimensionKey(q) # DimensionKey(r)}
                             \cup {UpsertedRow(q) : q \in chunk}
                 /\ read' = IF chunk = read.left
                            THEN [read EXCEPT !.at = "supersede",
                                     !.left = {[campaign |-> q.campaign] : q \in read.batch}]
                            ELSE [read EXCEPT !.left = @ \ chunk]
    BY <1>10 DEF InsertChunk, kSubset
  <2>2. read.at = "insert" /\ read.left \subseteq read.batch
    BY <1>10 DEF InsertChunk
  <2>3. \A r \in table' : Excused(r)
    <3>1. \A q \in chunk : Excused(UpsertedRow(q))
      BY <2>1, <2>2, UpsertedKeepsDimensions DEF Excused
    <3>2. \A r \in table' : r \in table \/ \E q \in chunk : r = UpsertedRow(q)
      BY <2>1
    <3> QED BY <3>1, <3>2
  <2>4. CASE read' = Ended("unknown_error")
    BY <1>5, <2>3, <2>4
  <2>5. CASE read' # Ended("unknown_error")
    <3>1. /\ read'.rung = read.rung /\ read'.batch = read.batch
          /\ read'.at = "insert" => read'.left \subseteq read.left
      BY <1>0, <2>1, <2>2, <2>5 DEF Reads
    <3> QED BY <1>3, <1>4, <2>2, <2>3, <3>1
  <2> QED BY <2>4, <2>5
<1>11. CASE SupersedeRestatedDimensions
  <2>1. table' \subseteq table /\ read.at = "supersede"
    BY <1>11 DEF SupersedeRestatedDimensions
  <2>2. PICK k \in read.left : read' = [read EXCEPT !.left = @ \ {k},
                                               !.at = IF read.left = {k} THEN "check" ELSE @]
    BY <1>11 DEF SupersedeRestatedDimensions
  <2>3. read'.rung = read.rung /\ read'.batch = read.batch /\ read'.at # "insert"
    BY <1>0, <2>1, <2>2 DEF Reads
  <2> QED BY <1>3, <1>4, <2>1, <2>3
<1>12. CASE CheckBatch \/ WindowInterrupted
  <2>1. table' = table /\ \E end : read' = Ended(end)
    BY <1>12 DEF CheckBatch, WindowInterrupted
  <2> QED BY <1>5, <2>1
<1> QED BY <1>6, <1>7, <1>8, <1>9, <1>10, <1>11, <1>12 DEF ReadWindow

\* No failure, however it is classified, and no retry or page limit coarsens what
\* is stored: a row lacks a dimension only if the account refused it once;
\* provided every device is one of a known platform.
THEOREM CoarsenedByRefusal ==
    ASSUME DevicesNormalised PROVE Spec => []CoarseOnlyIfRefused
<1>1. Init => TraceInv /\ CoarseInv
  <2>1. Idle \in Reads({}) /\ Idle.at # "insert" /\ Idle.batch = {} /\ Idle.rung = 1
    BY EmptyHanded, DeliveryAssumption DEF Idle, Rungs
  <2>2. \A rung \in Rungs : ~(rung < 1)
    BY DEF Rungs
  <2> QED BY <2>1, <2>2 DEF Init, TraceInv, BatchIsRaw, TracedToRaw, CoarseInv
<1>2. CoarseInv => CoarseOnlyIfRefused
  BY DEF CoarseInv, Excused, CoarseOnlyIfRefused
<1>3. TraceInv /\ CoarseInv /\ [Next]_vars => TraceInv' /\ CoarseInv'
  BY TraceStep, CoarseStep
<1> QED BY <1>1, <1>2, <1>3, PTL DEF Spec

(***************************************************************************)
(* What a completed window leaves.  Between its first INSERT and its end a *)
(* window owes: the rows inserted so far, the campaigns not yet rid of     *)
(* rows of another grain, and that nobody is promised anything of the      *)
(* campaigns it writes.                                                    *)
(***************************************************************************)
DevicesApart == \A d, e \in Devices : NormalizePlatform(d) = NormalizePlatform(e) => d = e

KeysApart(rows) == \A r, q \in rows : DimensionKey(r) = DimensionKey(q) => r = q

\* A row says what another said.
Same(r, q) == DimensionKey(r) = DimensionKey(q) /\ r.spend = q.spend

BatchInv ==
    /\ KeysApart(read.batch)
    /\ \A q \in read.batch : q.campaign \in Campaigns
    /\ read.at = "fetch" => \A q \in read.batch : q.campaign < read.page

\* A row of the batch is stored and its campaign promised to nobody.
Written(q) == (\E r \in table : Same(r, q)) /\ asRead[q.campaign] = {}

\* The table has no row of q's campaign that the batch does not have.
Purged(q) ==
    \A r \in table : r.campaign = q.campaign =>
        \E p \in read.batch : DimensionKey(p) = DimensionKey(r)

ProgressInv ==
    /\ read.at = "insert" =>
          /\ read.left \subseteq read.batch
          /\ \A q \in read.batch \ read.left : Written(q)
    /\ read.at \in {"supersede", "check"} => \A q \in read.batch : Written(q)
    /\ read.at = "supersede" =>
          /\ read.left \subseteq {[campaign |-> q.campaign] : q \in read.batch}
          /\ \A q \in read.batch : [campaign |-> q.campaign] \notin read.left => Purged(q)
    /\ read.at = "check" => \A q \in read.batch : Purged(q)

StoreInv == KeysApart(table) /\ BatchInv /\ ProgressInv /\ StoredAsRead

LEMMA KeyFields ==
    ASSUME NEW r, NEW q
    PROVE  DimensionKey(r) = DimensionKey(q)
              <=> r.campaign = q.campaign /\ r.country = q.country /\ r.platform = q.platform
<1>1. /\ DimensionKey(r).campaign = r.campaign /\ DimensionKey(q).campaign = q.campaign
      /\ DimensionKey(r).country = r.country /\ DimensionKey(q).country = q.country
      /\ DimensionKey(r).platform = r.platform /\ DimensionKey(q).platform = q.platform
  BY DEF DimensionKey
<1> QED BY <1>1 DEF DimensionKey

LEMMA PageRows ==
    ASSUME DevicesApart, NEW rung, NEW c
    PROVE  /\ KeysApart(Report(rung, c))
           /\ \A q \in Report(rung, c) : q.campaign = c
<1>1. CASE c > exists \/ TotalSpend(c) = 0
  BY <1>1 DEF Report, KeysApart
<1>2. CASE ~(c > exists \/ TotalSpend(c) = 0) /\ rung = 1
  <2>1. \A q \in Report(rung, c) : \E d \in Devices :
            q = [campaign |-> c, country |-> "US", platform |-> NormalizePlatform(d),
                 device |-> d, spend |-> spend[c][d]]
    BY <1>2 DEF Report
  <2>2. ASSUME NEW r \in Report(rung, c), NEW q \in Report(rung, c),
               DimensionKey(r) = DimensionKey(q)
        PROVE  r = q
    <3>1. PICK d \in Devices : r = [campaign |-> c, country |-> "US",
              platform |-> NormalizePlatform(d), device |-> d, spend |-> spend[c][d]]
      BY <2>1
    <3>2. PICK e \in Devices : q = [campaign |-> c, country |-> "US",
              platform |-> NormalizePlatform(e), device |-> e, spend |-> spend[c][e]]
      BY <2>1
    <3>3. NormalizePlatform(d) = NormalizePlatform(e)
      BY <2>2, <3>1, <3>2, KeyFields
    <3> QED BY <3>1, <3>2, <3>3 DEF DevicesApart
  <2> QED BY <2>1, <2>2 DEF KeysApart
<1>3. CASE ~(c > exists \/ TotalSpend(c) = 0) /\ rung # 1
  BY <1>3 DEF Report, KeysApart
<1> QED BY <1>1, <1>2, <1>3

LEMMA UpsertedSame ==
    ASSUME NEW q
    PROVE  Same(UpsertedRow(q), q) /\ UpsertedRow(q).campaign = q.campaign
BY DEF UpsertedRow, DimensionKey, Same

\* A window that stores nothing now and is left, or is not yet storing, owes nothing.
LEMMA NothingOwed ==
    ASSUME StoreInv, UNCHANGED <<table, asRead>>, BatchInv', read'.at \in {"idle", "fetch"}
    PROVE  StoreInv'
BY DEF StoreInv, ProgressInv, StoredAsRead, KeysApart

\* A page adds rows of a campaign that no earlier page had.
LEMMA ReceivePageStores == DevicesApart /\ TraceInv /\ StoreInv /\ ReceivePage => StoreInv'
<1> SUFFICES ASSUME DevicesApart, TraceInv, StoreInv, ReceivePage PROVE StoreInv'
  OBVIOUS
<1> DEFINE rows == IF read.page \in Campaigns THEN Report(read.rung, read.page) ELSE {}
<1>1. \/ read' = [read EXCEPT !.at = IF read.batch \cup rows = {} THEN "check" ELSE "insert",
                              !.batch = @ \cup rows, !.left = read.batch \cup rows, !.tries = 0]
      \/ read' = Ended("pagination_failure")
      \/ read' = [read EXCEPT !.page = @ + 1, !.batch = @ \cup rows, !.tries = 0]
  BY DEF ReceivePage
<1>2. table' = table /\ asRead' = asRead /\ read.at = "fetch"
  BY DEF ReceivePage
<1>3. KeysApart(rows) /\ \A q \in rows : q.campaign = read.page /\ q.campaign \in Campaigns
  BY PageRows DEF KeysApart
<1> HIDE DEF rows
<1>4. read \in Reads(raw) /\ read.page \in Nat
  BY DEF TraceInv, BatchIsRaw, Reads
<1>5. /\ KeysApart(read.batch \cup rows)
      /\ \A q \in read.batch \cup rows : q.campaign \in Campaigns /\ q.campaign < read.page + 1
  <2>1. \A q \in read.batch : q.campaign \in Campaigns /\ q.campaign < read.page
    BY <1>2 DEF StoreInv, BatchInv
  <2>2. \A q \in read.batch, r \in rows : DimensionKey(q) # DimensionKey(r)
    <3>1. \A q \in read.batch, r \in rows : q.campaign # r.campaign
      BY <1>3, <1>4, <2>1 DEF Campaigns
    <3> QED BY <3>1, KeyFields
  <2>3. KeysApart(read.batch \cup rows)
    BY <1>3, <2>2 DEF StoreInv, BatchInv, KeysApart
  <2>4. \A q \in read.batch \cup rows : q.campaign \in Campaigns /\ q.campaign < read.page + 1
    BY <1>3, <1>4, <2>1 DEF Campaigns
  <2> QED BY <2>3, <2>4
<1>6. CASE read' = Ended("pagination_failure")
  <2>1. read'.batch = {} /\ read'.at = "idle"
    BY <1>6 DEF Ended, Idle
  <2>2. BatchInv'
    BY <2>1 DEF BatchInv, KeysApart
  <2> QED BY <1>2, <2>1, <2>2, NothingOwed
<1>7. CASE read' = [read EXCEPT !.page = @ + 1, !.batch = @ \cup rows, !.tries = 0]
  <2>1. read'.page = read.page + 1 /\ read'.batch = read.batch \cup rows /\ read'.at = "fetch"
    BY <1>2, <1>4, <1>7 DEF Reads
  <2>2. BatchInv'
    BY <1>5, <2>1 DEF BatchInv, KeysApart, DimensionKey, Campaigns
  <2> QED BY <1>2, <2>1, <2>2, NothingOwed
<1>8. CASE read' = [read EXCEPT !.at = IF read.batch \cup rows = {} THEN "check" ELSE "insert",
                               !.batch = @ \cup rows, !.left = read.batch \cup rows, !.tries = 0]
  <2>1. /\ read'.batch = read.batch \cup rows /\ read'.left = read'.batch
        /\ read'.at = IF read'.batch = {} THEN "check" ELSE "insert"
    BY <1>4, <1>8 DEF Reads
  <2>2. BatchInv'
    BY <1>5, <2>1 DEF BatchInv, KeysApart, DimensionKey, Campaigns
  <2>3. ProgressInv'
    BY <2>1 DEF ProgressInv
  <2>4. StoredAsRead' /\ KeysApart(table)'
    BY <1>2 DEF StoreInv, StoredAsRead, KeysApart
  <2> QED BY <2>2, <2>3, <2>4 DEF StoreInv
<1> QED BY <1>1, <1>6, <1>7, <1>8

\* A chunk replaces the rows of its keys and touches no other campaign's.
LEMMA InsertChunkStores == TraceInv /\ StoreInv /\ InsertChunk => StoreInv'
<1> SUFFICES ASSUME TraceInv, StoreInv, InsertChunk PROVE StoreInv'
  OBVIOUS
<1>1. PICK chunk \in SUBSET read.left :
          IF \E r, q \in chunk : r # q /\ DimensionKey(r) = DimensionKey(q)
          THEN read' = Ended("unknown_error") /\ UNCHANGED <<table, asRead>>
          ELSE /\ table' = {r \in table : \A q \in chunk : DimensionKey(q) # DimensionKey(r)}
                           \cup {UpsertedRow(q) : q \in chunk}
               /\ asRead' = [c \in Campaigns |->
                                IF \E q \in chunk : q.campaign = c THEN {} ELSE asRead[c]]
               /\ read' = IF chunk = read.left
                          THEN [read EXCEPT !.at = "supersede",
                                   !.left = {[campaign |-> q.campaign] : q \in read.batch}]
                          ELSE [read EXCEPT !.left = @ \ chunk]
  BY DEF InsertChunk, kSubset
<1>2. read.at = "insert" /\ read \in Reads(raw)
  BY DEF InsertChunk, TraceInv, BatchIsRaw
<1>3. chunk \subseteq read.batch /\ \A q \in read.batch : q.campaign \in Campaigns
  BY <1>1, <1>2 DEF StoreInv, ProgressInv, BatchInv
<1>4. CASE \E r, q \in chunk : r # q /\ DimensionKey(r) = DimensionKey(q)
  <2>1. read'.batch = {} /\ read'.at = "idle" /\ UNCHANGED <<table, asRead>>
    BY <1>1, <1>4 DEF Ended, Idle
  <2>2. BatchInv'
    BY <2>1 DEF BatchInv, KeysApart
  <2> QED BY <2>1, <2>2, NothingOwed
<1>5. CASE KeysApart(chunk)
  <2>1. /\ table' = {r \in table : \A q \in chunk : DimensionKey(q) # DimensionKey(r)}
                    \cup {UpsertedRow(q) : q \in chunk}
        /\ \A c \in Campaigns : asRead'[c] = IF \E q \in chunk : q.campaign = c THEN {} ELSE asRead[c]
    BY <1>1, <1>5 DEF KeysApart
  <2>2. \A r \in table' : \/ r \in table /\ \A q \in chunk : DimensionKey(q) # DimensionKey(r)
                         \/ \E q \in chunk : r = UpsertedRow(q)
    BY <2>1
  <2>3. \A q \in chunk : DimensionKey(UpsertedRow(q)) = DimensionKey(q)
    BY UpsertedSame DEF Same
  <2>4. KeysApart(table')
    <3>1. ASSUME NEW r \in table', NEW s \in table', DimensionKey(r) = DimensionKey(s) PROVE r = s
      <4>1. CASE r \in table /\ s \in table
        BY <3>1, <4>1 DEF StoreInv, KeysApart
      <4>2. CASE \E q \in chunk : r = UpsertedRow(q)
        <5>1. PICK q \in chunk : r = UpsertedRow(q)
          BY <4>2
        <5>2. DimensionKey(s) = DimensionKey(q)
          BY <2>3, <3>1, <5>1
        <5>3. PICK p \in chunk : s = UpsertedRow(p)
          BY <2>2, <5>2
        <5>4. p = q
          BY <1>5, <2>3, <5>2, <5>3 DEF KeysApart
        <5> QED BY <5>1, <5>3, <5>4
      <4>3. CASE \E q \in chunk : s = UpsertedRow(q)
        <5>1. PICK q \in chunk : s = UpsertedRow(q)
          BY <4>3
        <5>2. DimensionKey(r) = DimensionKey(q)
          BY <2>3, <3>1, <5>1
        <5>3. PICK p \in chunk : r = UpsertedRow(p)
          BY <2>2, <5>2
        <5>4. p = q
          BY <1>5, <2>3, <5>2, <5>3 DEF KeysApart
        <5> QED BY <5>1, <5>3, <5>4
      <4> QED BY <2>2, <4>1, <4>2, <4>3
    <3> QED BY <3>1 DEF KeysApart
  <2>5. \A q \in chunk : Written(q)'
    <3>1. ASSUME NEW q \in chunk PROVE (\E r \in table' : Same(r, q)) /\ asRead'[q.campaign] = {}
      <4>1. UpsertedRow(q) \in table' /\ Same(UpsertedRow(q), q)
        BY <2>1, UpsertedSame
      <4>2. asRead'[q.campaign] = {}
        BY <1>3, <2>1
      <4> QED BY <4>1, <4>2
    <3> QED BY <3>1 DEF Written, Same, DimensionKey
  <2>6. \A q \in read.batch \ read.left : Written(q)'
    <3>1. ASSUME NEW q \in read.batch, q \notin read.left
          PROVE  (\E r \in table' : Same(r, q)) /\ asRead'[q.campaign] = {}
      <4>1. Written(q)
        BY <1>2, <3>1 DEF StoreInv, ProgressInv
      <4>2. PICK r \in table : Same(r, q)
        BY <4>1 DEF Written
      <4>3. \A p \in chunk : DimensionKey(p) # DimensionKey(q)
        BY <1>3, <3>1 DEF StoreInv, BatchInv, KeysApart
      <4>4. r \in table'
        BY <2>1, <4>2, <4>3 DEF Same
      <4>5. asRead'[q.campaign] = {}
        BY <1>3, <2>1, <4>1 DEF Written
      <4> QED BY <4>2, <4>4, <4>5
    <3> QED BY <3>1 DEF Written, Same, DimensionKey
  <2>7. StoredAsRead'
    <3>1. ASSUME NEW c \in Campaigns, asRead'[c] # {}
          PROVE  {r \in table' : r.campaign = c} = {r \in table : r.campaign = c} /\ asRead'[c] = asRead[c]
      <4>1. asRead'[c] = asRead[c] /\ \A q \in chunk : q.campaign # c
        BY <2>1, <3>1
      <4>2. \A r \in table : r.campaign = c => r \in table'
        BY <2>1, <4>1, KeyFields
      <4>3. \A r \in table' : r.campaign = c => r \in table
        BY <2>2, <4>1, UpsertedSame
      <4> QED BY <4>1, <4>2, <4>3
    <3> QED BY <3>1 DEF StoreInv, StoredAsRead, DimensionKey
  <2>8. read'.batch = read.batch
    BY <1>1, <1>2, <1>5 DEF Reads, KeysApart
  <2>9. CASE chunk = read.left
    <3>1. /\ read'.at = "supersede"
          /\ read'.left = {[campaign |-> q.campaign] : q \in read.batch}
      BY <1>1, <1>2, <1>5, <2>9 DEF Reads, KeysApart
    <3>2. \A q \in read.batch : Written(q)'
      BY <2>5, <2>6, <2>9
    <3>3. ProgressInv'
      BY <2>8, <3>1, <3>2 DEF ProgressInv
    <3>4. BatchInv'
      BY <2>8, <3>1 DEF StoreInv, BatchInv, KeysApart, DimensionKey
    <3> QED BY <2>4, <2>7, <3>3, <3>4 DEF StoreInv, KeysApart, DimensionKey
  <2>10. CASE chunk # read.left
    <3>1. read'.at = "insert" /\ read'.left = read.left \ chunk
      BY <1>1, <1>2, <1>5, <2>10 DEF Reads, KeysApart
    <3>2. read.left \subseteq read.batch
      BY <1>2 DEF StoreInv, ProgressInv
    <3>3. \A q \in read.batch \ read'.left : Written(q)'
      BY <2>5, <2>6, <3>1, <3>2
    <3>4. ProgressInv'
      BY <2>8, <3>1, <3>2, <3>3 DEF ProgressInv
    <3>5. BatchInv'
      BY <2>8, <3>1 DEF StoreInv, BatchInv, KeysApart, DimensionKey
    <3> QED BY <2>4, <2>7, <3>4, <3>5 DEF StoreInv, KeysApart, DimensionKey
  <2> QED BY <2>9, <2>10
<1> QED BY <1>4, <1>5 DEF KeysApart

\* A supersession purges its own campaign and keeps what the batch has of it.
LEMMA SupersedeStores == TraceInv /\ StoreInv /\ SupersedeRestatedDimensions => StoreInv'
<1> SUFFICES ASSUME TraceInv, StoreInv, SupersedeRestatedDimensions PROVE StoreInv'
  OBVIOUS
<1>1. PICK k \in read.left :
          /\ table' = {r \in table : r.campaign = k.campaign =>
                         \E q \in read.batch : DimensionKey(q) = DimensionKey(r)}
          /\ read' = [read EXCEPT !.left = @ \ {k},
                                 !.at = IF read.left = {k} THEN "check" ELSE @]
  BY DEF SupersedeRestatedDimensions
<1>2. read.at = "supersede" /\ read \in Reads(raw) /\ asRead' = asRead
  BY DEF SupersedeRestatedDimensions, TraceInv, BatchIsRaw
<1>3. /\ read.left \subseteq {[campaign |-> q.campaign] : q \in read.batch}
      /\ \A q \in read.batch : Written(q)
      /\ \A q \in read.batch : [campaign |-> q.campaign] \notin read.left => Purged(q)
  BY <1>2 DEF StoreInv, ProgressInv
<1>4. PICK own \in read.batch : k = [campaign |-> own.campaign]
  BY <1>1, <1>3
<1>5. /\ read'.batch = read.batch /\ read'.left = read.left \ {k}
      /\ read'.at = IF read.left = {k} THEN "check" ELSE "supersede"
  BY <1>1, <1>2 DEF Reads
<1>6. table' \subseteq table
  BY <1>1
<1>7. KeysApart(table')
  BY <1>6 DEF StoreInv, KeysApart
<1>8. ASSUME NEW q \in read.batch PROVE Written(q)'
  <2>1. PICK r \in table : Same(r, q)
    BY <1>3 DEF Written
  <2>2. r \in table'
    BY <1>1, <2>1 DEF Same
  <2>3. asRead'[q.campaign] = {}
    BY <1>2, <1>3 DEF Written
  <2> QED BY <2>1, <2>2, <2>3 DEF Written, Same, DimensionKey
<1>9. ASSUME NEW q \in read.batch, [campaign |-> q.campaign] \notin read'.left PROVE Purged(q)'
  <2>1. CASE [campaign |-> q.campaign] = k
    <3>1. q.campaign = k.campaign
      BY <2>1
    <3>2. \A r \in table' : r.campaign = q.campaign =>
              \E p \in read'.batch : DimensionKey(p) = DimensionKey(r)
      BY <1>1, <1>5, <3>1
    <3> QED BY <3>2 DEF Purged, DimensionKey
  <2>2. CASE [campaign |-> q.campaign] # k
    <3>1. Purged(q)
      BY <1>3, <1>5, <1>9, <2>2
    <3>2. \A r \in table' : r.campaign = q.campaign =>
              \E p \in read'.batch : DimensionKey(p) = DimensionKey(r)
      BY <1>5, <1>6, <3>1 DEF Purged
    <3> QED BY <3>2 DEF Purged, DimensionKey
  <2> QED BY <2>1, <2>2
<1>10. StoredAsRead'
  <2>1. asRead[k.campaign] = {}
    BY <1>3, <1>4 DEF Written
  <2>2. ASSUME NEW c \in Campaigns, asRead'[c] # {}
        PROVE  {r \in table' : r.campaign = c} = {r \in table : r.campaign = c} /\ asRead'[c] = asRead[c]
    BY <1>1, <1>2, <2>1, <2>2
  <2> QED BY <2>2 DEF StoreInv, StoredAsRead, DimensionKey
<1>11. BatchInv'
  BY <1>5 DEF StoreInv, BatchInv, KeysApart, DimensionKey
<1>12. ProgressInv'
  <2>1. read'.at = "supersede" => read'.left \subseteq {[campaign |-> q.campaign] : q \in read'.batch}
    BY <1>3, <1>5
  <2>2. read'.at = "check" => read'.left = {}
    BY <1>5
  <2> QED BY <1>5, <1>8, <1>9, <2>1, <2>2 DEF ProgressInv
<1> QED BY <1>7, <1>10, <1>11, <1>12 DEF StoreInv, KeysApart, DimensionKey

\* At its end a window is entitled to the promise.
LEMMA CheckBatchStores == StoreInv /\ CheckBatch => StoreInv'
<1> SUFFICES ASSUME StoreInv, CheckBatch PROVE StoreInv'
  OBVIOUS
<1>1. /\ read.at = "check" /\ table' = table /\ read' = Ended("stored")
      /\ asRead' = [c \in Campaigns |-> IF \E q \in read.batch : q.campaign = c
                                       THEN {q \in read.batch : q.campaign = c} ELSE asRead[c]]
  BY DEF CheckBatch
<1>2. \A q \in read.batch : Written(q) /\ Purged(q)
  BY <1>1 DEF StoreInv, ProgressInv
<1>3. ASSUME NEW c \in Campaigns, asRead'[c] # {}
      PROVE  {[key |-> DimensionKey(r), spend |-> r.spend] : r \in {r \in table : r.campaign = c}}
             = {[key |-> DimensionKey(q), spend |-> q.spend] : q \in asRead'[c]}
  <2>1. CASE \E q \in read.batch : q.campaign = c
    <3>1. asRead'[c] = {q \in read.batch : q.campaign = c}
      BY <1>1, <2>1
    <3>2. ASSUME NEW r \in table, r.campaign = c
          PROVE  \E q \in read.batch : q.campaign = c /\ Same(r, q)
      <4>1. PICK p \in read.batch : DimensionKey(p) = DimensionKey(r)
        BY <1>2, <2>1, <3>2 DEF Purged
      <4>2. PICK s \in table : Same(s, p)
        BY <1>2 DEF Written
      <4>3. s = r
        BY <4>1, <4>2 DEF StoreInv, KeysApart, Same
      <4>4. p.campaign = c
        BY <3>2, <4>1, KeyFields
      <4> QED BY <4>2, <4>3, <4>4
    <3>3. ASSUME NEW q \in read.batch, q.campaign = c
          PROVE  \E r \in table : r.campaign = c /\ Same(r, q)
      <4>1. PICK r \in table : Same(r, q)
        BY <1>2 DEF Written
      <4>2. r.campaign = c
        BY <3>3, <4>1, KeyFields DEF Same
      <4> QED BY <4>1, <4>2
    <3> QED BY <3>1, <3>2, <3>3 DEF Same
  <2>2. CASE ~\E q \in read.batch : q.campaign = c
    <3>1. asRead'[c] = asRead[c]
      BY <1>1, <2>2
    <3> QED BY <1>3, <3>1 DEF StoreInv, StoredAsRead
  <2> QED BY <2>1, <2>2
<1>4. StoredAsRead'
  BY <1>1, <1>3 DEF StoredAsRead, DimensionKey
<1>5. read'.batch = {} /\ read'.at = "idle"
  BY <1>1 DEF Ended, Idle
<1>6. BatchInv' /\ ProgressInv'
  BY <1>5 DEF BatchInv, ProgressInv, KeysApart
<1> QED BY <1>1, <1>4, <1>6 DEF StoreInv, KeysApart

LEMMA StoreStep == DevicesApart /\ TraceInv /\ StoreInv /\ [Next]_vars => StoreInv'
<1> SUFFICES ASSUME DevicesApart, TraceInv, StoreInv, [Next]_vars PROVE StoreInv'
  OBVIOUS
<1>1. CASE Revise \/ NewCampaign \/ ChangeBreakdowns \/ UNCHANGED vars
  <2>1. UNCHANGED <<read, table, asRead>>
    BY <1>1 DEF Revise, NewCampaign, ChangeBreakdowns, vars
  <2> QED BY <2>1 DEF StoreInv, BatchInv, ProgressInv, StoredAsRead, KeysApart, Written, Purged,
                      Same, DimensionKey
<1>2. CASE BeginWindow \/ StepDown \/ WindowInterrupted
  <2>1. UNCHANGED <<table, asRead>>
    BY <1>2 DEF BeginWindow, StepDown, WindowInterrupted
  <2>2. read'.batch = {} /\ read'.at \in {"idle", "fetch"}
    BY <1>2 DEF BeginWindow, StepDown, WindowInterrupted, Ended, Idle
  <2>3. BatchInv'
    BY <2>2 DEF BatchInv, KeysApart
  <2> QED BY <2>1, <2>2, <2>3, NothingOwed
<1>3. CASE MeetTrouble
  <2>1. PICK answer \in Trouble :
            read' = IF SentAgain(answer, read.tries + 1)
                    THEN [read EXCEPT !.tries = read.tries + 1] ELSE Ended(ClassOf(answer))
    BY <1>3 DEF MeetTrouble
  <2>2. read.at = "fetch" /\ UNCHANGED <<table, asRead>> /\ read \in Reads(raw)
    BY <1>3 DEF MeetTrouble, TraceInv, BatchIsRaw
  <2>3. CASE read' = [read EXCEPT !.tries = read.tries + 1]
    <3>1. read'.batch = read.batch /\ read'.at = "fetch" /\ read'.page = read.page
      BY <2>2, <2>3 DEF Reads
    <3>2. BatchInv'
      BY <2>2, <3>1 DEF StoreInv, BatchInv, KeysApart, DimensionKey
    <3> QED BY <2>2, <3>1, <3>2, NothingOwed
  <2>4. CASE read' = Ended(ClassOf(answer))
    <3>1. read'.batch = {} /\ read'.at = "idle"
      BY <2>4 DEF Ended, Idle
    <3>2. BatchInv'
      BY <3>1 DEF BatchInv, KeysApart
    <3> QED BY <2>2, <3>1, <3>2, NothingOwed
  <2> QED BY <2>1, <2>3, <2>4
<1> QED BY <1>1, <1>2, <1>3, ReceivePageStores, InsertChunkStores, SupersedeStores,
           CheckBatchStores DEF Next, ReadWindow

\* After a completed window storage has exactly what it read of a campaign, until
\* another writes it, for any ladder, chunks, failures and revisions; provided no
\* two devices of the account become one platform.
THEOREM StorageIsTheRead ==
    ASSUME DevicesApart PROVE Spec => []StoredAsRead
<1>1. Init => TraceInv /\ StoreInv
  <2>1. Idle \in Reads({}) /\ Idle.at = "idle" /\ Idle.batch = {}
    BY EmptyHanded, DeliveryAssumption DEF Idle, Rungs
  <2> QED BY <2>1 DEF Init, TraceInv, BatchIsRaw, TracedToRaw, StoreInv, BatchInv, ProgressInv,
                      StoredAsRead, KeysApart
<1>2. StoreInv => StoredAsRead
  BY DEF StoreInv
<1>3. TraceInv /\ StoreInv /\ [Next]_vars => TraceInv' /\ StoreInv'
  BY TraceStep, StoreStep
<1> QED BY <1>1, <1>2, <1>3, PTL DEF Spec

(***************************************************************************)
(* Generations.  A row may be as many revisions old as its number has been *)
(* read; a row in hand may be old too, and what it would count as when it  *)
(* is stored must already be covered by revisions that happened.           *)
(***************************************************************************)

\* The provider says so at present.
Current(row) ==
    /\ row.campaign \in Campaigns
    /\ \E rung \in Rungs : \E q \in Report(rung, row.campaign) : Same(q, row)

\* A row counted n times is accounted for.
Counted(row, n) == n \in Nat /\ n <= revisions /\ (n < revisions \/ Current(row))

Due(q) ==
    /\ \A r \in table : DimensionKey(r) = DimensionKey(q) =>
           Counted(q, r.generation + IF r.spend = q.spend THEN 0 ELSE 1)
    /\ Stored(DimensionKey(q)) = {} => Counted(q, 0)

GenerationInv ==
    /\ revisions \in Nat
    /\ \A r \in table : Counted(r, r.generation)
    /\ read.at = "fetch" => \A q \in read.batch : Due(q)
    /\ read.at = "insert" => \A q \in read.left : Due(q)

LEMMA OneAnswer ==
    ASSUME DevicesNormalised, DevicesApart, NEW row, NEW other, Current(row), Current(other),
           DimensionKey(row) = DimensionKey(other)
    PROVE  row.spend = other.spend
<1>1. row.campaign = other.campaign
  BY KeyFields
<1>2. PICK rung \in Rungs : \E q \in Report(rung, row.campaign) : Same(q, row)
  BY DEF Current
<1>3. PICK q \in Report(rung, row.campaign) : Same(q, row)
  BY <1>2
<1>4. PICK step \in Rungs : \E p \in Report(step, row.campaign) : Same(p, other)
  BY <1>1 DEF Current
<1>5. PICK p \in Report(step, row.campaign) : Same(p, other)
  BY <1>4
<1>6. DimensionKey(q) = DimensionKey(p)
  BY <1>3, <1>5 DEF Same
<1>7. q.platform = p.platform /\ q.country = p.country
  BY <1>6, KeyFields
<1>8. rung = step
  <2>1. ASSUME NEW g \in Rungs, NEW r \in Report(g, row.campaign)
        PROVE  /\ g = 1 <=> r.platform # "unknown"
               /\ g = 3 <=> r.country = "none"
    <3>1. /\ r.platform = "unknown" => g # 1
          /\ r.country = "none" => g = 3
      BY ReportedRows
    <3>2. g # 1 => r.platform = "unknown" /\ (g = 3 => r.country = "none")
      BY DEF Report, Rungs
    <3> QED BY <3>1, <3>2
  <2>2. (rung = 1 <=> step = 1) /\ (rung = 3 <=> step = 3)
    BY <1>3, <1>5, <1>7, <2>1
  <2> QED BY <2>2 DEF Rungs
<1>9. q = p
  BY <1>6, <1>8, PageRows DEF KeysApart
<1> QED BY <1>3, <1>5, <1>9 DEF Same

\* A revision makes room for one more of everything; a new campaign revises none.
LEMMA ProviderMoves ==
    ASSUME revisions \in Nat, exists \in Nat,
           Revise \/ NewCampaign \/ ChangeBreakdowns, NEW row, NEW n, Counted(row, n)
    PROVE  revisions' \in Nat /\ Counted(row, n)'
<1>1. CASE Revise \/ ChangeBreakdowns
  <2>1. revisions' = revisions + 1
    BY <1>1 DEF Revise, ChangeBreakdowns
  <2> QED BY <2>1 DEF Counted
<1>2. CASE NewCampaign
  <2>1. revisions' = revisions /\ spend' = spend /\ exists' = exists + 1
    BY <1>2 DEF NewCampaign
  <2>2. ASSUME NEW rung, NEW c \in Campaigns, NEW q \in Report(rung, c) PROVE q \in Report(rung, c)'
    <3>1. ~(c > exists \/ TotalSpend(c) = 0)
      BY <2>2 DEF Report
    <3>2. TotalSpend(c)' = TotalSpend(c)
      BY <2>1 DEF TotalSpend
    <3>3. ~(c > exists')
      BY <2>1, <3>1 DEF Campaigns
    <3> QED BY <2>1, <2>2, <3>1, <3>2, <3>3 DEF Report
  <2>3. Current(row) => Current(row)'
    BY <2>2 DEF Current, Same, DimensionKey
  <2> QED BY <2>1, <2>3 DEF Counted
<1> QED BY <1>1, <1>2

LEMMA CountedAlike ==
    ASSUME NEW row, NEW other, NEW n, Counted(row, n), Same(other, row)
    PROVE  Counted(other, n)
<1>1. other.campaign = row.campaign
  BY KeyFields DEF Same
<1> QED BY <1>1 DEF Counted, Current, Same

\* What the provider says now is due.
LEMMA CurrentIsDue ==
    ASSUME DevicesNormalised, DevicesApart, GenerationInv, NEW q, Current(q)
    PROVE  Due(q)
<1>1. ASSUME NEW r \in table, DimensionKey(r) = DimensionKey(q)
      PROVE  Counted(q, r.generation + IF r.spend = q.spend THEN 0 ELSE 1)
  <2>1. Counted(r, r.generation) /\ revisions \in Nat
    BY DEF GenerationInv
  <2>2. CASE r.generation < revisions
    BY <2>1, <2>2 DEF Counted
  <2>3. CASE Current(r)
    <3>1. r.spend = q.spend
      BY <1>1, <2>3, OneAnswer
    <3> QED BY <2>1, <3>1 DEF Counted
  <2> QED BY <2>1, <2>2, <2>3 DEF Counted
<1>2. Counted(q, 0)
  BY DEF GenerationInv, Counted
<1> QED BY <1>1, <1>2 DEF Due

\* Steps that leave the provider and the table alone change nothing that is due.
LEMMA DueStays ==
    ASSUME UNCHANGED <<provider, table>>
    PROVE  /\ \A q : Due(q)' <=> Due(q)
           /\ \A row, n : Counted(row, n)' <=> Counted(row, n)
<1>1. UNCHANGED <<spend, exists, revisions>>
  BY DEF provider
<1>2. \A row : Current(row)' <=> Current(row)
  <2>1. \A rung, c : Report(rung, c)' = Report(rung, c)
    BY <1>1 DEF Report, TotalSpend
  <2> QED BY <2>1 DEF Current, Same, DimensionKey
<1>3. \A row, n : Counted(row, n)' <=> Counted(row, n)
  BY <1>1, <1>2 DEF Counted
<1> QED BY <1>3 DEF Due, Stored, DimensionKey

LEMMA InsertChunkCounts ==
    TraceInv /\ StoreInv /\ GenerationInv /\ InsertChunk => GenerationInv'
<1> SUFFICES ASSUME TraceInv, StoreInv, GenerationInv, InsertChunk PROVE GenerationInv'
  OBVIOUS
<1>1. PICK chunk \in SUBSET read.left :
          IF \E r, q \in chunk : r # q /\ DimensionKey(r) = DimensionKey(q)
          THEN read' = Ended("unknown_error") /\ UNCHANGED table
          ELSE /\ table' = {r \in table : \A q \in chunk : DimensionKey(q) # DimensionKey(r)}
                           \cup {UpsertedRow(q) : q \in chunk}
               /\ read' = IF chunk = read.left
                          THEN [read EXCEPT !.at = "supersede",
                                   !.left = {[campaign |-> q.campaign] : q \in read.batch}]
                          ELSE [read EXCEPT !.left = @ \ chunk]
  BY DEF InsertChunk, kSubset
<1>2. read.at = "insert" /\ read \in Reads(raw) /\ UNCHANGED provider
  BY DEF InsertChunk, TraceInv, BatchIsRaw
<1>3. KeysApart(read.left) /\ \A q \in read.left : Due(q)
  BY <1>2 DEF StoreInv, ProgressInv, BatchInv, KeysApart, GenerationInv
<1>4. revisions' = revisions /\ revisions \in Nat
  BY <1>2 DEF provider, GenerationInv
<1>5. \A row, n : Counted(row, n)' <=> Counted(row, n)
  <2>1. UNCHANGED <<spend, exists, revisions>>
    BY <1>2 DEF provider
  <2>2. \A rung, c : Report(rung, c)' = Report(rung, c)
    BY <2>1 DEF Report, TotalSpend
  <2>3. \A row : Current(row)' <=> Current(row)
    BY <2>2 DEF Current, Same, DimensionKey
  <2> QED BY <2>1, <2>3 DEF Counted
<1>6. ASSUME NEW q \in chunk PROVE Counted(UpsertedRow(q), UpsertedRow(q).generation)
  <2>1. Due(q)
    BY <1>1, <1>3
  <2>2. CASE Stored(DimensionKey(q)) = {}
    <3>1. UpsertedRow(q).generation = 0
      BY <2>2 DEF UpsertedRow
    <3> QED BY <2>1, <2>2, <3>1, UpsertedSame, CountedAlike DEF Due
  <2>3. CASE Stored(DimensionKey(q)) # {}
    <3> DEFINE old == CHOOSE r \in Stored(DimensionKey(q)) : TRUE
    <3>1. old \in Stored(DimensionKey(q))
      BY <2>3
    <3>2. old \in table /\ DimensionKey(old) = DimensionKey(q)
      BY <3>1 DEF Stored
    <3>3. UpsertedRow(q).generation = old.generation + IF old.spend = q.spend THEN 0 ELSE 1
      BY <2>3 DEF UpsertedRow
    <3> HIDE DEF old
    <3>4. Counted(q, UpsertedRow(q).generation)
      BY <2>1, <3>2, <3>3 DEF Due
    <3> QED BY <3>4, UpsertedSame, CountedAlike
  <2> QED BY <2>2, <2>3
<1>7. CASE read' = Ended("unknown_error") /\ UNCHANGED table
  <2>1. read'.at = "idle"
    BY <1>7 DEF Ended, Idle
  <2> QED BY <1>4, <1>5, <1>7, <2>1 DEF GenerationInv
<1>8. CASE table' = {r \in table : \A q \in chunk : DimensionKey(q) # DimensionKey(r)}
                   \cup {UpsertedRow(q) : q \in chunk}
           /\ read' = IF chunk = read.left
                      THEN [read EXCEPT !.at = "supersede",
                               !.left = {[campaign |-> q.campaign] : q \in read.batch}]
                      ELSE [read EXCEPT !.left = @ \ chunk]
  <2>1. \A r \in table' : \/ r \in table
                         \/ \E q \in chunk : r = UpsertedRow(q)
    BY <1>8
  <2>2. \A r \in table' : Counted(r, r.generation)'
    BY <1>5, <1>6, <2>1 DEF GenerationInv
  <2>3. ASSUME NEW q \in read.left \ chunk PROVE Due(q)'
    <3>1. \A p \in chunk : DimensionKey(p) # DimensionKey(q)
      BY <1>1, <1>3 DEF KeysApart
    <3>2. \A r \in table' : DimensionKey(r) = DimensionKey(q) => r \in table
      BY <2>1, <3>1, UpsertedSame DEF Same
    <3>3. \A r \in table : DimensionKey(r) = DimensionKey(q) => r \in table'
      BY <1>8, <3>1
    <3>4. Stored(DimensionKey(q))' = Stored(DimensionKey(q))
      BY <3>2, <3>3 DEF Stored, DimensionKey
    <3>5. \A r \in table' : DimensionKey(r) = DimensionKey(q) =>
              Counted(q, r.generation + IF r.spend = q.spend THEN 0 ELSE 1)'
      BY <1>3, <1>5, <3>2 DEF Due
    <3>6. Stored(DimensionKey(q))' = {} => Counted(q, 0)'
      BY <1>3, <1>5, <3>4 DEF Due
    <3> QED BY <3>5, <3>6 DEF Due, DimensionKey
  <2>4. CASE chunk = read.left
    <3>1. read'.at = "supersede"
      BY <1>2, <1>8, <2>4 DEF Reads
    <3> QED BY <1>4, <2>2, <3>1 DEF GenerationInv
  <2>5. CASE chunk # read.left
    <3>1. read'.at = "insert" /\ read'.left = read.left \ chunk
      BY <1>2, <1>8, <2>5 DEF Reads
    <3> QED BY <1>4, <2>2, <2>3, <3>1 DEF GenerationInv
  <2> QED BY <2>4, <2>5
<1> QED BY <1>1, <1>7, <1>8

LEMMA ReceivePageCounts ==
    DevicesNormalised /\ DevicesApart /\ TraceInv /\ GenerationInv /\ ReceivePage
        => GenerationInv'
<1> SUFFICES ASSUME DevicesNormalised, DevicesApart, TraceInv, GenerationInv, ReceivePage
             PROVE  GenerationInv'
  OBVIOUS
<1> DEFINE rows == IF read.page \in Campaigns THEN Report(read.rung, read.page) ELSE {}
<1>1. \/ read' = [read EXCEPT !.at = IF read.batch \cup rows = {} THEN "check" ELSE "insert",
                              !.batch = @ \cup rows, !.left = read.batch \cup rows, !.tries = 0]
      \/ read' = Ended("pagination_failure")
      \/ read' = [read EXCEPT !.page = @ + 1, !.batch = @ \cup rows, !.tries = 0]
  BY DEF ReceivePage
<1>2. read.at = "fetch" /\ read \in Reads(raw) /\ UNCHANGED <<provider, table>>
  BY DEF ReceivePage, TraceInv, BatchIsRaw
<1>3. ASSUME NEW q \in rows PROVE Due(q)
  <2>1. read.page \in Campaigns /\ read.rung \in Rungs
    BY <1>2, <1>3 DEF Reads
  <2>2. q \in Report(read.rung, read.page)
    BY <2>1
  <2>3. q.campaign = read.page
    BY <2>2 DEF Report
  <2>4. Current(q)
    BY <2>1, <2>2, <2>3 DEF Current, Same
  <2> QED BY <2>4, CurrentIsDue
<1> HIDE DEF rows
<1>4. \A q \in read.batch \cup rows : Due(q)
  BY <1>2, <1>3 DEF GenerationInv
<1>5. /\ read'.at = "fetch" => read'.batch \subseteq read.batch \cup rows
      /\ read'.at = "insert" => read'.left \subseteq read.batch \cup rows
  <2>1. CASE read' = Ended("pagination_failure")
    BY <2>1 DEF Ended, Idle
  <2>2. CASE read' = [read EXCEPT !.page = @ + 1, !.batch = @ \cup rows, !.tries = 0]
    BY <1>2, <2>2 DEF Reads
  <2>3. CASE read' = [read EXCEPT !.at = IF read.batch \cup rows = {} THEN "check" ELSE "insert",
                             !.batch = @ \cup rows, !.left = read.batch \cup rows, !.tries = 0]
    BY <1>2, <2>3 DEF Reads
  <2> QED BY <1>1, <2>1, <2>2, <2>3
<1>6. /\ \A q : Due(q)' <=> Due(q)
      /\ \A row, n : Counted(row, n)' <=> Counted(row, n)
  BY <1>2, DueStays
<1>7. revisions' = revisions /\ table' = table
  BY <1>2 DEF provider
<1> QED BY <1>4, <1>5, <1>6, <1>7 DEF GenerationInv

LEMMA SupersedeCounts ==
    TraceInv /\ GenerationInv /\ SupersedeRestatedDimensions => GenerationInv'
<1> SUFFICES ASSUME TraceInv, GenerationInv, SupersedeRestatedDimensions PROVE GenerationInv'
  OBVIOUS
<1>1. /\ table' \subseteq table /\ UNCHANGED provider
      /\ read.at = "supersede" /\ read \in Reads(raw)
  BY DEF SupersedeRestatedDimensions, TraceInv, BatchIsRaw
<1>2. read'.at \in {"supersede", "check"}
  BY <1>1 DEF SupersedeRestatedDimensions, Reads
<1>3. UNCHANGED <<spend, exists, revisions>>
  BY <1>1 DEF provider
<1>4. \A rung, c : Report(rung, c)' = Report(rung, c)
  BY <1>3 DEF Report, TotalSpend
<1>5. \A row : Current(row)' <=> Current(row)
  BY <1>4 DEF Current, Same, DimensionKey
<1>6. \A row, n : Counted(row, n)' <=> Counted(row, n)
  BY <1>3, <1>5 DEF Counted
<1> QED BY <1>1, <1>2, <1>3, <1>6 DEF GenerationInv

\* What the provider does between two pages cannot make a number in hand count
\* for more than was revised.
LEMMA ProviderCounts ==
    ASSUME exists \in Nat, GenerationInv, Revise \/ NewCampaign \/ ChangeBreakdowns
    PROVE  GenerationInv'
<1>1. UNCHANGED <<read, table>> /\ revisions \in Nat
  BY DEF Revise, NewCampaign, ChangeBreakdowns, GenerationInv
<1>2. \A row, n : Counted(row, n) => Counted(row, n)'
  BY <1>1, ProviderMoves
<1>3. revisions' \in Nat
  BY <1>1 DEF Revise, NewCampaign, ChangeBreakdowns
<1>4. \A q : Due(q) => Due(q)'
  BY <1>1, <1>2 DEF Due, Stored, DimensionKey
<1> QED BY <1>1, <1>2, <1>3, <1>4 DEF GenerationInv

LEMMA GenerationStep ==
    DevicesNormalised /\ DevicesApart /\ TraceInv /\ StoreInv /\ GenerationInv
        /\ exists \in Nat /\ [Next]_vars => GenerationInv' /\ exists' \in Nat
<1> SUFFICES ASSUME DevicesNormalised, DevicesApart, TraceInv, StoreInv, GenerationInv,
                    exists \in Nat, [Next]_vars
             PROVE  GenerationInv' /\ exists' \in Nat
  OBVIOUS
<1>1. exists' \in Nat
  <2>1. CASE NewCampaign
    BY <2>1 DEF NewCampaign
  <2>2. ASSUME ~NewCampaign PROVE exists' = exists
    <3>1. Revise \/ ChangeBreakdowns => exists' = exists
      BY DEF Revise, ChangeBreakdowns
    <3>2. BeginWindow \/ WindowInterrupted \/ ReceivePage \/ StepDown => exists' = exists
      BY DEF BeginWindow, WindowInterrupted, ReceivePage, StepDown, provider
    <3>3. MeetTrouble \/ SupersedeRestatedDimensions \/ CheckBatch => exists' = exists
      BY DEF MeetTrouble, SupersedeRestatedDimensions, CheckBatch, provider
    <3>4. InsertChunk => exists' = exists
      BY DEF InsertChunk, provider
    <3>5. UNCHANGED vars => exists' = exists
      BY DEF vars, provider
    <3> QED BY <2>2, <3>1, <3>2, <3>3, <3>4, <3>5 DEF Next, ReadWindow
  <2> QED BY <2>1, <2>2
<1>2. ASSUME UNCHANGED <<provider, table>>,
             read'.at = "fetch" => read'.batch \subseteq (IF read.at = "fetch" THEN read.batch
                                                         ELSE {}),
             read'.at = "insert" => read.at = "insert" /\ read'.left = read.left
      PROVE  GenerationInv'
  <2>1. /\ \A q : Due(q)' <=> Due(q)
        /\ \A row, n : Counted(row, n)' <=> Counted(row, n)
    BY <1>2, DueStays
  <2>2. revisions' = revisions /\ table' = table
    BY <1>2 DEF provider
  <2> QED BY <1>2, <2>1, <2>2 DEF GenerationInv
<1>3. CASE BeginWindow \/ StepDown \/ WindowInterrupted \/ CheckBatch
  <2>1. UNCHANGED <<provider, table>>
    BY <1>3 DEF BeginWindow, StepDown, WindowInterrupted, CheckBatch
  <2>2. read'.batch = {} /\ read'.at # "insert"
    BY <1>3 DEF BeginWindow, StepDown, WindowInterrupted, CheckBatch, Ended, Idle
  <2> QED BY <1>1, <1>2, <2>1, <2>2
<1>4. CASE MeetTrouble
  <2>1. PICK answer \in Trouble :
            read' = IF SentAgain(answer, read.tries + 1)
                    THEN [read EXCEPT !.tries = read.tries + 1] ELSE Ended(ClassOf(answer))
    BY <1>4 DEF MeetTrouble
  <2>2. read.at = "fetch" /\ UNCHANGED <<provider, table>> /\ read \in Reads(raw)
    BY <1>4 DEF MeetTrouble, TraceInv, BatchIsRaw
  <2>3. \/ read'.at = "fetch" /\ read'.batch = read.batch
        \/ read'.at = "idle"
    BY <2>1, <2>2 DEF Reads, Ended, Idle
  <2> QED BY <1>1, <1>2, <2>2, <2>3
<1>5. CASE UNCHANGED vars
  <2>1. UNCHANGED <<provider, table, read>>
    BY <1>5 DEF vars
  <2> QED BY <1>1, <1>2, <2>1
<1> QED BY <1>1, <1>3, <1>4, <1>5, ReceivePageCounts, InsertChunkCounts, SupersedeCounts,
           ProviderCounts DEF Next, ReadWindow

DeliveryInv == TraceInv /\ StoreInv /\ GenerationInv /\ exists \in Nat

LEMMA DeliveryStarts == Init => DeliveryInv
<1>1. Idle \in Reads({}) /\ Idle.at = "idle" /\ Idle.batch = {}
  BY EmptyHanded, DeliveryAssumption DEF Idle, Rungs
<1>2. Init => TraceInv /\ StoreInv
  BY <1>1 DEF Init, TraceInv, BatchIsRaw, TracedToRaw, StoreInv, BatchInv, ProgressInv,
              StoredAsRead, KeysApart
<1>3. Init => GenerationInv /\ exists \in Nat
  BY <1>1, DeliveryAssumption DEF Init, GenerationInv, Campaigns, DeliveryAssumption
<1> QED BY <1>2, <1>3 DEF DeliveryInv

LEMMA DeliveryStep ==
    DevicesNormalised /\ DevicesApart /\ DeliveryInv /\ [Next]_vars => DeliveryInv'
BY TraceStep, StoreStep, GenerationStep DEF DeliveryInv

\* However often a window is read again, fails or is restarted, a row's
\* generation never passes the number of revisions the provider made; provided
\* every device is one of a known platform and no two are of the same.
THEOREM GenerationsCountRevisions ==
    ASSUME DevicesNormalised, DevicesApart PROVE Spec => []GenerationsAreRevisions
<1>1. Init => DeliveryInv
  BY DeliveryStarts
<1>2. DeliveryInv => GenerationsAreRevisions
  BY DEF DeliveryInv, GenerationInv, GenerationsAreRevisions, Counted
<1>3. DeliveryInv /\ [Next]_vars => DeliveryInv'
  BY DeliveryStep
<1> QED BY <1>1, <1>2, <1>3, PTL DEF Spec

(***************************************************************************)
(* Types.  The numbers and keys of a row are those of the page it came     *)
(* from; the bounds on pages, attempts and revisions are guards.           *)
(***************************************************************************)
RowTyped(row) ==
    DimensionKey(row) \in Keys /\ row.spend \in 1 .. MaxSpend * Cardinality(Devices)

ProviderTyped ==
    /\ spend \in [Campaigns -> [Devices -> 0 .. MaxSpend]]
    /\ exists \in Campaigns /\ revisions \in 0 .. MaxRevisions
    /\ refused \subseteq Rungs /\ everRefused \subseteq Rungs

ReadTyped == read.tries \in 0 .. MaxTries - 1 /\ \A q \in raw : RowTyped(q)

\* What the account can report fits a row.
LEMMA ReportTyped ==
    ASSUME ProviderTyped, NEW rung, NEW c \in Campaigns, NEW row \in Report(rung, c)
    PROVE  RowTyped(row)
<1> DEFINE n == Cardinality(Devices)
           total == MaxSpend * n
<1>1. IsFiniteSet(Devices) /\ MaxSpend \in Nat \ {0} /\ n \in Nat
  BY DeliveryAssumption, FS_CardinalityType DEF DeliveryAssumption
<1>2. \A d \in Devices : spend[c][d] \in 0 .. MaxSpend
  BY DEF ProviderTyped
<1>3. TotalSpend(c) \in 0 .. total
  BY <1>1, <1>2, SumIsBounded DEF TotalSpend, SumOf
<1>4. CASE rung = 1
  <2>1. PICK d \in Devices :
            /\ spend[c][d] > 0
            /\ row = [campaign |-> c, country |-> "US", platform |-> NormalizePlatform(d),
                      device |-> d, spend |-> spend[c][d]]
    BY <1>4 DEF Report
  <2>2. NormalizePlatform(d) \in {"ios", "android", "web", "unknown"}
    BY DEF NormalizePlatform
  <2>3. DimensionKey(row) \in Keys
    BY <2>1, <2>2 DEF DimensionKey, Keys
  <2>4. n >= 1
    BY <1>1, FS_EmptySet
  <2>5. MaxSpend <= total /\ total \in Nat
    BY <1>1, <2>4
  <2>6. row.spend = spend[c][d] /\ spend[c][d] \in 1 .. MaxSpend
    BY <1>1, <1>2, <2>1
  <2>7. row.spend \in 1 .. total
    <3> HIDE DEF total, n
    <3> QED BY <1>1, <2>5, <2>6
  <2> QED BY <2>3, <2>7 DEF RowTyped
<1>5. CASE rung # 1
  <2>1. /\ row = [campaign |-> c, country |-> IF rung = 2 THEN "US" ELSE "none",
                  platform |-> "unknown", device |-> "none", spend |-> TotalSpend(c)]
        /\ TotalSpend(c) # 0
    BY <1>5 DEF Report
  <2>2. DimensionKey(row) \in Keys
    BY <2>1 DEF DimensionKey, Keys
  <2>3. row.spend \in 1 .. total
    <3>1. row.spend = TotalSpend(c)
      BY <2>1
    <3>2. total \in Nat
      BY <1>1
    <3> HIDE DEF total, n
    <3> QED BY <1>3, <2>1, <3>1, <3>2
  <2> QED BY <2>2, <2>3 DEF RowTyped
<1> QED BY <1>4, <1>5

LEMMA ProviderStaysTyped == ProviderTyped /\ [Next]_vars => ProviderTyped'
<1> SUFFICES ASSUME ProviderTyped, [Next]_vars PROVE ProviderTyped'
  OBVIOUS
<1> USE DEF ProviderTyped
<1>0. NCampaigns \in Nat /\ MaxRevisions \in Nat
  BY DeliveryAssumption DEF DeliveryAssumption
<1>1. CASE Revise
  <2>1. PICK c \in Campaigns, d \in Devices, n \in 0 .. MaxSpend :
            spend' = [spend EXCEPT ![c][d] = n]
    BY <1>1 DEF Revise
  <2>2. spend' \in [Campaigns -> [Devices -> 0 .. MaxSpend]]
    BY <2>1
  <2> QED BY <1>0, <1>1, <2>2 DEF Revise
<1>2. CASE NewCampaign
  BY <1>0, <1>2 DEF NewCampaign, Campaigns
<1>3. CASE ChangeBreakdowns
  <2>1. refused' \subseteq Rungs
    BY <1>3 DEF ChangeBreakdowns
  <2> QED BY <1>0, <1>3, <2>1 DEF ChangeBreakdowns
<1>4. CASE UNCHANGED provider
  BY <1>4 DEF provider
<1> QED BY <1>1, <1>2, <1>3, <1>4 DEF Next, ReadWindow, BeginWindow, WindowInterrupted, vars,
      ReceivePage, StepDown, MeetTrouble, InsertChunk, SupersedeRestatedDimensions, CheckBatch

LEMMA ReadStaysTyped == TraceInv /\ ProviderTyped /\ ReadTyped /\ [Next]_vars => ReadTyped'
<1> SUFFICES ASSUME TraceInv, ProviderTyped, ReadTyped, [Next]_vars PROVE ReadTyped'
  OBVIOUS
<1>0. /\ \A row : RowTyped(row)' <=> RowTyped(row)
      /\ MaxTries \in Nat \ {0} /\ 0 \in 0 .. MaxTries - 1
      /\ read \in Reads(raw)
  BY TriesAssumption DEF RowTyped, DimensionKey, TraceInv, BatchIsRaw
<1>1. ASSUME raw' = raw, read'.tries \in 0 .. MaxTries - 1 PROVE ReadTyped'
  BY <1>0, <1>1 DEF ReadTyped
<1>2. ASSUME raw' = raw, read'.tries \in {0, read.tries} PROVE ReadTyped'
  BY <1>0, <1>1, <1>2 DEF ReadTyped
<1>3. CASE Revise \/ NewCampaign \/ ChangeBreakdowns \/ UNCHANGED vars
  BY <1>2, <1>3 DEF Revise, NewCampaign, ChangeBreakdowns, vars
<1>4. CASE BeginWindow \/ StepDown \/ WindowInterrupted \/ CheckBatch
  <2>1. raw' = raw /\ read'.tries = 0
    BY <1>4 DEF BeginWindow, StepDown, WindowInterrupted, CheckBatch, Ended, Idle
  <2> QED BY <1>2, <2>1
<1>5. CASE ReceivePage
  <2> DEFINE rows == IF read.page \in Campaigns THEN Report(read.rung, read.page) ELSE {}
  <2>1. raw' = raw \cup rows
    BY <1>5 DEF ReceivePage
  <2>2. \A q \in rows : RowTyped(q)
    BY ReportTyped
  <2>3. read'.tries = 0
    <3>1. \/ \E at, batch, left : read' = [read EXCEPT !.at = at, !.batch = batch,
                                                      !.left = left, !.tries = 0]
          \/ read' = Ended("pagination_failure")
          \/ \E page, batch : read' = [read EXCEPT !.page = page, !.batch = batch, !.tries = 0]
      BY <1>5 DEF ReceivePage
    <3> QED BY <1>0, <3>1 DEF Reads, Ended, Idle
  <2> HIDE DEF rows
  <2> QED BY <1>0, <2>1, <2>2, <2>3 DEF ReadTyped
<1>6. CASE MeetTrouble
  <2>1. PICK answer \in Trouble :
            read' = IF SentAgain(answer, read.tries + 1)
                    THEN [read EXCEPT !.tries = read.tries + 1] ELSE Ended(ClassOf(answer))
    BY <1>6 DEF MeetTrouble
  <2>2. raw' = raw
    BY <1>6 DEF MeetTrouble
  <2>3. CASE SentAgain(answer, read.tries + 1)
    <3>1. read'.tries = read.tries + 1 /\ read.tries + 1 < MaxTries
      BY <1>0, <2>1, <2>3 DEF SentAgain, Reads
    <3>2. read'.tries \in 0 .. MaxTries - 1
      BY <1>0, <3>1 DEF ReadTyped
    <3> QED BY <1>1, <2>2, <3>2
  <2>4. CASE ~SentAgain(answer, read.tries + 1)
    <3>1. read'.tries = 0
      BY <2>1, <2>4 DEF Ended, Idle
    <3> QED BY <1>2, <2>2, <3>1
  <2> QED BY <2>3, <2>4
<1>7. CASE InsertChunk
  <2>1. \/ read' = Ended("unknown_error")
        \/ \E at, left : read' = [read EXCEPT !.at = at, !.left = left]
        \/ \E left : read' = [read EXCEPT !.left = left]
    BY <1>7 DEF InsertChunk
  <2>2. raw' = raw
    BY <1>7 DEF InsertChunk
  <2>3. read'.tries \in {0, read.tries}
    BY <1>0, <2>1 DEF Reads, Ended, Idle
  <2> QED BY <1>2, <2>2, <2>3
<1>8. CASE SupersedeRestatedDimensions
  <2>1. \E at, left : read' = [read EXCEPT !.left = left, !.at = at]
    BY <1>8 DEF SupersedeRestatedDimensions
  <2>2. raw' = raw
    BY <1>8 DEF SupersedeRestatedDimensions
  <2>3. read'.tries = read.tries
    BY <1>0, <2>1 DEF Reads
  <2> QED BY <1>2, <2>2, <2>3
<1> QED BY <1>3, <1>4, <1>5, <1>6, <1>7, <1>8 DEF Next, ReadWindow

\* Attempts and pages keep their limits, a stored row has a key of the table's and
\* a spend the account can have had, and no two rows share a dimension hash;
\* provided every device is one of a known platform and no two are of the same.
THEOREM DeliveryTyped ==
    ASSUME DevicesNormalised, DevicesApart PROVE Spec => []TypeOK
<1> DEFINE Inv == DeliveryInv /\ ProviderTyped /\ ReadTyped
<1>1. Init => Inv
  <2>1. Init => DeliveryInv
    BY DeliveryStarts
  <2>2. Init => ProviderTyped
    <3>1. Init => spend \in [Campaigns -> [Devices -> 0 .. MaxSpend]]
      <4> SUFFICES ASSUME Init PROVE spend \in [Campaigns -> [Devices -> 0 .. MaxSpend]]
        OBVIOUS
      <4>1. \A c \in Campaigns : spend[c] \in [Devices -> 0 .. MaxSpend]
        <5> SUFFICES ASSUME NEW c \in Campaigns PROVE spend[c] \in [Devices -> 0 .. MaxSpend]
          OBVIOUS
        <5>1. spend[c] \in [Devices -> FirstSpend] /\ FirstSpend \subseteq 0 .. MaxSpend
          BY DeliveryAssumption DEF Init, DeliveryAssumption
        <5> QED BY <5>1
      <4>2. spend = [c \in Campaigns |-> spend[c]]
        BY DEF Init
      <4> QED BY <4>1, <4>2
    <3>2. 0 \in 0 .. MaxRevisions
      BY DeliveryAssumption DEF DeliveryAssumption
    <3> QED BY <3>1, <3>2 DEF Init, ProviderTyped
  <2>3. Init => ReadTyped
    BY TriesAssumption DEF Init, ReadTyped, Idle
  <2> QED BY <2>1, <2>2, <2>3
<1>2. Inv => TypeOK
  <2> SUFFICES ASSUME Inv PROVE TypeOK
    OBVIOUS
  <2>1. read \in Reads(raw)
    BY DEF DeliveryInv, TraceInv, BatchIsRaw
  <2>2. ASSUME NEW r \in table
        PROVE  RowTyped(r) /\ r.generation \in 0 .. MaxRevisions
    <3>1. PICK q \in raw : DimensionKey(q) = DimensionKey(r) /\ q.spend = r.spend
      BY DEF DeliveryInv, TraceInv, TracedToRaw
    <3>2. RowTyped(r)
      BY <3>1 DEF ReadTyped, RowTyped
    <3>3. r.generation \in Nat /\ r.generation <= revisions /\ revisions \in 0 .. MaxRevisions
      BY DEF DeliveryInv, GenerationInv, Counted, ProviderTyped
    <3> QED BY <3>2, <3>3, DeliveryAssumption DEF DeliveryAssumption
  <2>3. \A r, q \in table : DimensionKey(r) = DimensionKey(q) => r = q
    BY DEF DeliveryInv, StoreInv, KeysApart
  <2> QED BY <2>1, <2>2, <2>3 DEF TypeOK, ProviderTyped, ReadTyped, RowTyped, Reads, Places
<1>3. Inv /\ [Next]_vars => Inv'
  BY DeliveryStep, ProviderStaysTyped, ReadStaysTyped DEF DeliveryInv
<1> HIDE DEF Inv
<1> QED BY <1>1, <1>2, <1>3, PTL DEF Spec

=============================================================================
