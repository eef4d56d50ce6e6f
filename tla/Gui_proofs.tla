----------------------------- MODULE Gui_proofs -----------------------------
(***************************************************************************)
(* For any number of documents, frames, requests and collections: at most  *)
(* one scan of occurrences runs that is not cancelled; the lock, the hover *)
(* and the selection are of the image that is shown; and the trace pages   *)
(* settle on the answer of the last request, or on what a refused open(),  *)
(* a target adopted late or a replay that throws leaves.                   *)
(***************************************************************************)
EXTENDS Gui, StatisticsController, SequenceTheorems, FiniteSetTheorems,
        WellFoundedInduction, TLAPS

(***************************************************************************)
(* The statistics page.                                                    *)
(***************************************************************************)
ScanRecord ==
  [gen : Nat, state : {"running", "answered", "finished"},
   cancelled : BOOLEAN]

CallRecord ==
  [kind : {"progress", "finished", "ready", "partial", "ended"}, gen : Nat,
   serial : Nat]

(* What the threads and the event loop share.                              *)
StatisticsTyped ==
  /\ document \in [gen : Nat, open : BOOLEAN, staged : BOOLEAN]
  /\ collectors \subseteq Nat
  /\ scans \in Seq(ScanRecord)
  /\ current \in DOMAIN scans \union {Nothing}
  /\ calls \in Seq(CallRecord)

(* A posted end, which may clear the pointer, is that of a thread that has *)
(* nothing left to do: it cannot drop a scan that runs.                    *)
EndsAreOver ==
  \A i \in DOMAIN calls :
    calls[i].kind = "ended" =>
      /\ calls[i].serial \in DOMAIN scans
      /\ scans[calls[i].serial].state = "finished"

ScanInv == StatisticsTyped /\ EndsAreOver /\ OneScan

-----------------------------------------------------------------------------
(* Cancelling changes the flag of the scan that is held and nothing else.  *)
LEMMA CancelScanLemma ==
  ASSUME ScanInv
  PROVE  LET all == CancelScan(scans)
         IN  /\ all \in Seq(ScanRecord)
             /\ DOMAIN all = DOMAIN scans /\ Len(all) = Len(scans)
             /\ \A k \in DOMAIN scans :
                  /\ all[k].state = scans[k].state
                  /\ all[k].gen = scans[k].gen
                  /\ scans[k].cancelled => all[k].cancelled
                  /\ all[k].state = "running" => all[k].cancelled
<1>1. CASE current = Nothing
  BY <1>1, StatisticsAssumption
     DEF ScanInv, StatisticsTyped, OneScan, CancelScan, ScanRecord
<1>2. CASE current # Nothing
  <2>1. current \in DOMAIN scans
    BY <1>2 DEF ScanInv, StatisticsTyped
  <2>2. CancelScan(scans)
          = [scans EXCEPT ![current] = [scans[current] EXCEPT
                                          !.cancelled = TRUE]]
    BY <1>2 DEF CancelScan
  <2>0. \A k \in DOMAIN scans : scans[k] \in ScanRecord
    BY DEF ScanInv, StatisticsTyped
  <2>3. [scans[current] EXCEPT !.cancelled = TRUE] \in ScanRecord
    BY <2>0, <2>1 DEF ScanRecord
  <2>4. /\ CancelScan(scans) \in Seq(ScanRecord)
        /\ DOMAIN CancelScan(scans) = DOMAIN scans
        /\ Len(CancelScan(scans)) = Len(scans)
    BY <2>1, <2>2, <2>3 DEF ScanInv, StatisticsTyped
  <2>5. ASSUME NEW k \in DOMAIN scans
        PROVE  /\ CancelScan(scans)[k].state = scans[k].state
               /\ CancelScan(scans)[k].gen = scans[k].gen
               /\ scans[k].cancelled => CancelScan(scans)[k].cancelled
               /\ CancelScan(scans)[k].state = "running" =>
                    CancelScan(scans)[k].cancelled
    <3>1. CASE k = current
      BY <2>0, <2>1, <2>2, <3>1 DEF ScanInv, StatisticsTyped, ScanRecord
    <3>2. CASE k # current
      BY <2>1, <2>2, <3>2 DEF ScanInv, StatisticsTyped, ScanRecord, OneScan
    <3> QED  BY <3>1, <3>2
  <2> QED  BY <2>4, <2>5
<1> QED  BY <1>1, <1>2

(* A call that is appended leaves the others in place.                     *)
LEMMA PostLemma ==
  ASSUME ScanInv, NEW call \in CallRecord, Post(call)
  PROVE  /\ calls' \in Seq(CallRecord)
         /\ \A i \in DOMAIN calls' :
              calls'[i] = call \/ (i \in DOMAIN calls /\ calls'[i] = calls[i])
BY DEF ScanInv, StatisticsTyped, Post

LEMMA StatisticsInitLemma == StatisticsInit => ScanInv
<1> SUFFICES ASSUME StatisticsInit PROVE ScanInv
  OBVIOUS
<1>1. StatisticsTyped
  BY DEF StatisticsInit, StatisticsTyped
<1>2. EndsAreOver /\ OneScan
  BY DEF StatisticsInit, EndsAreOver, OneScan
<1> QED  BY <1>1, <1>2 DEF ScanInv

-----------------------------------------------------------------------------
(* The steps that start, cancel or end nothing of a scan.                  *)
LEMMA AsideLemma ==
  ASSUME ScanInv,
         UNCHANGED <<scans, current, calls>>,
         document' \in [gen : {document.gen}, open : BOOLEAN,
                        staged : BOOLEAN],
         collectors' \subseteq Nat
  PROVE  ScanInv'
<1>1. document'.gen = document.gen /\ StatisticsTyped'
  BY DEF ScanInv, StatisticsTyped
<1>2. EndsAreOver'
  BY DEF ScanInv, EndsAreOver
<1>3. OneScan'
  BY <1>1 DEF ScanInv, OneScan
<1> QED  BY <1>1, <1>2, <1>3 DEF ScanInv

LEMMA RequestLemma ==
  ASSUME ScanInv, RequestStatistics \/ NoRequest
  PROVE  collectors' \subseteq Nat
BY DEF ScanInv, StatisticsTyped, RequestStatistics, NoRequest

(* A new document cancels the scan that is held and holds none.            *)
LEMMA ReplacedLemma == ScanInv /\ OnDocumentReplaced => ScanInv'
<1> SUFFICES ASSUME ScanInv, OnDocumentReplaced PROVE ScanInv'
  OBVIOUS
<1>1. /\ scans' = CancelScan(scans) /\ current' = Nothing
      /\ calls' = calls /\ collectors' = collectors
  BY DEF OnDocumentReplaced
<1>2. document' \in [gen : Nat, open : BOOLEAN, staged : BOOLEAN]
  BY DEF OnDocumentReplaced, ScanInv, StatisticsTyped
<1>3. StatisticsTyped'
  BY <1>1, <1>2, CancelScanLemma DEF ScanInv, StatisticsTyped
<1>4. EndsAreOver'
  BY <1>1, CancelScanLemma DEF ScanInv, EndsAreOver
<1>5. OneScan'
  BY <1>1, CancelScanLemma DEF OneScan
<1> QED  BY <1>3, <1>4, <1>5 DEF ScanInv

(* A newer query cancels the one before and is held in its place.          *)
LEMMA RequestedLemma == ScanInv /\ OnOccurrenceRequested => ScanInv'
<1> SUFFICES ASSUME ScanInv, OnOccurrenceRequested PROVE ScanInv'
  OBVIOUS
<1> DEFINE serial == Len(scans) + 1
           new == [gen |-> document.gen, state |-> "running",
                   cancelled |-> FALSE]
<1>1. /\ scans' = Append(CancelScan(scans), new) /\ current' = serial
      /\ calls' = calls /\ document' = document /\ collectors' = collectors
  BY DEF OnOccurrenceRequested, collection
<1>2. new \in ScanRecord /\ Len(scans) \in Nat
      /\ DOMAIN scans = 1..Len(scans)
  BY DEF ScanInv, StatisticsTyped, ScanRecord
<1>3. /\ scans' \in Seq(ScanRecord) /\ DOMAIN scans' = 1..serial
      /\ scans'[serial] = new
      /\ \A k \in DOMAIN scans : scans'[k] = CancelScan(scans)[k]
  <2> HIDE DEF new
  <2> QED  BY <1>1, <1>2, CancelScanLemma
<1>4. StatisticsTyped'
  BY <1>1, <1>2, <1>3 DEF ScanInv, StatisticsTyped
<1>5. EndsAreOver'
  <2> SUFFICES ASSUME NEW i \in DOMAIN calls, calls[i].kind = "ended"
               PROVE  /\ calls[i].serial \in DOMAIN scans'
                      /\ scans'[calls[i].serial].state = "finished"
    BY <1>1 DEF EndsAreOver
  <2>1. /\ calls[i].serial \in DOMAIN scans
        /\ scans[calls[i].serial].state = "finished"
    BY DEF ScanInv, EndsAreOver
  <2> QED  BY <2>1, <1>2, <1>3, CancelScanLemma
<1>6. OneScan'
  <2> SUFFICES ASSUME NEW k \in DOMAIN scans', scans'[k].state = "running",
                      ~scans'[k].cancelled
               PROVE  current' = k /\ scans'[k].gen = document'.gen
    BY DEF OneScan
  <2>1. k = serial
    BY <1>2, <1>3, CancelScanLemma
  <2> QED  BY <2>1, <1>1, <1>3
<1> QED  BY <1>4, <1>5, <1>6 DEF ScanInv

-----------------------------------------------------------------------------
(* A thread posts and goes on.                                             *)
LEMMA ThreadLemma ==
  ASSUME ScanInv, NEW serial \in DOMAIN scans, NEW call \in CallRecord,
         NEW state \in {"answered", "finished"},
         scans[serial].state # "finished",
         Post(call),
         call.kind = "ended" => call.serial = serial /\ state = "finished",
         scans' = [scans EXCEPT ![serial].state = state],
         UNCHANGED <<document, collectors, current>>
  PROVE  ScanInv'
<1>1. /\ scans' \in Seq(ScanRecord) /\ DOMAIN scans' = DOMAIN scans
      /\ scans'[serial].state = state
      /\ \A k \in DOMAIN scans : /\ k # serial => scans'[k] = scans[k]
                                 /\ scans'[k].gen = scans[k].gen
                                 /\ scans'[k].cancelled = scans[k].cancelled
  <2>1. scans' = [scans EXCEPT ![serial] = [scans[serial] EXCEPT
                                              !.state = state]]
    OBVIOUS
  <2>2. \A k \in DOMAIN scans : scans[k] \in ScanRecord
    BY DEF ScanInv, StatisticsTyped
  <2>3. [scans[serial] EXCEPT !.state = state] \in ScanRecord
    BY <2>2 DEF ScanRecord
  <2>4. scans' \in Seq(ScanRecord) /\ DOMAIN scans' = DOMAIN scans
    BY <2>1, <2>3 DEF ScanInv, StatisticsTyped
  <2> QED  BY <2>1, <2>2, <2>4 DEF ScanRecord, ScanInv, StatisticsTyped
<1>2. StatisticsTyped'
  BY <1>1, PostLemma DEF ScanInv, StatisticsTyped
<1>3. EndsAreOver'
  <2> SUFFICES ASSUME NEW i \in DOMAIN calls', calls'[i].kind = "ended"
               PROVE  /\ calls'[i].serial \in DOMAIN scans'
                      /\ scans'[calls'[i].serial].state = "finished"
    BY DEF EndsAreOver
  <2>1. CASE calls'[i] = call
    BY <2>1, <1>1
  <2>2. CASE i \in DOMAIN calls /\ calls'[i] = calls[i]
    BY <2>2, <1>1 DEF ScanInv, EndsAreOver
  <2> QED  BY <2>1, <2>2, PostLemma
<1>4. OneScan'
  BY <1>1 DEF ScanInv, OneScan
<1> QED  BY <1>2, <1>3, <1>4 DEF ScanInv

LEMMA ScanLemma ==
  ASSUME ScanInv, NEW serial \in DOMAIN scans, Scan(serial)
  PROVE  ScanInv'
<1>1. PICK ready \in {~scans[serial].cancelled, FALSE} :
        Post([kind |-> IF ready THEN "ready" ELSE "partial",
              gen |-> scans[serial].gen, serial |-> serial])
  BY DEF Scan
<1>2. [kind |-> IF ready THEN "ready" ELSE "partial",
       gen |-> scans[serial].gen, serial |-> serial] \in CallRecord
  <2>1. scans[serial] \in ScanRecord /\ serial \in Nat
    BY DEF ScanInv, StatisticsTyped
  <2> QED  BY <2>1 DEF CallRecord, ScanRecord
<1>3. /\ scans[serial].state = "running"
      /\ scans' = [scans EXCEPT ![serial].state = "answered"]
      /\ UNCHANGED <<document, collectors, current>>
  BY DEF Scan, collection
<1> QED  BY <1>1, <1>2, <1>3, ThreadLemma

LEMMA FinishLemma ==
  ASSUME ScanInv, NEW serial \in DOMAIN scans, Finish(serial)
  PROVE  ScanInv'
<1>1. [kind |-> "ended", gen |-> scans[serial].gen, serial |-> serial]
        \in CallRecord
  <2>1. scans[serial] \in ScanRecord /\ serial \in Nat
    BY DEF ScanInv, StatisticsTyped
  <2> QED  BY <2>1 DEF CallRecord, ScanRecord
<1>2. /\ scans[serial].state = "answered"
      /\ Post([kind |-> "ended", gen |-> scans[serial].gen,
               serial |-> serial])
      /\ scans' = [scans EXCEPT ![serial].state = "finished"]
      /\ UNCHANGED <<document, collectors, current>>
  BY DEF Finish, collection
<1> QED  BY <1>1, <1>2, ThreadLemma

LEMMA CollectLemma == ScanInv /\ Collect => ScanInv'
<1> SUFFICES ASSUME ScanInv, Collect PROVE ScanInv'
  OBVIOUS
<1>1. PICK gen \in collectors, kind \in {"progress", "finished"} :
        /\ Post([kind |-> kind, gen |-> gen, serial |-> 0])
        /\ collectors' = IF kind = "finished" THEN collectors \ {gen}
                         ELSE collectors
  BY DEF Collect
<1> DEFINE call == [kind |-> kind, gen |-> gen, serial |-> 0]
<1>2. call \in CallRecord /\ call.kind # "ended" /\ collectors' \subseteq Nat
  BY <1>1 DEF ScanInv, StatisticsTyped, CallRecord
<1>3. UNCHANGED <<document, scans, current>>
  BY DEF Collect, occurrence
<1>4. Post(call)
  BY <1>1
<1> HIDE DEF call
<1>5. StatisticsTyped'
  BY <1>2, <1>3, <1>4, PostLemma DEF ScanInv, StatisticsTyped
<1>6. EndsAreOver'
  BY <1>2, <1>3, <1>4, PostLemma DEF ScanInv, EndsAreOver
<1>7. OneScan'
  BY <1>3 DEF ScanInv, OneScan
<1> QED  BY <1>5, <1>6, <1>7 DEF ScanInv

(* The end of a superseded thread leaves the pointer alone; the end of the *)
(* one that is held is the end of a scan that runs no more.                *)
LEMMA HandleLemma == ScanInv /\ HandleCall => ScanInv'
<1> SUFFICES ASSUME ScanInv, HandleCall PROVE ScanInv'
  OBVIOUS
<1>1. /\ calls # <<>> /\ calls' = Tail(calls)
      /\ UNCHANGED <<document, collectors, scans>>
  BY DEF HandleCall
<1>2. /\ 1 \in DOMAIN calls /\ calls' \in Seq(CallRecord)
      /\ \A i \in DOMAIN calls' : i + 1 \in DOMAIN calls
                                  /\ calls'[i] = calls[i + 1]
  BY <1>1 DEF ScanInv, StatisticsTyped
<1>3. \/ current' = current
      \/ calls[1].kind = "ended" /\ current = calls[1].serial
           /\ current' = Nothing
  BY DEF HandleCall, OnOccurrence, OnCollected, AfterEnd
<1>4. StatisticsTyped'
  BY <1>1, <1>2, <1>3 DEF ScanInv, StatisticsTyped
<1>5. EndsAreOver'
  BY <1>1, <1>2 DEF ScanInv, EndsAreOver
<1>6. OneScan'
  <2>1. CASE current' = current
    BY <1>1, <2>1 DEF ScanInv, OneScan
  <2>2. CASE calls[1].kind = "ended" /\ current = calls[1].serial
    <3>1. current \in DOMAIN scans /\ scans[current].state = "finished"
      BY <1>2, <2>2 DEF ScanInv, EndsAreOver
    <3> QED  BY <1>1, <3>1 DEF ScanInv, OneScan
  <2> QED  BY <1>3, <2>1, <2>2
<1> QED  BY <1>4, <1>5, <1>6 DEF ScanInv

-----------------------------------------------------------------------------
LEMMA StatisticsNextLemma ==
  ScanInv /\ [StatisticsNext]_statisticsVars => ScanInv'
<1> SUFFICES ASSUME ScanInv, [StatisticsNext]_statisticsVars PROVE ScanInv'
  OBVIOUS
<1> USE DEF collection, occurrence
<1>1. document \in [gen : {document.gen}, open : BOOLEAN, staged : BOOLEAN]
      /\ collectors \subseteq Nat
  BY DEF ScanInv, StatisticsTyped
<1>2. CASE OnDocumentReplaced
  BY <1>2, ReplacedLemma
<1>3. CASE OnStagesPublished
  <2>1. document' \in [gen : {document.gen}, open : BOOLEAN,
                       staged : BOOLEAN]
    BY <1>1, <1>3 DEF OnStagesPublished
  <2>2. collectors' \subseteq Nat
    BY <1>3, RequestLemma DEF OnStagesPublished, OnStatisticsTabActivated
  <2>3. UNCHANGED <<scans, current, calls>>
    BY <1>3 DEF OnStagesPublished
  <2> QED  BY <2>1, <2>2, <2>3, AsideLemma
<1>4. CASE ChoosePage
  <2>1. collectors' \subseteq Nat
    BY <1>4, RequestLemma DEF ChoosePage, OnStatisticsTabActivated
  <2>2. UNCHANGED <<document, scans, current, calls>>
    BY <1>4 DEF ChoosePage
  <2> QED  BY <1>1, <2>1, <2>2, AsideLemma
<1>5. CASE OnRefreshRequested
  <2>1. collectors' \subseteq Nat
    BY <1>5, RequestLemma DEF OnRefreshRequested
  <2>2. UNCHANGED <<document, scans, current, calls>>
    BY <1>5 DEF OnRefreshRequested
  <2> QED  BY <1>1, <2>1, <2>2, AsideLemma
<1>6. CASE Collect
  BY <1>6, CollectLemma
<1>7. CASE OnOccurrenceRequested
  BY <1>7, RequestedLemma
<1>8. CASE \E serial \in DOMAIN scans : Scan(serial) \/ Finish(serial)
  BY <1>8, ScanLemma, FinishLemma
<1>9. CASE HandleCall
  BY <1>9, HandleLemma
<1>10. CASE OnExportRequested
  BY <1>1, <1>10, AsideLemma DEF OnExportRequested
<1>11. CASE DialogCloses
  BY <1>1, <1>11, AsideLemma DEF DialogCloses
<1>12. CASE UNCHANGED statisticsVars
  BY <1>1, <1>12, AsideLemma DEF statisticsVars
<1> QED
  BY <1>2, <1>3, <1>4, <1>5, <1>6, <1>7, <1>8, <1>9, <1>10, <1>11, <1>12
     DEF StatisticsNext

(* "at most one scan exists and the newest scan stays cancelable": for any *)
(* number of documents and queries, the scan that runs uncancelled is the  *)
(* one the controller can cancel, and is of the document that is shown     *)
(* (statistics_controller.cpp).                                            *)
THEOREM OneScanTheorem == StatisticsSpec => []OneScan
<1>1. ScanInv => OneScan
  BY DEF ScanInv
<1> QED BY <1>1, StatisticsInitLemma, StatisticsNextLemma, PTL
   DEF StatisticsSpec

(***************************************************************************)
(* The trace pages.                                                        *)
(***************************************************************************)
Targets == [frame : Frames, gen : Nat, serial : Nat]

Streams == Identities \union {None}

JobRecords ==
  [gen : Nat, identity : Streams, row : Nat, stream : Streams,
   state : {"queued", "stored"}, cancelled : BOOLEAN]

ResultRecords ==
  [gen : Nat, identity : Streams, row : Nat, stream : Streams]

Results == ResultRecords \union {None}

States == {"noTrace", "loading", "replaying", "answered"}

Reasons == {"no", "image", "stream", "row", "threw"}

TraceRecords ==
  [gen : Nat, source : BOOLEAN, target : Targets \union {None},
   frame : Frames \union {None}, trace : BOOLEAN, query : BOOLEAN,
   pending : [identity : Identities, pixel : Pixels] \union {None},
   interval : Nat, handle : BOOLEAN, result : Results, status : States,
   bundle : Results, shown : States, rows : Results, blocks : Streams,
   notIndexed : BOOLEAN, stream : Streams, jobs : Seq(JobRecords),
   wanted : Nat, refused : BOOLEAN, unanswered : Reasons]

(* A result that the controller will take.                                 *)
Counts(t, r) == OfDocument(t, r) /\ OfTarget(t, r)

Running(t, j) == ~j.cancelled /\ Counts(t, Result(j))

NoneRuns(t) == \A k \in DOMAIN t.jobs : ~Running(t, t.jobs[k])

NoneComes(t, p) == \A k \in DOMAIN p : ~Counts(t, p[k])

(* The last result to come, or the one that came, is of the last request.  *)
JobComes(t) ==
  /\ t.jobs # <<>>
  /\ LET job == t.jobs[Len(t.jobs)]
     IN  Running(t, job) /\ job.row = t.interval /\ job.stream = t.stream

ResultComes(t, p) ==
  /\ NoneRuns(t)
  /\ \E k \in DOMAIN p :
       /\ Counts(t, p[k]) /\ p[k].row = t.interval /\ p[k].stream = t.stream
       /\ \A j \in DOMAIN p : j > k => ~Counts(t, p[j])

Answered(t) ==
  /\ t.result # None /\ Counts(t, t.result) /\ t.result.row = t.interval
  /\ t.result.stream = t.stream
  /\ t.rows = t.result /\ t.shown = "answered"

ResultShown(t, p) == NoneRuns(t) /\ NoneComes(t, p) /\ Answered(t)

Asked(t) == t.interval # 0 /\ t.unanswered = "no"

AnswerComes(t, p) == JobComes(t) \/ ResultComes(t, p) \/ ResultShown(t, p)

(* The stream that is open is that of the image, unless it was refused.    *)
StreamFine(t) ==
  /\ t.trace => t.stream = ImageOf(t) \/ t.refused
  /\ t.unanswered = "stream" => t.refused

(* The image is of the document d.gen, unless a worker was late.           *)
Ours(t, d) ==
  /\ t.gen = d.gen
  /\ t.target # None => t.target.gen = d.gen \/ d.late

TraceFine(t, p, d) ==
  /\ t \in TraceRecords
  /\ p \in Seq(ResultRecords)
  /\ StreamFine(t) /\ Ours(t, d)
  /\ t.wanted # 0 => t.wanted = t.interval
  /\ Asked(t) => AnswerComes(t, p)

LEMMA NoneIs == None \notin ResultRecords
BY TraceAssumption DEF ResultRecords, Streams

(* A change of anything else is not seen.                                  *)
LEMMA SameRequest ==
  ASSUME NEW t, NEW p, NEW d, TraceFine(t, p, d), NEW u \in TraceRecords,
         u.gen = t.gen, u.target = t.target, u.jobs = t.jobs,
         u.trace = t.trace, u.stream = t.stream,
         u.interval = t.interval, u.result = t.result, u.rows = t.rows,
         u.shown = t.shown, u.refused = t.refused,
         u.unanswered = t.unanswered, u.wanted \in {0, t.wanted}
  PROVE  TraceFine(u, p, d)
<1>1. \A r : Counts(u, r) <=> Counts(t, r)
  BY DEF Counts, OfDocument, OfTarget
<1>2. \A j : Running(u, j) <=> Running(t, j)
  BY <1>1 DEF Running
<1>3. AnswerComes(t, p) => AnswerComes(u, p)
  BY <1>1, <1>2 DEF AnswerComes, JobComes, ResultComes, ResultShown, NoneRuns,
                    NoneComes, Answered
<1>4. StreamFine(u) /\ Ours(u, d)
  BY DEF TraceFine, StreamFine, Ours, ImageOf
<1>5. QED
  BY <1>3, <1>4 DEF TraceFine, Asked

(* A request that is forgotten, or a new document.                         *)
LEMMA Forgotten ==
  ASSUME NEW t \in TraceRecords, NEW p \in Seq(ResultRecords), NEW d,
         t.interval = 0, t.wanted = 0, StreamFine(t), Ours(t, d)
  PROVE  TraceFine(t, p, d)
BY DEF TraceFine, Asked

LEMMA NewTrace ==
  ASSUME NEW gen \in Nat, NEW source \in BOOLEAN
  PROVE  LET t == NoTrace(gen, source) IN
         /\ t \in TraceRecords /\ t.interval = 0 /\ t.wanted = 0
         /\ t.unanswered = "no" /\ t.gen = gen /\ t.target = None
         /\ StreamFine(t)
BY DEF NoTrace, TraceRecords, Results, States, Streams, Reasons, StreamFine

LEMMA FastIndexTyped ==
  ASSUME NEW t \in TraceRecords
  PROVE  LET u == PublishFastIndex(t) IN
         /\ u \in TraceRecords /\ u.interval = t.interval
         /\ u.wanted = t.wanted /\ u.gen = t.gen /\ u.target = t.target
         /\ StreamFine(t) => StreamFine(u)
<1> DEFINE u == PublishFastIndex(t)
<1>1. /\ u \in TraceRecords /\ u.interval = t.interval
      /\ u.wanted = t.wanted /\ u.gen = t.gen /\ u.target = t.target
      /\ u.trace = t.trace /\ u.stream = t.stream /\ u.refused = t.refused
      /\ u.unanswered = t.unanswered
  BY DEF PublishFastIndex, TraceRecords, Results, States
<1> HIDE DEF u
<1>2. StreamFine(t) => StreamFine(u)
  BY <1>1 DEF StreamFine, ImageOf
<1>3. QED
  BY <1>1, <1>2 DEF u

LEMMA DocumentFine ==
  ASSUME NEW t, NEW gen \in Nat, NEW p \in Seq(ResultRecords), NEW d,
         NEW opens \in BOOLEAN, d.gen = gen
  PROVE  /\ TraceFine(ReplaceDocument(t, gen, opens), p, d)
         /\ TraceFine(ClearDocument(gen), p, d)
<1> DEFINE fresh == NoTrace(gen, TRUE)
           open == [fresh EXCEPT !.trace = TRUE, !.stream = Static]
<1>1. /\ fresh \in TraceRecords /\ fresh.interval = 0 /\ fresh.wanted = 0
      /\ fresh.unanswered = "no" /\ fresh.gen = gen /\ fresh.target = None
      /\ StreamFine(fresh)
  BY NewTrace
<1>2. ReplaceDocument(t, gen, opens) =
        IF opens THEN PublishFastIndex(open) ELSE fresh
  BY DEF ReplaceDocument
<1> HIDE DEF fresh
<1>3. /\ open \in TraceRecords /\ open.interval = 0 /\ open.wanted = 0
      /\ open.gen = gen /\ open.target = None /\ open.stream = Static
      /\ open.unanswered = "no"
  BY <1>1 DEF TraceRecords, Streams, Identities
<1> HIDE DEF open
<1>4. StreamFine(open) /\ Ours(open, d) /\ Ours(fresh, d)
  BY <1>1, <1>3 DEF StreamFine, ImageOf, Ours
<1>5. TraceFine(fresh, p, d)
  BY <1>1, <1>4, Forgotten
<1>6. TraceFine(PublishFastIndex(open), p, d)
  BY <1>3, <1>4, FastIndexTyped, Forgotten DEF Ours
<1>7. TraceFine(ClearDocument(gen), p, d)
  BY NewTrace, Forgotten DEF ClearDocument, Ours
<1>8. QED
  BY <1>2, <1>5, <1>6, <1>7

-----------------------------------------------------------------------------
(* The frame whose analysis is shown.                                      *)
LEMMA ForgetTyped ==
  ASSUME NEW t \in TraceRecords
  PROVE  LET u == ForgetRequest(t) IN
         /\ u \in TraceRecords /\ u.interval = 0 /\ u.wanted = 0
         /\ u.unanswered = "no" /\ u.gen = t.gen /\ u.target = t.target
BY DEF ForgetRequest, TraceRecords, Results, Reasons

(* The stored answer is dropped: nothing else changes.                     *)
LEMMA ClearTyped ==
  ASSUME NEW t \in TraceRecords
  PROVE  LET u == ClearCompleted(t) IN
         /\ u \in TraceRecords /\ u.interval = t.interval
         /\ u.wanted = t.wanted /\ u.gen = t.gen /\ u.target = t.target
         /\ StreamFine(t) => StreamFine(u)
<1> DEFINE u == ClearCompleted(t)
<1>1. t.jobs \in Seq(JobRecords)
  BY DEF TraceRecords
<1>2. t.jobs # <<>> => Tail(t.jobs) \in Seq(JobRecords)
  BY <1>1
<1>3. CASE CanStep(t, "stored")
  <2>1. u = [t EXCEPT !.jobs = Tail(t.jobs)]
    BY <1>3 DEF ClearCompleted
  <2>2. Tail(t.jobs) \in Seq(JobRecords)
    BY <1>2, <1>3 DEF CanStep
  <2> HIDE DEF u
  <2>3. QED
    BY <2>1, <2>2 DEF TraceRecords, StreamFine, ImageOf, u
<1>4. CASE ~CanStep(t, "stored")
  BY <1>4 DEF ClearCompleted
<1>5. QED
  BY <1>3, <1>4

LEMMA ToStaticFine ==
  ASSUME NEW t \in TraceRecords, NEW p \in Seq(ResultRecords), NEW d,
         t.gen = d.gen
  PROVE  TraceFine(ToStatic(t), p, d)
<1> DEFINE v == [t EXCEPT !.target = None]
           u == ForgetRequest(v)
           o == IF CanOpen(u, Static)
                THEN [u EXCEPT !.stream = Static]
                ELSE [u EXCEPT !.refused = TRUE]
           c == ClearCompleted(o)
<1>1. v \in TraceRecords /\ v.target = None /\ v.gen = t.gen
  BY DEF TraceRecords
<1>2. /\ u \in TraceRecords /\ u.interval = 0 /\ u.wanted = 0
      /\ u.unanswered = "no" /\ u.gen = t.gen /\ u.target = None
  BY <1>1, ForgetTyped
<1>3. ToStatic(t) = PublishFastIndex(c)
  BY DEF ToStatic
<1> HIDE DEF u
<1>4. /\ o \in TraceRecords /\ o.interval = 0 /\ o.wanted = 0
      /\ o.gen = t.gen /\ o.target = None
      /\ o.stream = Static \/ o.refused
      /\ o.unanswered = "no"
  <2>1. Static \in Streams
    BY DEF Streams, Identities
  <2>2. CASE CanOpen(u, Static)
    BY <1>2, <2>1, <2>2 DEF TraceRecords
  <2>3. CASE ~CanOpen(u, Static)
    BY <1>2, <2>3 DEF TraceRecords
  <2>4. QED
    BY <2>2, <2>3
<1> HIDE DEF o
<1>5. StreamFine(o)
  BY <1>4 DEF StreamFine, ImageOf
<1>6. /\ c \in TraceRecords /\ c.interval = 0 /\ c.wanted = 0
      /\ c.gen = t.gen /\ c.target = None /\ StreamFine(c)
  BY <1>4, <1>5, ClearTyped
<1> HIDE DEF c
<1>7. QED
  BY <1>3, <1>6, FastIndexTyped, Forgotten DEF Ours

LEMMA ToFrameFine ==
  ASSUME NEW t \in TraceRecords, NEW p \in Seq(ResultRecords), NEW d,
         NEW target \in Targets, target # None, t.gen = d.gen,
         target.gen = d.gen \/ d.late
  PROVE  TraceFine(ToFrame(t, target), p, d)
<1> DEFINE v == [t EXCEPT !.target = target]
           u == ForgetRequest(v)
           o == [u EXCEPT !.stream = target.frame]
           r == [u EXCEPT !.refused = TRUE]
<1>1. v \in TraceRecords /\ v.target = target /\ v.gen = t.gen
  BY DEF TraceRecords
<1>2. /\ u \in TraceRecords /\ u.interval = 0 /\ u.wanted = 0
      /\ u.unanswered = "no" /\ u.gen = t.gen /\ u.target = target
  BY <1>1, ForgetTyped
<1>3. ToFrame(t, target) \in {PublishFastIndex(o), r}
  BY DEF ToFrame
<1> HIDE DEF u
<1>4. target.frame \in Streams
  BY DEF Targets, Streams, Identities
<1>5. /\ o \in TraceRecords /\ o.interval = 0 /\ o.wanted = 0
      /\ o.gen = t.gen /\ o.target = target /\ o.stream = target.frame
      /\ o.unanswered = "no"
      /\ r \in TraceRecords /\ r.interval = 0 /\ r.wanted = 0
      /\ r.gen = t.gen /\ r.target = target /\ r.refused
      /\ r.unanswered = "no"
  BY <1>2, <1>4 DEF TraceRecords
<1> HIDE DEF o, r
<1>6. StreamFine(o) /\ StreamFine(r) /\ Ours(o, d) /\ Ours(r, d)
  BY <1>5 DEF StreamFine, ImageOf, Ours
<1>7. QED
  BY <1>3, <1>5, <1>6, FastIndexTyped, Forgotten DEF Ours

LEMMA FrameContextFine ==
  ASSUME NEW t, NEW p, NEW d, TraceFine(t, p, d),
         NEW target \in Targets \union {None},
         target # None => target.gen = d.gen \/ d.late,
         NEW frame \in Frames \union {None}
  PROVE  TraceFine(SetFrameContext(t, target, frame), p, d)
<1> DEFINE u == [t EXCEPT !.frame = frame]
<1>1. t \in TraceRecords /\ p \in Seq(ResultRecords)
  BY DEF TraceFine
<1>2. u \in TraceRecords /\ u.gen = d.gen
  BY <1>1 DEF TraceRecords, TraceFine, Ours
<1>3. TraceFine(u, p, d)
  BY <1>1, <1>2, SameRequest DEF TraceRecords
<1>4. CASE ~t.trace
  BY <1>4 DEF SetFrameContext
<1>5. CASE t.trace /\ target = t.target
  BY <1>3, <1>5 DEF SetFrameContext
<1>6. CASE t.trace /\ target # t.target /\ target = None
  <2>1. SetFrameContext(t, target, frame) = ToStatic(u)
    BY <1>6 DEF SetFrameContext
  <2>2. QED
    BY <1>1, <1>2, <2>1, ToStaticFine
<1>7. CASE t.trace /\ target # t.target /\ target # None
  <2>1. SetFrameContext(t, target, frame) = ToFrame(u, target)
    BY <1>7 DEF SetFrameContext
  <2>2. QED
    BY <1>1, <1>2, <1>7, <2>1, ToFrameFine
<1>8. QED
  BY <1>4, <1>5, <1>6, <1>7

-----------------------------------------------------------------------------
(* A request.                                                              *)
LEMMA CancelTyped ==
  ASSUME NEW t \in TraceRecords
  PROVE  LET u == CancelHandle(t) IN
         /\ u \in TraceRecords
         /\ u.gen = t.gen /\ u.target = t.target /\ u.interval = t.interval
         /\ u.wanted = t.wanted /\ u.unanswered = t.unanswered
         /\ u.trace = t.trace /\ u.stream = t.stream /\ u.refused = t.refused
<1>1. CASE t.handle /\ t.jobs # <<>>
  <2> DEFINE n == Len(t.jobs)
             js == [t.jobs EXCEPT ![n] = [@ EXCEPT !.cancelled = TRUE]]
  <2>1. t.jobs \in Seq(JobRecords) /\ n \in 1..n
    BY <1>1 DEF TraceRecords
  <2>2. [t.jobs[n] EXCEPT !.cancelled = TRUE] \in JobRecords
    <3>1. t.jobs[n] \in JobRecords
      BY <2>1
    <3>2. QED
      BY <3>1 DEF JobRecords
  <2>3. js \in Seq(JobRecords)
    BY <2>1, <2>2, ExceptSeq
  <2>4. CancelHandle(t) = [t EXCEPT !.jobs = js]
    BY <1>1 DEF CancelHandle
  <2> HIDE DEF js
  <2>5. QED
    BY <2>3, <2>4 DEF TraceRecords
<1>2. CASE ~(t.handle /\ t.jobs # <<>>)
  BY <1>2 DEF CancelHandle
<1>3. QED
  BY <1>1, <1>2

LEMMA PublishTyped ==
  ASSUME NEW t \in TraceRecords
  PROVE  LET u == PublishState(t) IN
         /\ u \in TraceRecords
         /\ u.gen = t.gen /\ u.target = t.target /\ u.interval = t.interval
         /\ u.wanted = t.wanted /\ u.unanswered = t.unanswered
         /\ u.jobs = t.jobs /\ u.refused = t.refused /\ u.result = t.result
         /\ u.trace = t.trace /\ u.stream = t.stream /\ u.shown = t.status
         /\ t.bundle # None => u.rows = t.bundle
BY DEF PublishState, TraceRecords

(* A job that is queued answers the request.                               *)
LEMMA SubmitFine ==
  ASSUME NEW t \in TraceRecords, NEW p \in Seq(ResultRecords), NEW d,
         NEW identity \in Streams, NEW row \in Nat,
         t.interval = row, t.wanted = row, StreamFine(t), Ours(t, d),
         t.unanswered = Unanswered(t, identity, row)
  PROVE  TraceFine(Submit(t, identity, row), p, d)
<1> DEFINE u == Submit(t, identity, row)
           job == [gen |-> t.gen, identity |-> identity, row |-> row,
                   stream |-> t.stream, state |-> "queued",
                   cancelled |-> FALSE]
           js == Append(t.jobs, job)
<1>1. CASE ~Admitted(t, identity, row)
  <2>1. u = [t EXCEPT !.handle = FALSE]
    BY <1>1 DEF Submit
  <2>2. t.unanswered # "no"
    BY <1>1 DEF Unanswered
  <2> HIDE DEF u
  <2>3. /\ u \in TraceRecords /\ u.unanswered # "no"
        /\ u.wanted = u.interval
    BY <2>1, <2>2 DEF TraceRecords
  <2>4. StreamFine(u) /\ Ours(u, d)
    BY <2>1 DEF TraceRecords, StreamFine, ImageOf, Ours
  <2>5. QED
    BY <2>3, <2>4 DEF TraceFine, Asked, u
<1>2. CASE Admitted(t, identity, row)
  <2>1. u = [t EXCEPT !.handle = TRUE, !.jobs = js]
    BY <1>2 DEF Submit
  <2>2. job \in JobRecords /\ t.jobs \in Seq(JobRecords)
    BY DEF JobRecords, TraceRecords
  <2>3. /\ job.gen = t.gen /\ job.identity = identity /\ job.row = row
        /\ ~job.cancelled /\ job.stream = t.stream
    OBVIOUS
  <2> HIDE DEF job
  <2>4. /\ js \in Seq(JobRecords) /\ Len(js) = Len(t.jobs) + 1
        /\ js[Len(js)] = job /\ js # <<>>
    <3>1. /\ js \in Seq(JobRecords) /\ Len(js) = Len(t.jobs) + 1
          /\ js[Len(js)] = job /\ Len(t.jobs) \in Nat
      BY <2>2, AppendProperties
    <3>2. QED
      BY <3>1, EmptySeq
  <2> HIDE DEF js, u
  <2>5. /\ u \in TraceRecords /\ u.jobs = js /\ u.gen = t.gen
        /\ u.target = t.target /\ u.interval = row /\ u.wanted = row
        /\ u.unanswered = t.unanswered /\ u.stream = t.stream
        /\ u.trace = t.trace /\ u.refused = t.refused
    BY <2>1, <2>4 DEF TraceRecords
  <2>6. u.unanswered = "no" => OfTarget(t, [identity |-> identity])
    BY <2>5 DEF Unanswered
  <2>7. u.unanswered = "no" => Running(u, job)
    BY <2>3, <2>5, <2>6 DEF Running, Counts, OfDocument, OfTarget, Result
  <2>8. u.unanswered = "no" => JobComes(u)
    BY <2>3, <2>4, <2>5, <2>7 DEF JobComes
  <2>9. StreamFine(u) /\ Ours(u, d)
    BY <2>5 DEF StreamFine, ImageOf, Ours
  <2>10. QED
    BY <2>5, <2>8, <2>9 DEF TraceFine, Asked, AnswerComes, u
<1>3. QED
  BY <1>1, <1>2

(* The stream of the image turns no request of the image down.             *)
LEMMA TurnedDown ==
  ASSUME NEW t, NEW identity, NEW row, t.trace, StreamFine(t),
         Unanswered(t, identity, row) = "stream"
  PROVE  t.refused
BY DEF Unanswered, OfTarget, OfStream, StreamFine, ImageOf, Identities

(* A pixel or a row of the blocks is asked for: the last request has its   *)
(* answer, has one to come, or starts a job of its own.                    *)
LEMMA AskFine ==
  ASSUME NEW t, NEW p, NEW d, TraceFine(t, p, d), NEW identity \in Streams,
         NEW row \in Nat \ {0}, t.trace
  PROVE  TraceFine(Ask(t, identity, row), p, d)
<1> DEFINE asked == [t EXCEPT !.wanted = row]
           new == [asked EXCEPT !.interval = row, !.pending = None,
                     !.unanswered = Unanswered(t, identity, row)]
<1>1. t \in TraceRecords /\ p \in Seq(ResultRecords)
  BY DEF TraceFine
<1>2. /\ asked \in TraceRecords /\ asked.wanted = row
      /\ asked.gen = t.gen /\ asked.target = t.target
      /\ asked.jobs = t.jobs /\ asked.interval = t.interval
      /\ asked.result = t.result /\ asked.rows = t.rows
      /\ asked.shown = t.shown /\ asked.refused = t.refused
      /\ asked.unanswered = t.unanswered /\ asked.stream = t.stream
      /\ asked.trace = t.trace
  BY <1>1 DEF TraceRecords
<1>0. StreamFine(asked) /\ Ours(asked, d)
  BY <1>2 DEF TraceFine, StreamFine, ImageOf, Ours
<1>3. /\ \A r : Counts(asked, r) <=> Counts(t, r)
      /\ \A j : Running(asked, j) <=> Running(t, j)
  BY <1>2 DEF Counts, OfDocument, OfTarget, Running
<1>4. CASE t.interval = row /\ t.result = None
  <2>1. Ask(t, identity, row) = asked
    BY <1>4 DEF Ask
  <2> HIDE DEF asked
  <2>2. AnswerComes(t, p) => AnswerComes(asked, p)
    BY <1>2, <1>3 DEF AnswerComes, JobComes, ResultComes, ResultShown,
                      NoneRuns, NoneComes, Answered
  <2>3. QED
    BY <1>0, <1>1, <1>2, <1>4, <2>1, <2>2 DEF TraceFine, Asked
<1>5. CASE t.interval = row /\ t.result # None
  <2> DEFINE u == Publish(asked, t.result)
             v == [asked EXCEPT !.bundle = t.result, !.status = "answered"]
  <2>1. Ask(t, identity, row) = u /\ u = PublishState(v)
    BY <1>5 DEF Ask, Publish
  <2> HIDE DEF asked, u
  <2>2. /\ v \in TraceRecords /\ v.wanted = row /\ v.gen = t.gen
        /\ v.target = t.target /\ v.jobs = t.jobs
        /\ v.interval = row /\ v.result = t.result
        /\ v.refused = t.refused /\ v.unanswered = t.unanswered
        /\ v.stream = t.stream /\ v.trace = t.trace
        /\ v.bundle = t.result /\ v.status = "answered"
    BY <1>1, <1>2, <1>5 DEF TraceRecords, States
  <2> HIDE DEF v
  <2>3. /\ u \in TraceRecords /\ u.wanted = row /\ u.gen = t.gen
        /\ u.target = t.target /\ u.jobs = t.jobs
        /\ u.interval = row /\ u.result = t.result
        /\ u.refused = t.refused /\ u.unanswered = t.unanswered
        /\ u.stream = t.stream /\ u.trace = t.trace
        /\ u.rows = t.result /\ u.shown = "answered"
    <3>1. /\ PublishState(v) \in TraceRecords
          /\ PublishState(v).gen = v.gen
          /\ PublishState(v).target = v.target
          /\ PublishState(v).interval = v.interval
          /\ PublishState(v).wanted = v.wanted
          /\ PublishState(v).unanswered = v.unanswered
          /\ PublishState(v).jobs = v.jobs
          /\ PublishState(v).refused = v.refused
          /\ PublishState(v).stream = v.stream
          /\ PublishState(v).trace = v.trace
          /\ PublishState(v).result = v.result
          /\ PublishState(v).shown = v.status
          /\ v.bundle # None => PublishState(v).rows = v.bundle
      BY <2>2, PublishTyped
    <3>2. QED
      BY <1>5, <2>1, <2>2, <3>1
  <2>4. /\ \A r : Counts(u, r) <=> Counts(t, r)
        /\ \A j : Running(u, j) <=> Running(t, j)
    BY <2>3 DEF Counts, OfDocument, OfTarget, Running
  <2>5. AnswerComes(t, p) => AnswerComes(u, p)
    BY <1>5, <2>3, <2>4 DEF AnswerComes, JobComes, ResultComes, ResultShown,
                            NoneRuns, NoneComes, Answered
  <2>6. StreamFine(u) /\ Ours(u, d)
    BY <2>3 DEF TraceFine, StreamFine, ImageOf, Ours
  <2>7. QED
    BY <1>1, <1>5, <2>1, <2>3, <2>5, <2>6 DEF TraceFine, Asked
<1>6. CASE t.interval # row
  <2> DEFINE cancelled == CancelHandle(new)
             replaying == MarkReplaying(cancelled)
             u == PublishState(replaying)
  <2>1. Ask(t, identity, row) = Submit(u, identity, row)
    BY <1>6 DEF Ask
  <2>2. /\ new \in TraceRecords /\ new.wanted = row /\ new.interval = row
        /\ new.gen = t.gen /\ new.target = t.target
        /\ new.unanswered = Unanswered(t, identity, row)
        /\ new.trace = t.trace /\ new.stream = t.stream
        /\ new.refused = t.refused
    <3>1. Unanswered(t, identity, row) \in Reasons
      BY DEF Unanswered, Reasons
    <3>2. QED
      BY <1>1, <1>2, <3>1 DEF TraceRecords
  <2> HIDE DEF new
  <2>3. /\ cancelled \in TraceRecords /\ cancelled.wanted = row
        /\ cancelled.interval = row /\ cancelled.gen = t.gen
        /\ cancelled.target = t.target
        /\ cancelled.unanswered = new.unanswered
        /\ cancelled.trace = t.trace /\ cancelled.stream = t.stream
        /\ cancelled.refused = t.refused
    BY <2>2, CancelTyped
  <2> HIDE DEF cancelled
  <2>4. /\ replaying \in TraceRecords /\ replaying.wanted = row
        /\ replaying.interval = row /\ replaying.gen = t.gen
        /\ replaying.target = t.target
        /\ replaying.unanswered = new.unanswered
        /\ replaying.trace = t.trace /\ replaying.stream = t.stream
        /\ replaying.refused = t.refused
    BY <2>3 DEF MarkReplaying, TraceRecords, States
  <2> HIDE DEF replaying
  <2>5. /\ u \in TraceRecords /\ u.wanted = row /\ u.interval = row
        /\ u.target = t.target /\ u.unanswered = new.unanswered
        /\ u.gen = t.gen /\ u.trace = t.trace /\ u.stream = t.stream
        /\ u.refused = t.refused
    BY <2>4, PublishTyped
  <2> HIDE DEF u
  <2>6. u.unanswered = Unanswered(u, identity, row)
    BY <2>2, <2>5 DEF Unanswered, OfTarget, OfStream, Admitted
  <2>7. StreamFine(u)
    <3>1. t.unanswered = "stream" \/ u.unanswered = "stream" => t.refused
      BY <2>2, <2>5, TurnedDown DEF TraceFine, StreamFine
    <3>2. QED
      BY <2>5, <3>1 DEF TraceFine, StreamFine, ImageOf
  <2>8. Ours(u, d)
    BY <2>5 DEF TraceFine, Ours
  <2>9. QED
    BY <1>1, <2>1, <2>5, <2>6, <2>7, <2>8, SubmitFine
<1>7. QED
  BY <1>4, <1>5, <1>6

LEMMA RequestFine ==
  ASSUME NEW t, NEW p, NEW d, TraceFine(t, p, d), NEW identity \in Identities,
         NEW pixel \in Pixels
  PROVE  TraceFine(RequestFor(t, identity, pixel), p, d)
<1> DEFINE wait == [t EXCEPT !.pending = [identity |-> identity,
                                          pixel |-> pixel],
                             !.notIndexed = TRUE]
           u == [t EXCEPT !.notIndexed = FALSE]
<1>1. t \in TraceRecords
  BY DEF TraceFine
<1>2. TraceFine(wait, p, d)
  <2>1. wait \in TraceRecords
    BY <1>1 DEF TraceRecords
  <2>2. QED
    BY <1>1, <2>1, SameRequest DEF TraceRecords
<1>3. u \in TraceRecords /\ TraceFine(u, p, d) /\ u.trace = t.trace
  <2>1. u \in TraceRecords
    BY <1>1 DEF TraceRecords
  <2>2. QED
    BY <1>1, <2>1, SameRequest DEF TraceRecords
<1>4. CASE ~t.trace \/ ~t.query
  BY <1>2, <1>4 DEF RequestFor
<1>5. CASE ~(~t.trace \/ ~t.query)
  <2>1. RequestFor(t, identity, pixel) =
          IF RowOf(t, pixel) = 0 THEN u ELSE Ask(u, identity, RowOf(t, pixel))
    BY <1>5 DEF RequestFor
  <2> HIDE DEF u
  <2>2. RowOf(t, pixel) \in Nat
    <3>1. t.frame \in Frames \union {None} /\ pixel \in Nat
      BY <1>1, TraceAssumption DEF TraceRecords
    <3>2. QED
      BY <3>1, TraceAssumption DEF RowOf
  <2>3. identity \in Streams
    BY DEF Streams
  <2>4. QED
    BY <1>3, <1>5, <2>1, <2>2, <2>3, AskFine
<1>6. QED
  BY <1>4, <1>5

LEMMA OpenTraceFine ==
  ASSUME NEW t, NEW p, NEW d, TraceFine(t, p, d), NEW row \in Nat \ {0}
  PROVE  TraceFine(OpenDecodeTrace(t, row), p, d)
<1> DEFINE u == [t EXCEPT !.notIndexed = FALSE]
           identity == IF t.target = None THEN None ELSE t.target.frame
<1>1. t \in TraceRecords
  BY DEF TraceFine
<1>2. u \in TraceRecords /\ TraceFine(u, p, d) /\ u.trace = t.trace
  <2>1. u \in TraceRecords
    BY <1>1 DEF TraceRecords
  <2>2. QED
    BY <1>1, <2>1, SameRequest DEF TraceRecords
<1>3. identity \in Streams
  BY <1>1 DEF TraceRecords, Targets, Streams, Identities
<1>4. OpenDecodeTrace(t, row)
        = IF ~t.trace THEN t ELSE Ask(u, identity, row)
  BY DEF OpenDecodeTrace
<1> HIDE DEF u, identity
<1>5. QED
  BY <1>2, <1>3, <1>4, AskFine

LEMMA CoordinatorFine ==
  ASSUME NEW t, NEW p, NEW d, TraceFine(t, p, d), NEW ready \in BOOLEAN
  PROVE  TraceFine(SetQueryCoordinator(t, ready), p, d)
<1> DEFINE u == [t EXCEPT !.query = ready]
           v == [u EXCEPT !.pending = None]
<1>1. t \in TraceRecords
  BY DEF TraceFine
<1>2. TraceFine(u, p, d) /\ TraceFine(v, p, d) /\ u.pending = t.pending
  <2>1. u \in TraceRecords /\ v \in TraceRecords
    BY <1>1 DEF TraceRecords
  <2>2. QED
    BY <1>1, <2>1, SameRequest DEF TraceRecords
<1>3. SetQueryCoordinator(t, ready) =
        IF t.pending = None THEN u
        ELSE RequestFor(v, t.pending.identity, t.pending.pixel)
  BY DEF SetQueryCoordinator
<1> HIDE DEF u, v
<1>4. t.pending # None =>
        t.pending.identity \in Identities /\ t.pending.pixel \in Pixels
  BY <1>1 DEF TraceRecords
<1>5. QED
  BY <1>2, <1>3, <1>4, RequestFine

-----------------------------------------------------------------------------
(* The job at the front replays, posts its result and is done.             *)
LEMMA TailIs ==
  ASSUME NEW S, NEW q \in Seq(S), q # <<>>
  PROVE  /\ Tail(q) \in Seq(S)
         /\ DOMAIN q = 1..Len(q) /\ Len(q) \in Nat \ {0}
         /\ DOMAIN Tail(q) = 1..(Len(q) - 1)
         /\ \A k \in DOMAIN Tail(q) :
              Tail(q)[k] = q[k + 1] /\ k + 1 \in DOMAIN q
         /\ \A k \in DOMAIN q : k # 1 =>
              k - 1 \in DOMAIN Tail(q) /\ Tail(q)[k - 1] = q[k]
<1>1. /\ Tail(q) \in Seq(S) /\ Len(Tail(q)) = Len(q) - 1
      /\ \A i \in 1..Len(Tail(q)) : Tail(q)[i] = q[i + 1]
  BY HeadTailProperties
<1>2. Len(q) \in Nat \ {0} /\ DOMAIN q = 1..Len(q)
  BY EmptySeq, LenProperties
<1>3. DOMAIN Tail(q) = 1..(Len(q) - 1)
  BY <1>1, LenProperties
<1>4. ASSUME NEW k \in DOMAIN q, k # 1
      PROVE  k - 1 \in DOMAIN Tail(q) /\ Tail(q)[k - 1] = q[k]
  <2>1. k - 1 \in 1..(Len(q) - 1) /\ (k - 1) + 1 = k
    BY <1>2, <1>4
  <2>2. QED
    BY <1>1, <1>3, <2>1
<1>5. ASSUME NEW k \in DOMAIN Tail(q)
      PROVE  Tail(q)[k] = q[k + 1] /\ k + 1 \in DOMAIN q
  BY <1>1, <1>2, <1>3, <1>5
<1>6. QED
  BY <1>1, <1>2, <1>3, <1>4, <1>5

(* Without its first job the state has the same running jobs but that one. *)
LEMMA DropJob ==
  ASSUME NEW t \in TraceRecords, t.jobs # <<>>
  PROVE  LET u == SinkJob(t) IN
         /\ u \in TraceRecords
         /\ u.interval = t.interval /\ u.wanted = t.wanted
         /\ u.unanswered = t.unanswered /\ u.stream = t.stream
         /\ \A r : Counts(u, r) <=> Counts(t, r)
         /\ \A j : Running(u, j) <=> Running(t, j)
         /\ NoneRuns(t) => NoneRuns(u)
         /\ JobComes(t) /\ Len(t.jobs) = 1 =>
              /\ Running(t, t.jobs[1]) /\ t.jobs[1].row = t.interval
              /\ t.jobs[1].stream = t.stream /\ NoneRuns(u)
         /\ JobComes(t) /\ Len(t.jobs) # 1 => JobComes(u)
         /\ Answered(t) => Answered(u)
         /\ StreamFine(t) => StreamFine(u)
         /\ \A d : Ours(t, d) => Ours(u, d)
<1> DEFINE u == SinkJob(t)
<1>1. t.jobs \in Seq(JobRecords)
  BY DEF TraceRecords
<1>2. Tail(t.jobs) \in Seq(JobRecords)
  BY <1>1, TailIs
<1>3. /\ u \in TraceRecords /\ u.jobs = Tail(t.jobs) /\ u.gen = t.gen
      /\ u.target = t.target /\ u.interval = t.interval
      /\ u.result = t.result /\ u.rows = t.rows /\ u.shown = t.shown
      /\ u.wanted = t.wanted /\ u.unanswered = t.unanswered
      /\ u.trace = t.trace /\ u.stream = t.stream /\ u.refused = t.refused
  BY <1>2 DEF SinkJob, TraceRecords
<1> HIDE DEF u
<1>4. /\ \A r : Counts(u, r) <=> Counts(t, r)
      /\ \A j : Running(u, j) <=> Running(t, j)
  BY <1>3 DEF Counts, OfDocument, OfTarget, Running
<1>5. /\ Len(t.jobs) \in Nat \ {0}
      /\ DOMAIN u.jobs = 1..(Len(t.jobs) - 1)
      /\ \A k \in DOMAIN u.jobs :
           u.jobs[k] = t.jobs[k + 1] /\ k + 1 \in DOMAIN t.jobs
  BY <1>1, <1>3, TailIs
<1>6. NoneRuns(t) => NoneRuns(u)
  BY <1>4, <1>5 DEF NoneRuns
<1>7. ASSUME JobComes(t), Len(t.jobs) = 1
      PROVE  /\ Running(t, t.jobs[1]) /\ t.jobs[1].row = t.interval
             /\ t.jobs[1].stream = t.stream /\ NoneRuns(u)
  <2>1. DOMAIN u.jobs = {}
    BY <1>5, <1>7
  <2>2. QED
    BY <1>7, <2>1 DEF JobComes, NoneRuns
<1>8. ASSUME JobComes(t), Len(t.jobs) # 1
      PROVE  JobComes(u)
  <2> DEFINE n == Len(t.jobs)
  <2>1. Len(u.jobs) = n - 1 /\ n - 1 \in DOMAIN u.jobs
    <3>1. u.jobs \in Seq(JobRecords)
      BY <1>2, <1>3
    <3>2. Len(u.jobs) = n - 1
      BY <1>1, <1>3, HeadTailProperties DEF JobComes
    <3>3. n \in Nat \ {0} /\ n # 1 /\ DOMAIN u.jobs = 1..(n - 1)
      BY <1>5, <1>8
    <3> HIDE DEF n
    <3>4. n - 1 \in 1..(n - 1)
      BY <3>3
    <3>5. QED
      BY <3>2, <3>3, <3>4
  <2>2. u.jobs[n - 1] = t.jobs[n] /\ u.jobs # <<>>
    <3>1. u.jobs[n - 1] = t.jobs[(n - 1) + 1] /\ (n - 1) + 1 = n
      BY <1>5, <2>1
    <3>2. QED
      BY <1>5, <2>1, <3>1
  <2>3. QED
    BY <1>3, <1>4, <1>8, <2>1, <2>2 DEF JobComes
<1>9. Answered(t) => Answered(u)
  BY <1>3, <1>4 DEF Answered
<1>10. (StreamFine(t) => StreamFine(u)) /\ \A d : Ours(t, d) => Ours(u, d)
  BY <1>3 DEF StreamFine, ImageOf, Ours
<1>11. QED
  BY <1>3, <1>4, <1>6, <1>7, <1>8, <1>9, <1>10 DEF u

LEMMA ReplayFine ==
  ASSUME NEW t, NEW p, NEW d, TraceFine(t, p, d), t.jobs # <<>>
  PROVE  TraceFine(ReplayJob(t), p, d)
<1>1. t \in TraceRecords /\ t.jobs \in Seq(JobRecords)
  BY DEF TraceFine, TraceRecords
<1>2. 1 \in DOMAIN t.jobs /\ t.jobs[1] \in JobRecords
  BY <1>1
<1>3. CASE t.jobs[1].cancelled
  <2> DEFINE u == SinkJob(t)
  <2>1. ReplayJob(t) = u
    BY <1>3 DEF ReplayJob, SinkJob
  <2>2. ~Running(t, t.jobs[1])
    BY <1>3 DEF Running
  <2> HIDE DEF u
  <2>3. /\ u \in TraceRecords /\ StreamFine(u) /\ Ours(u, d)
        /\ u.interval = t.interval /\ u.wanted = t.wanted
        /\ u.unanswered = t.unanswered /\ u.stream = t.stream
        /\ \A r : Counts(u, r) <=> Counts(t, r)
        /\ NoneRuns(t) => NoneRuns(u)
        /\ JobComes(t) => JobComes(u)
        /\ Answered(t) => Answered(u)
    BY <1>1, <2>2, DropJob DEF u, TraceFine
  <2>4. AnswerComes(t, p) => AnswerComes(u, p)
    BY <2>3 DEF AnswerComes, ResultComes, ResultShown, NoneComes
  <2>5. QED
    BY <2>1, <2>3, <2>4 DEF TraceFine, Asked
<1>4. CASE ~t.jobs[1].cancelled
  <2> DEFINE job == [t.jobs[1] EXCEPT !.state = "stored"]
             js == [t.jobs EXCEPT ![1] = job]
             u == [t EXCEPT !.jobs = js]
  <2>1. ReplayJob(t) = u
    BY <1>4 DEF ReplayJob
  <2>2. /\ job \in JobRecords /\ job.cancelled = t.jobs[1].cancelled
        /\ job.row = t.jobs[1].row /\ job.stream = t.jobs[1].stream
        /\ Result(job) = Result(t.jobs[1])
    BY <1>2 DEF JobRecords, Result
  <2> HIDE DEF job
  <2>3. /\ js \in Seq(JobRecords) /\ DOMAIN js = DOMAIN t.jobs
        /\ Len(js) = Len(t.jobs) /\ js # <<>>
        /\ \A k \in DOMAIN t.jobs : k # 1 => js[k] = t.jobs[k]
        /\ js[1] = job
    <3>1. /\ js \in Seq(JobRecords) /\ DOMAIN js = DOMAIN t.jobs
          /\ \A k \in DOMAIN t.jobs : k # 1 => js[k] = t.jobs[k]
          /\ js[1] = job
      BY <1>1, <1>2, <2>2, ExceptSeq
    <3> HIDE DEF js
    <3>2. Len(js) = Len(t.jobs)
      BY <1>1, <3>1
    <3>3. QED
      BY <1>2, <3>1, <3>2
  <2> HIDE DEF js
  <2>4. /\ u \in TraceRecords /\ u.jobs = js /\ u.gen = t.gen
        /\ u.target = t.target /\ u.interval = t.interval
        /\ u.result = t.result /\ u.rows = t.rows /\ u.shown = t.shown
        /\ u.wanted = t.wanted /\ u.refused = t.refused
        /\ u.unanswered = t.unanswered /\ u.stream = t.stream
        /\ u.trace = t.trace
    BY <1>1, <2>3 DEF TraceRecords
  <2> HIDE DEF u
  <2>5. /\ \A r : Counts(u, r) <=> Counts(t, r)
    BY <2>4 DEF Counts, OfDocument, OfTarget
  <2>6. \A k \in DOMAIN t.jobs :
          /\ Running(u, u.jobs[k]) <=> Running(t, t.jobs[k])
          /\ u.jobs[k].row = t.jobs[k].row
          /\ u.jobs[k].stream = t.jobs[k].stream
    BY <2>2, <2>3, <2>4, <2>5 DEF Running
  <2>7. JobComes(t) => JobComes(u)
    <3>1. t.jobs # <<>> => Len(t.jobs) \in DOMAIN t.jobs
      BY <1>1
    <3>2. QED
      BY <2>3, <2>4, <2>6, <3>1 DEF JobComes
  <2>8. AnswerComes(t, p) => AnswerComes(u, p)
    BY <2>3, <2>4, <2>5, <2>6, <2>7
    DEF AnswerComes, ResultComes, ResultShown, NoneRuns, NoneComes, Answered
  <2>9. StreamFine(u) /\ Ours(u, d)
    BY <2>4 DEF TraceFine, StreamFine, ImageOf, Ours
  <2>10. QED
    BY <2>1, <2>4, <2>8, <2>9 DEF TraceFine, Asked
<1>5. QED
  BY <1>2, <1>3, <1>4 DEF JobRecords

(* A replay that throws ends the request when it is the last one.          *)
LEMMA ThrowFine ==
  ASSUME NEW t, NEW p, NEW d, TraceFine(t, p, d), t.jobs # <<>>
  PROVE  TraceFine(ThrowJob(t), p, d)
<1> DEFINE u == SinkJob(t)
           v == [u EXCEPT !.unanswered = "threw"]
<1>1. t \in TraceRecords
  BY DEF TraceFine
<1>2. ThrowJob(t) = IF Len(t.jobs) = 1 THEN v ELSE u
  BY <1>1 DEF ThrowJob, SinkJob, TraceRecords
<1> HIDE DEF u
<1>3. /\ u \in TraceRecords /\ StreamFine(u) /\ Ours(u, d)
      /\ u.interval = t.interval /\ u.wanted = t.wanted
      /\ u.unanswered = t.unanswered /\ u.stream = t.stream
      /\ \A r : Counts(u, r) <=> Counts(t, r)
      /\ NoneRuns(t) => NoneRuns(u)
      /\ JobComes(t) /\ Len(t.jobs) # 1 => JobComes(u)
      /\ Answered(t) => Answered(u)
  BY <1>1, DropJob DEF u, TraceFine
<1>4. CASE Len(t.jobs) = 1
  <2>1. /\ v \in TraceRecords /\ v.unanswered = "threw"
        /\ v.interval = u.interval /\ v.wanted = u.wanted
        /\ v.gen = u.gen /\ v.target = u.target /\ v.trace = u.trace
        /\ v.stream = u.stream /\ v.refused = u.refused
    BY <1>3 DEF TraceRecords, Reasons
  <2> HIDE DEF v
  <2>2. StreamFine(v) /\ Ours(v, d)
    BY <1>3, <2>1 DEF StreamFine, ImageOf, Ours
  <2>3. QED
    BY <1>2, <1>3, <1>4, <2>1, <2>2 DEF TraceFine, Asked
<1>5. CASE Len(t.jobs) # 1
  <2>1. AnswerComes(t, p) => AnswerComes(u, p)
    BY <1>3, <1>5 DEF AnswerComes, ResultComes, ResultShown, NoneComes
  <2>2. QED
    BY <1>2, <1>3, <1>5, <2>1 DEF TraceFine, Asked
<1>6. QED
  BY <1>4, <1>5

(* The sink of the first job: its result is the last one posted.           *)
LEMMA SinkFine ==
  ASSUME NEW t, NEW p, NEW d, TraceFine(t, p, d), t.jobs # <<>>
  PROVE  TraceFine(SinkJob(t), IF t.jobs[1].cancelled THEN p
                               ELSE Append(p, Result(t.jobs[1])), d)
<1> DEFINE u == SinkJob(t)
           r == Result(t.jobs[1])
           q == IF t.jobs[1].cancelled THEN p ELSE Append(p, r)
<1>1. /\ t \in TraceRecords /\ t.jobs \in Seq(JobRecords)
      /\ p \in Seq(ResultRecords)
  BY DEF TraceFine, TraceRecords
<1>2. 1 \in DOMAIN t.jobs /\ t.jobs[1] \in JobRecords
  BY <1>1
<1>3. /\ r \in ResultRecords /\ r.row = t.jobs[1].row
      /\ r.stream = t.jobs[1].stream
  BY <1>2 DEF Result, ResultRecords, JobRecords
<1>4. /\ Running(t, t.jobs[1]) <=> ~t.jobs[1].cancelled /\ Counts(t, r)
  BY DEF Running
<1> HIDE DEF u, r
<1>5. /\ u \in TraceRecords /\ StreamFine(u) /\ Ours(u, d)
      /\ u.interval = t.interval /\ u.wanted = t.wanted
      /\ u.unanswered = t.unanswered /\ u.stream = t.stream
      /\ \A s : Counts(u, s) <=> Counts(t, s)
      /\ NoneRuns(t) => NoneRuns(u)
      /\ JobComes(t) =>
           \/ JobComes(u)
           \/ /\ Running(t, t.jobs[1]) /\ t.jobs[1].row = t.interval
              /\ t.jobs[1].stream = t.stream /\ NoneRuns(u)
      /\ Answered(t) => Answered(u)
  BY <1>1, DropJob DEF u, TraceFine
<1>6. CASE t.jobs[1].cancelled
  <2>1. AnswerComes(t, p) => AnswerComes(u, p)
    BY <1>4, <1>5, <1>6
    DEF AnswerComes, ResultComes, ResultShown, NoneComes
  <2>2. QED
    BY <1>5, <1>6, <2>1 DEF TraceFine, Asked, u
<1>7. CASE ~t.jobs[1].cancelled
  <2> DEFINE a == Append(p, r)
  <2>1. /\ a \in Seq(ResultRecords) /\ Len(p) \in Nat
        /\ DOMAIN a = 1..(Len(p) + 1) /\ DOMAIN p = 1..Len(p)
        /\ a[Len(p) + 1] = r
        /\ \A k \in DOMAIN p : a[k] = p[k]
    BY <1>1, <1>3, AppendProperties
  <2> HIDE DEF a
  <2>2. ASSUME NoneRuns(t) PROVE ~Counts(t, r)
    BY <1>2, <1>4, <1>7, <2>2 DEF NoneRuns
  <2>3. ASSUME NEW k \in DOMAIN a
        PROVE  k \in DOMAIN p \/ (k = Len(p) + 1 /\ a[k] = r)
    BY <2>1, <2>3
  <2>4. DOMAIN p \subseteq DOMAIN a
    BY <2>1
  <2>5. ResultComes(t, p) => ResultComes(u, a)
    BY <1>5, <2>1, <2>2, <2>3, <2>4 DEF ResultComes
  <2>6. ResultShown(t, p) => ResultShown(u, a)
    BY <1>5, <2>1, <2>2, <2>3 DEF ResultShown, NoneComes
  <2>7. ASSUME Running(t, t.jobs[1]), t.jobs[1].row = t.interval,
               t.jobs[1].stream = t.stream, NoneRuns(u)
        PROVE  ResultComes(u, a)
    <3>1. Counts(u, r)
      BY <1>4, <1>5, <2>7
    <3>2. Len(p) + 1 \in DOMAIN a /\ \A j \in DOMAIN a : ~(j > Len(p) + 1)
      BY <2>1
    <3>3. QED
      BY <1>3, <1>5, <2>1, <2>7, <3>1, <3>2 DEF ResultComes
  <2>8. AnswerComes(t, p) => AnswerComes(u, a)
    BY <1>5, <2>5, <2>6, <2>7 DEF AnswerComes
  <2>9. TraceFine(u, a, d)
    BY <1>5, <2>1, <2>8 DEF TraceFine, Asked
  <2>10. QED
    BY <1>7, <2>9 DEF a, u, r
<1>8. QED
  BY <1>2, <1>6, <1>7 DEF JobRecords

(* A result that is handled is shown, when it is one of those that count.  *)
LEMMA ResultFine ==
  ASSUME NEW t, NEW p, NEW d, TraceFine(t, p, d), p # <<>>
  PROVE  TraceFine(OnTraceResult(t, p[1]), Tail(p), d)
<1> DEFINE u == OnTraceResult(t, p[1])
           q == Tail(p)
<1>1. t \in TraceRecords /\ p \in Seq(ResultRecords)
  BY DEF TraceFine
<1>2. /\ q \in Seq(ResultRecords) /\ Len(p) \in Nat \ {0}
      /\ DOMAIN p = 1..Len(p) /\ DOMAIN q = 1..(Len(p) - 1)
      /\ \A k \in DOMAIN q : q[k] = p[k + 1] /\ k + 1 \in DOMAIN p
      /\ \A k \in DOMAIN p : k # 1 =>
           k - 1 \in DOMAIN q /\ q[k - 1] = p[k]
  BY <1>1, TailIs
<1>3. 1 \in DOMAIN p /\ p[1] \in ResultRecords
  BY <1>1, <1>2
<1> HIDE DEF q
<1>4. /\ u \in TraceRecords /\ u.jobs = t.jobs /\ u.gen = t.gen
      /\ u.target = t.target /\ u.interval = t.interval
      /\ u.wanted = t.wanted /\ u.refused = t.refused
      /\ u.unanswered = t.unanswered
      /\ u.stream = t.stream /\ u.trace = t.trace
      /\ Counts(t, p[1]) =>
           u.result = p[1] /\ u.rows = p[1] /\ u.shown = "answered"
      /\ ~Counts(t, p[1]) => u = t
  <2>1. CASE Counts(t, p[1])
    <3> DEFINE v == [t EXCEPT !.result = p[1]]
               w == [v EXCEPT !.bundle = p[1], !.status = "answered"]
    <3>1. u = [PublishState(w) EXCEPT !.handle = FALSE]
      BY <2>1 DEF OnTraceResult, Publish, Counts
    <3>2. p[1] # None
      BY <1>3, NoneIs
    <3>3. /\ w \in TraceRecords /\ w.jobs = t.jobs /\ w.gen = t.gen
          /\ w.target = t.target /\ w.interval = t.interval
          /\ w.wanted = t.wanted /\ w.refused = t.refused
          /\ w.unanswered = t.unanswered /\ w.result = p[1]
          /\ w.stream = t.stream /\ w.trace = t.trace
          /\ w.bundle = p[1] /\ w.status = "answered"
      BY <1>1, <1>3 DEF TraceRecords, Results, States
    <3> HIDE DEF w, u
    <3> DEFINE x == PublishState(w)
    <3>4. /\ x \in TraceRecords /\ x.jobs = t.jobs /\ x.gen = t.gen
          /\ x.target = t.target /\ x.interval = t.interval
          /\ x.wanted = t.wanted /\ x.refused = t.refused
          /\ x.unanswered = t.unanswered /\ x.result = p[1]
          /\ x.stream = t.stream /\ x.trace = t.trace
          /\ x.rows = p[1] /\ x.shown = "answered"
      BY <3>2, <3>3, PublishTyped
    <3> HIDE DEF x
    <3>5. u = [x EXCEPT !.handle = FALSE]
      BY <3>1 DEF x
    <3>6. QED
      BY <2>1, <3>4, <3>5 DEF TraceRecords
  <2>2. CASE ~Counts(t, p[1])
    BY <1>1, <2>2 DEF OnTraceResult, Counts
  <2>3. QED
    BY <2>1, <2>2
<1> HIDE DEF u
<1>5. /\ \A r : Counts(u, r) <=> Counts(t, r)
      /\ \A j : Running(u, j) <=> Running(t, j)
  BY <1>4 DEF Counts, OfDocument, OfTarget, Running
<1>6. JobComes(t) => JobComes(u)
  BY <1>4, <1>5 DEF JobComes
<1>7. NoneRuns(t) => NoneRuns(u)
  BY <1>4, <1>5 DEF NoneRuns
<1>8. ASSUME ResultComes(t, p)
      PROVE  ResultComes(u, q) \/ ResultShown(u, q)
  <2>1. PICK k \in DOMAIN p :
          /\ Counts(t, p[k]) /\ p[k].row = t.interval
          /\ p[k].stream = t.stream
          /\ \A j \in DOMAIN p : j > k => ~Counts(t, p[j])
    BY <1>8 DEF ResultComes
  <2>2. NoneRuns(u)
    BY <1>7, <1>8 DEF ResultComes
  <2>3. \A j \in DOMAIN q :
          /\ j > k - 1 => j + 1 > k
          /\ j + 1 \in DOMAIN p /\ q[j] = p[j + 1]
    BY <1>2
  <2>4. \A j \in DOMAIN q : j > k - 1 => ~Counts(u, q[j])
    BY <1>5, <2>1, <2>3
  <2>5. CASE k = 1
    <3>1. \A j \in DOMAIN q : j > k - 1
      BY <1>2, <2>5
    <3>2. NoneComes(u, q)
      BY <2>4, <3>1 DEF NoneComes
    <3>3. Answered(u)
      <4>1. u.result = p[1] /\ p[1] # None
        BY <1>3, <1>4, <2>1, <2>5, NoneIs
      <4>2. QED
        BY <1>4, <1>5, <2>1, <2>5, <4>1 DEF Answered
    <3>4. QED
      BY <2>2, <3>2, <3>3 DEF ResultShown
  <2>6. CASE k # 1
    <3>1. k - 1 \in DOMAIN q /\ q[k - 1] = p[k]
      BY <1>2, <2>6
    <3>2. QED
      BY <1>4, <1>5, <2>1, <2>2, <2>4, <3>1 DEF ResultComes
  <2>7. QED
    BY <2>5, <2>6
<1>9. ASSUME ResultShown(t, p)
      PROVE  ResultShown(u, q)
  <2>1. ~Counts(t, p[1])
    BY <1>3, <1>9 DEF ResultShown, NoneComes
  <2>2. u = t
    BY <1>4, <2>1
  <2>3. NoneComes(t, q)
    BY <1>2, <1>9 DEF ResultShown, NoneComes
  <2>4. QED
    BY <1>9, <2>2, <2>3 DEF ResultShown
<1>10. AnswerComes(t, p) => AnswerComes(u, q)
  BY <1>6, <1>8, <1>9 DEF AnswerComes
<1>11. StreamFine(u) /\ Ours(u, d)
  BY <1>4 DEF TraceFine, StreamFine, ImageOf, Ours
<1>12. QED
  BY <1>2, <1>4, <1>10, <1>11 DEF TraceFine, Asked, u, q

-----------------------------------------------------------------------------
(* What the GUI thread has selected and shows.                             *)
ImageRecords == [identity : Identities, pixel : Pixels]

Images == ImageRecords \union {None}

Stages == (Nat \X Identities) \union {None}

SelectionRecords ==
  [gen : Nat, source : BOOLEAN, stages : BOOLEAN, query : BOOLEAN,
   identity : Identities, locked : Images, hover : Images, view : BOOLEAN,
   frameStage : Stages, frameStream : Stages, hexSource : Sources,
   hexTab : Sources,
   hex : [kind : Sources, of : Stages] \union {None},
   bus : [image : Images,
          of : {"nothing", "image", "chunk", "statistics"}],
   trace : TraceRecords]

Scoped(x, image) == image # None => image.identity = x.identity

(* The selection is of the image that is shown, the request is in order.   *)
GuiFine(x, p, d) ==
  /\ x \in SelectionRecords
  /\ TraceFine(x.trace, p, d)
  /\ Scoped(x, x.locked) /\ Scoped(x, x.hover) /\ Scoped(x, x.bus.image)

(* Fields of the hex view and the like change.                             *)
LEMMA SameSelection ==
  ASSUME NEW x, NEW p, NEW d, GuiFine(x, p, d), NEW y \in SelectionRecords,
         y.trace = x.trace, y.identity = x.identity,
         y.locked \in {x.locked, None}, y.hover \in {x.hover, None},
         y.bus.image \in {x.bus.image, None}
  PROVE  GuiFine(y, p, d)
BY DEF GuiFine, Scoped

LEMMA TraceChanges ==
  ASSUME NEW x, NEW p, NEW d, GuiFine(x, p, d), NEW t, NEW q,
         TraceFine(t, q, d)
  PROVE  /\ GuiFine([x EXCEPT !.trace = t], q, d)
         /\ [x EXCEPT !.trace = t].gen = x.gen
         /\ [x EXCEPT !.trace = t].trace = t
<1> DEFINE y == [x EXCEPT !.trace = t]
<1>1. x \in SelectionRecords /\ t \in TraceRecords
  BY DEF GuiFine, TraceFine
<1>2. /\ y \in SelectionRecords /\ y.trace = t /\ y.gen = x.gen
      /\ y.identity = x.identity /\ y.locked = x.locked
      /\ y.hover = x.hover /\ y.bus = x.bus
  BY <1>1 DEF SelectionRecords
<1> HIDE DEF y
<1>3. GuiFine(y, q, d)
  BY <1>2 DEF GuiFine, Scoped
<1>4. QED
  BY <1>2, <1>3 DEF y

(* updateHexSource() changes the hex view only.                            *)
LEMMA HexTyped ==
  ASSUME NEW x \in SelectionRecords
  PROVE  /\ UpdateHexSource(x) \in SelectionRecords
         /\ UpdateHexSource(x).trace = x.trace
         /\ UpdateHexSource(x).identity = x.identity
         /\ UpdateHexSource(x).locked = x.locked
         /\ UpdateHexSource(x).hover = x.hover
         /\ UpdateHexSource(x).bus = x.bus
         /\ UpdateHexSource(x).gen = x.gen
<1>1. /\ x.hexSource \in Sources /\ x.frameStream \in Stages
      /\ x.frameStage \in Stages /\ x.gen \in Nat
  BY DEF SelectionRecords
<1>2. <<x.gen, Static>> \in Stages /\ None \in Stages
  BY <1>1 DEF Stages, Identities
<1>3. HexOf(x) \in [kind : Sources, of : Stages] \union {None}
  <2>1. [kind |-> "frame", of |-> x.frameStream]
          \in [kind : Sources, of : Stages]
    BY <1>1 DEF Sources
  <2>2. [kind |-> x.hexSource, of |-> <<x.gen, Static>>]
          \in [kind : Sources, of : Stages]
    BY <1>1, <1>2
  <2>3. [kind |-> x.hexSource,
         of |-> IF x.frameStage # None THEN x.frameStage
                ELSE IF x.stages THEN <<x.gen, Static>> ELSE None]
          \in [kind : Sources, of : Stages]
    BY <1>1, <1>2
  <2>4. QED
    BY <2>1, <2>2, <2>3 DEF HexOf
<1>4. TabOf(x.hexSource) \in Sources
  BY <1>1 DEF TabOf, Sources
<1> DEFINE h == HexOf(x)
           b == TabOf(x.hexSource)
<1>5. UpdateHexSource(x) = [x EXCEPT !.hexTab = b, !.hex = h]
  BY DEF UpdateHexSource
<1>6. h \in [kind : Sources, of : Stages] \union {None} /\ b \in Sources
  BY <1>3, <1>4
<1> HIDE DEF h, b
<1>7. QED
  BY <1>5, <1>6 DEF SelectionRecords

LEMMA HexFine ==
  ASSUME NEW x, NEW p, NEW d, GuiFine(x, p, d)
  PROVE  GuiFine(UpdateHexSource(x), p, d)
<1>1. x \in SelectionRecords
  BY DEF GuiFine
<1>2. QED
  BY <1>1, HexTyped, SameSelection

LEMMA HexSourceFine ==
  ASSUME NEW x, NEW p, NEW d, GuiFine(x, p, d), NEW source \in Sources
  PROVE  GuiFine(SetHexSource(x, source), p, d)
<1> DEFINE y == [x EXCEPT !.hexSource = source]
<1>1. x \in SelectionRecords
  BY DEF GuiFine
<1>2. /\ y \in SelectionRecords /\ y.trace = x.trace
      /\ y.identity = x.identity /\ y.locked = x.locked
      /\ y.hover = x.hover /\ y.bus = x.bus
  BY <1>1 DEF SelectionRecords
<1>3. SetHexSource(x, source) = UpdateHexSource(y)
  BY DEF SetHexSource
<1> HIDE DEF y
<1>4. QED
  BY <1>2, <1>3, SameSelection, HexFine

-----------------------------------------------------------------------------
(* The selection bus: what is put on it is of the image on show.           *)
LEMMA BusFine ==
  ASSUME NEW x, NEW p, NEW d, GuiFine(x, p, d), NEW image \in Images,
         Scoped(x, image),
         NEW of \in {"nothing", "image", "chunk", "statistics"}
  PROVE  /\ GuiFine(BusPublish(x, image, of), p, d)
         /\ GuiFine(BusMerge(x, image, of), p, d)
         /\ BusMerge(x, image, of).identity = x.identity
         /\ BusMerge(x, image, of).trace = x.trace
<1> DEFINE y == BusPublish(x, image, of)
           z == BusMerge(x, image, of)
<1>1. x \in SelectionRecords
  BY DEF GuiFine
<1>2. /\ y \in SelectionRecords /\ y.bus.image = image
      /\ y.trace = x.trace /\ y.identity = x.identity
      /\ y.locked = x.locked /\ y.hover = x.hover
  BY <1>1 DEF SelectionRecords, BusPublish
<1>3. /\ z \in SelectionRecords /\ z.bus.image \in {image, x.bus.image}
      /\ z.trace = x.trace /\ z.identity = x.identity
      /\ z.locked = x.locked /\ z.hover = x.hover
  BY <1>1 DEF SelectionRecords, BusMerge
<1> HIDE DEF y, z
<1>4. GuiFine(y, p, d) /\ GuiFine(z, p, d)
  BY <1>2, <1>3 DEF GuiFine, Scoped
<1>5. QED
  BY <1>3, <1>4 DEF y, z

LEMMA LockFine ==
  ASSUME NEW x, NEW p, NEW d, GuiFine(x, p, d), NEW image \in ImageRecords,
         image.identity = x.identity
  PROVE  /\ GuiFine([x EXCEPT !.locked = image], p, d)
         /\ [x EXCEPT !.locked = image].identity = x.identity
<1> DEFINE y == [x EXCEPT !.locked = image]
<1>1. x \in SelectionRecords
  BY DEF GuiFine
<1>2. /\ y \in SelectionRecords /\ y.trace = x.trace
      /\ y.identity = x.identity /\ y.locked = image
      /\ y.hover = x.hover /\ y.bus = x.bus
  BY <1>1 DEF SelectionRecords, Images
<1> HIDE DEF y
<1>3. GuiFine(y, p, d)
  BY <1>2 DEF GuiFine, Scoped
<1>4. QED
  BY <1>2, <1>3 DEF y

LEMMA UnlockFine ==
  ASSUME NEW x, NEW p, NEW d, GuiFine(x, p, d)
  PROVE  /\ GuiFine(ClearLockedCoordinate(x), p, d)
         /\ ClearLockedCoordinate(x).locked = None
         /\ ClearLockedCoordinate(x).bus.image = None
         /\ ClearLockedCoordinate(x).hover = x.hover
<1> DEFINE y == ClearLockedCoordinate(x)
<1>1. x \in SelectionRecords
  BY DEF GuiFine
<1>2. /\ y \in SelectionRecords /\ y.trace = x.trace
      /\ y.identity = x.identity /\ y.locked = None
      /\ y.hover = x.hover /\ y.bus.image = None
  BY <1>1 DEF SelectionRecords, ClearLockedCoordinate, BusPublish, Images
<1> HIDE DEF y
<1>3. GuiFine(y, p, d)
  BY <1>2, SameSelection
<1>4. QED
  BY <1>2, <1>3 DEF y

LEMMA ChunkFine ==
  ASSUME NEW x, NEW p, NEW d, GuiFine(x, p, d)
  PROVE  /\ GuiFine(OnChunkSelected(x), p, d)
         /\ \A chunks \in BOOLEAN :
              GuiFine(ReplaceChunkModel(x, chunks), p, d)
<1>1. \A y : GuiFine(y, p, d) => GuiFine(OnChunkSelected(y), p, d)
  <2> TAKE y
  <2> HAVE GuiFine(y, p, d)
  <2>1. GuiFine(SetHexSource(y, "file"), p, d)
    BY HexSourceFine DEF Sources
  <2>2. None \in Images /\ Scoped(SetHexSource(y, "file"), None)
    BY DEF Images, Scoped
  <2>3. QED
    BY <2>1, <2>2, BusFine DEF OnChunkSelected
<1>2. GuiFine(UpdateHexSource(x), p, d)
  BY HexFine
<1>3. QED
  BY <1>1, <1>2 DEF ReplaceChunkModel

LEMMA StatisticsRowFine ==
  ASSUME NEW x, NEW p, NEW d, GuiFine(x, p, d)
  PROVE  GuiFine(OnStatisticsSelected(x), p, d)
<1> DEFINE y == BusPublish(x, None, "statistics")
<1>1. GuiFine(y, p, d)
  BY BusFine DEF Images, Scoped
<1>2. OnStatisticsSelected(x) = SetHexSource(y, "file")
  BY DEF OnStatisticsSelected, BusPublish
<1> HIDE DEF y
<1>3. QED
  BY <1>1, <1>2, HexSourceFine DEF Sources

-----------------------------------------------------------------------------
(* The image that is shown, and the request of what is locked on it.       *)
LEMMA IdentityFine ==
  ASSUME NEW x, NEW p, NEW d, GuiFine(x, p, d), NEW identity \in Identities
  PROVE  /\ GuiFine(SetImageIdentity(x, identity), p, d)
         /\ SetImageIdentity(x, identity).identity = identity
         /\ SetImageIdentity(x, identity).trace = x.trace
<1> DEFINE h == IF x.identity = identity THEN x
                ELSE ClearLockedCoordinate([x EXCEPT !.hover = None])
           y == [h EXCEPT !.identity = identity,
                          !.view = @ /\ identity # Static]
<1>1. x \in SelectionRecords
  BY DEF GuiFine
<1>2. SetImageIdentity(x, identity) = y
  BY DEF SetImageIdentity
<1>3. /\ h \in SelectionRecords /\ h.trace = x.trace
      /\ h.identity = x.identity
      /\ x.identity = identity => h = x
      /\ x.identity # identity =>
           h.locked = None /\ h.hover = None /\ h.bus.image = None
  <2> DEFINE o == [x EXCEPT !.hover = None]
             c == ClearLockedCoordinate(o)
  <2>1. /\ o \in SelectionRecords /\ o.trace = x.trace
        /\ o.identity = x.identity /\ o.hover = None
    BY <1>1 DEF SelectionRecords, Images
  <2>2. h = IF x.identity = identity THEN x ELSE c
    OBVIOUS
  <2> HIDE DEF o
  <2>3. /\ c \in SelectionRecords /\ c.trace = x.trace
        /\ c.identity = x.identity /\ c.hover = None
        /\ c.locked = None /\ c.bus.image = None
    BY <2>1 DEF SelectionRecords, ClearLockedCoordinate, BusPublish, Images
  <2> HIDE DEF c, h
  <2>4. QED
    BY <1>1, <2>2, <2>3
<1> HIDE DEF h
<1>4. /\ y \in SelectionRecords /\ y.trace = x.trace
      /\ y.identity = identity /\ y.locked = h.locked
      /\ y.hover = h.hover /\ y.bus = h.bus
  BY <1>3 DEF SelectionRecords
<1> HIDE DEF y
<1>5. GuiFine(y, p, d)
  <2>1. TraceFine(y.trace, p, d)
    BY <1>4 DEF GuiFine
  <2>2. CASE x.identity = identity
    BY <1>3, <1>4, <2>1, <2>2 DEF GuiFine, Scoped
  <2>3. CASE x.identity # identity
    BY <1>3, <1>4, <2>1, <2>3 DEF GuiFine, Scoped
  <2>4. QED
    BY <2>2, <2>3
<1>6. QED
  BY <1>2, <1>4, <1>5

LEMMA RequestTraceFine ==
  ASSUME NEW x, NEW p, NEW d, GuiFine(x, p, d), NEW identity \in Identities,
         NEW pixel \in Pixels
  PROVE  GuiFine(RequestTrace(x, identity, pixel), p, d)
<1>1. TraceFine(RequestFor(x.trace, identity, pixel), p, d)
  BY RequestFine DEF GuiFine
<1>2. QED
  BY <1>1, TraceChanges DEF RequestTrace

LEMMA LockedTraceFine ==
  ASSUME NEW x, NEW p, NEW d, GuiFine(x, p, d)
  PROVE  GuiFine(RequestLockedTrace(x), p, d)
<1> DEFINE image == At(x.identity, x.locked.pixel)
           y == [x EXCEPT !.locked = image]
           z == BusMerge(y, image, "image")
<1>1. CASE x.frameStage = None \/ x.identity \notin Frames \/ x.locked = None
  BY <1>1 DEF RequestLockedTrace
<1>2. CASE ~(x.frameStage = None \/ x.identity \notin Frames
             \/ x.locked = None)
  <2>1. x.locked \in ImageRecords /\ x.identity \in Identities
    BY <1>2 DEF GuiFine, SelectionRecords, Images
  <2>2. /\ image \in ImageRecords /\ image.identity = x.identity
        /\ image.pixel \in Pixels
    BY <2>1 DEF ImageRecords, At
  <2>3. RequestLockedTrace(x) = RequestTrace(z, x.identity, image.pixel)
    BY <1>2 DEF RequestLockedTrace
  <2> HIDE DEF image
  <2>4. GuiFine(y, p, d) /\ y.identity = x.identity
    BY <2>2, LockFine
  <2> HIDE DEF y
  <2>5. GuiFine(z, p, d)
    BY <2>2, <2>4, BusFine DEF Images, Scoped
  <2> HIDE DEF z
  <2>6. QED
    BY <2>1, <2>2, <2>3, <2>5, RequestTraceFine
<1>3. QED
  BY <1>1, <1>2

LEMMA PixelFine ==
  ASSUME NEW x, NEW p, NEW d, GuiFine(x, p, d), NEW pixel \in Pixels
  PROVE  /\ GuiFine(OnAnimationPixelSelected(x, pixel), p, d)
         /\ GuiFine(OnPixelSelected(x, pixel), p, d)
         /\ GuiFine(PublishLockedCoordinate(x, pixel), p, d)
         /\ GuiFine(NudgeLockedCoordinate(x, pixel), p, d)
         /\ GuiFine(OnPixelHovered(x, pixel), p, d)
<1> DEFINE image == At(x.identity, pixel)
           y == [x EXCEPT !.locked = image]
<1>1. x \in SelectionRecords /\ x.identity \in Identities
  BY DEF GuiFine, SelectionRecords
<1>2. image \in ImageRecords /\ image.identity = x.identity
  BY <1>1 DEF ImageRecords, At
<1>3. GuiFine(OnPixelHovered(x, pixel), p, d)
  <2> DEFINE h == [x EXCEPT !.hover = image]
  <2>1. OnPixelHovered(x, pixel) = h
    BY DEF OnPixelHovered
  <2> HIDE DEF image
  <2>2. /\ h \in SelectionRecords /\ h.trace = x.trace
        /\ h.identity = x.identity /\ h.locked = x.locked
        /\ h.hover = image /\ h.bus = x.bus
    BY <1>1, <1>2 DEF SelectionRecords, Images
  <2> HIDE DEF h
  <2>3. GuiFine(h, p, d)
    BY <1>2, <2>2 DEF GuiFine, Scoped
  <2>4. QED
    BY <2>1, <2>3
<1>4. OnAnimationPixelSelected(x, pixel)
        \in {x, RequestLockedTrace(BusPublish(y, image, "image"))}
  BY DEF OnAnimationPixelSelected
<1>5. OnPixelSelected(x, pixel)
        \in {OnAnimationPixelSelected(x, pixel),
             RequestTrace(BusMerge(y, image, "image"), x.identity, pixel)}
  BY DEF OnPixelSelected
<1> HIDE DEF image
<1>6. GuiFine(y, p, d) /\ y.identity = x.identity
  BY <1>2, LockFine
<1> HIDE DEF y
<1>7. /\ GuiFine(BusPublish(y, image, "image"), p, d)
      /\ GuiFine(BusMerge(y, image, "image"), p, d)
  BY <1>2, <1>6, BusFine DEF Images, Scoped
<1>8. GuiFine(OnAnimationPixelSelected(x, pixel), p, d)
  BY <1>4, <1>7, LockedTraceFine
<1>9. GuiFine(OnPixelSelected(x, pixel), p, d)
  BY <1>1, <1>5, <1>7, <1>8, RequestTraceFine
<1>10. QED
  BY <1>3, <1>8, <1>9 DEF PublishLockedCoordinate, NudgeLockedCoordinate

(* The stages of a frame, its stream and its view.                         *)
LEMMA FrameFine ==
  ASSUME NEW x, NEW p, NEW d, GuiFine(x, p, d)
  PROVE  /\ \A frame \in Frames \union {None} :
              GuiFine(SetAnimationFrameStream(x, frame), p, d)
         /\ \A stage \in Stages :
              GuiFine(SetFrameStageContext(x, stage), p, d)
         /\ GuiFine(SetAnimationView(x), p, d)
         /\ \A query \in BOOLEAN :
              GuiFine(OnStageSetPublished(x, query), p, d)
         /\ GuiFine(OnPixelHoverLeft(x), p, d)
<1>1. x \in SelectionRecords /\ x.gen \in Nat
  BY DEF GuiFine, SelectionRecords
<1>2. ASSUME NEW frame \in Frames \union {None}
      PROVE  GuiFine(SetAnimationFrameStream(x, frame), p, d)
  <2> DEFINE stream == IF frame = None THEN None ELSE <<x.gen, frame>>
             y == [x EXCEPT !.frameStream = stream]
  <2>1. stream \in Stages
    BY <1>1 DEF Stages, Identities
  <2>2. SetAnimationFrameStream(x, frame) = UpdateHexSource(y)
    BY DEF SetAnimationFrameStream
  <2> HIDE DEF stream
  <2>3. /\ y \in SelectionRecords /\ y.trace = x.trace
        /\ y.identity = x.identity /\ y.locked = x.locked
        /\ y.hover = x.hover /\ y.bus = x.bus
    BY <1>1, <2>1 DEF SelectionRecords
  <2> HIDE DEF y
  <2>4. QED
    BY <2>2, <2>3, SameSelection, HexFine
<1>3. ASSUME NEW stage \in Stages
      PROVE  GuiFine(SetFrameStageContext(x, stage), p, d)
  <2> DEFINE y == [x EXCEPT !.frameStage = stage]
  <2>1. SetFrameStageContext(x, stage)
          = RequestLockedTrace(UpdateHexSource(y))
    BY DEF SetFrameStageContext
  <2>2. /\ y \in SelectionRecords /\ y.trace = x.trace
        /\ y.identity = x.identity /\ y.locked = x.locked
        /\ y.hover = x.hover /\ y.bus = x.bus
    BY <1>1 DEF SelectionRecords
  <2> HIDE DEF y
  <2>3. GuiFine(UpdateHexSource(y), p, d)
    BY <2>2, SameSelection, HexFine
  <2>4. QED
    BY <2>1, <2>3, LockedTraceFine
<1>4. GuiFine(SetAnimationView(x), p, d)
  <2> DEFINE y == [x EXCEPT !.view = TRUE]
  <2>1. /\ y \in SelectionRecords /\ y.trace = x.trace
        /\ y.identity = x.identity /\ y.locked = x.locked
        /\ y.hover = x.hover /\ y.bus = x.bus
    BY <1>1 DEF SelectionRecords
  <2>2. SetAnimationView(x) = y
    BY DEF SetAnimationView
  <2> HIDE DEF y
  <2>3. QED
    BY <2>1, <2>2, SameSelection
<1>5. ASSUME NEW query \in BOOLEAN
      PROVE  GuiFine(OnStageSetPublished(x, query), p, d)
  <2> DEFINE y == [x EXCEPT !.stages = TRUE, !.query = query]
  <2>1. /\ y \in SelectionRecords /\ y.trace = x.trace
        /\ y.identity = x.identity /\ y.locked = x.locked
        /\ y.hover = x.hover /\ y.bus = x.bus
    BY <1>1 DEF SelectionRecords
  <2>2. OnStageSetPublished(x, query) = UpdateHexSource(y)
    BY DEF OnStageSetPublished
  <2> HIDE DEF y
  <2>3. QED
    BY <2>1, <2>2, SameSelection, HexFine
<1>6. GuiFine(OnPixelHoverLeft(x), p, d)
  <2> DEFINE y == [x EXCEPT !.hover = None]
  <2>1. /\ y \in SelectionRecords /\ y.trace = x.trace
        /\ y.identity = x.identity /\ y.locked = x.locked
        /\ y.hover = None /\ y.bus = x.bus
    BY <1>1 DEF SelectionRecords, Images
  <2>2. OnPixelHoverLeft(x) = y
    BY DEF OnPixelHoverLeft
  <2> HIDE DEF y
  <2>3. QED
    BY <2>1, <2>2, SameSelection
<1>7. QED
  BY <1>2, <1>3, <1>4, <1>5, <1>6

LEMMA FrameStreamIdentity ==
  ASSUME NEW x \in SelectionRecords
  PROVE  SetAnimationFrameStream(x, None).identity = x.identity
<1> DEFINE y == [x EXCEPT !.frameStream = None]
<1>1. y \in SelectionRecords /\ y.identity = x.identity
  BY DEF SelectionRecords, Stages
<1>2. SetAnimationFrameStream(x, None) = UpdateHexSource(y)
  BY DEF SetAnimationFrameStream
<1> HIDE DEF y
<1>3. QED
  BY <1>1, <1>2, HexTyped

(* A document that is opened or closed drops what was selected.            *)
LEMMA SetDocumentFine ==
  ASSUME NEW x \in SelectionRecords, NEW gen \in Nat, NEW t, NEW p,
         NEW d, TraceFine(t, p, d)
  PROVE  LET h == SetDocument(SetBusGeneration(x, gen), gen)
             c == ClearSelection(SetBusGeneration(x, gen), gen)
         IN  /\ GuiFine([h EXCEPT !.trace = t], p, d)
             /\ GuiFine([c EXCEPT !.trace = t], p, d)
<1> DEFINE h == SetDocument(SetBusGeneration(x, gen), gen)
           c == ClearSelection(SetBusGeneration(x, gen), gen)
           ht == [h EXCEPT !.trace = t]
           ct == [c EXCEPT !.trace = t]
           b == SetBusGeneration(x, gen)
<1>1. t \in TraceRecords
  BY DEF TraceFine
<1>2. b \in SelectionRecords /\ b.bus.image = None
  BY DEF SetBusGeneration, NoSelection, SelectionRecords, Images
<1> HIDE DEF b
<1>3. /\ h \in SelectionRecords /\ h.locked = None /\ h.hover = None
      /\ h.bus.image = None
  <2>1. h = SetDocument(b, gen)
    BY DEF b
  <2> HIDE DEF h
  <2> DEFINE y == [b EXCEPT !.gen = gen, !.source = TRUE, !.stages = FALSE,
                            !.query = FALSE]
  <2>2. y \in SelectionRecords /\ y.bus = b.bus
    BY <1>2 DEF SelectionRecords
  <2>3. h = [y EXCEPT !.frameStream = None, !.identity = Static,
                      !.locked = None, !.hover = None]
    BY <2>1 DEF SetDocument
  <2> HIDE DEF y
  <2>4. None \in Stages /\ None \in Images /\ Static \in Identities
    BY DEF Stages, Images, Identities
  <2>5. QED
    BY <1>2, <2>2, <2>3, <2>4 DEF SelectionRecords
<1>4. c = [h EXCEPT !.source = FALSE]
  BY DEF ClearSelection
<1> HIDE DEF h, c
<1>5. /\ ht \in SelectionRecords /\ ht.locked = None /\ ht.hover = None
      /\ ht.bus.image = None /\ ht.trace = t
      /\ ct \in SelectionRecords /\ ct.locked = None /\ ct.hover = None
      /\ ct.bus.image = None /\ ct.trace = t
  BY <1>1, <1>3, <1>4 DEF SelectionRecords
<1> HIDE DEF ht, ct
<1>6. GuiFine(ht, p, d) /\ GuiFine(ct, p, d)
  BY <1>5 DEF GuiFine, Scoped
<1>7. QED
  BY <1>6 DEF ht, ct, h, c

-----------------------------------------------------------------------------
(* The main window.                                                        *)
Now == [gen |-> session.gen, late |-> inspection.late]

Surroundings ==
  /\ session \in [gen : Nat, open : BOOLEAN, opens : BOOLEAN,
                  animated : BOOLEAN, decoded : BOOLEAN, staged : BOOLEAN,
                  mounted : BOOLEAN, frames : Nat]
  /\ inspection \in [target : Targets \union {None},
                     opening : SUBSET Targets, late : BOOLEAN]
  /\ inspection.target # None =>
       inspection.target.gen = session.gen \/ inspection.late
  /\ mail \in Seq(Targets)

(* The selection is scoped, the last request has its answer or has one to  *)
(* come, and the target of the session is of the document on show, unless  *)
(* a worker was late.                                                      *)
GuiInv == Surroundings /\ GuiFine(g, posted, Now)

LEMMA SmallestOf ==
  ASSUME NEW T, T \subseteq Nat, T # {}
  PROVE  \E m \in T : \A n \in T : m <= n
<1> DEFINE Below == {0..n : n \in T}
<1>1. Below \subseteq FiniteSubsetsOf(Nat) /\ Below # {}
  <2>1. ASSUME NEW n \in T
        PROVE  0..n \subseteq Nat /\ IsFiniteSet(0..n)
    BY FS_Interval
  <2>2. QED
    BY <2>1 DEF FiniteSubsetsOf
<1>2. PICK B \in Below :
        \A C \in Below : <<C, B>> \notin StrictSubsetOrdering(Nat)
  <2> HIDE DEF Below
  <2> QED
    BY <1>1, FS_StrictSubsetOrderingWellFounded, WFMin
<1>3. PICK m \in T : B = 0..m
  OBVIOUS
<1>4. ASSUME NEW n \in T, n < m
      PROVE  FALSE
  <2>1. 0..n \in Below /\ 0..n \subseteq 0..m /\ m \notin 0..n /\ m \in 0..m
    BY <1>4
  <2>2. 0..n \subseteq Nat /\ 0..m \subseteq Nat
    OBVIOUS
  <2>3. <<0..n, 0..m>> \in StrictSubsetOrdering(Nat)
    BY <2>1, <2>2 DEF StrictSubsetOrdering
  <2>4. QED
    BY <1>2, <1>3, <2>1, <2>3
<1>5. QED
  BY <1>4

LEMMA FirstPixelIs == FirstPixel \in Pixels
<1>1. \E p \in Pixels : \A q \in Pixels : p <= q
  BY TraceAssumption, SmallestOf
<1>2. QED
  BY <1>1 DEF FirstPixel

LEMMA InitFine == Init => GuiInv
<1> SUFFICES ASSUME Init PROVE GuiInv
  OBVIOUS
<1> DEFINE t == NoTrace(0, FALSE)
<1>1. Surroundings
  BY DEF Init, Surroundings, NoSession, NoTarget
<1>0. Now.gen = 0
  BY DEF Now, Init, NoSession
<1>2. posted \in Seq(ResultRecords) /\ g = NoSelections(t)
  BY DEF Init
<1>3. TraceFine(t, posted, Now)
  <2>1. /\ t \in TraceRecords /\ t.interval = 0 /\ t.wanted = 0
        /\ t.gen = 0 /\ t.target = None /\ StreamFine(t)
    BY NewTrace
  <2> HIDE DEF t
  <2>2. Ours(t, Now)
    BY <1>0, <2>1 DEF Ours
  <2>3. QED
    BY <1>2, <2>1, <2>2, Forgotten
<1>4. t \in TraceRecords
  BY NewTrace
<1> HIDE DEF t
<1>5. GuiFine(g, posted, Now)
  BY <1>2, <1>3, <1>4
  DEF GuiFine, NoSelections, NoSelection, SelectionRecords, Images, Stages,
      Identities, Sources, Scoped
<1>6. QED
  BY <1>1, <1>5 DEF GuiInv

(* What the orchestrator that is dropped may still post is a result.       *)
LEMMA LastAnswersTyped ==
  ASSUME NEW t \in TraceRecords, NEW p \in Seq(ResultRecords),
         NEW last \in LastAnswers(t)
  PROVE  p \o last \in Seq(ResultRecords)
<1>1. t.jobs \in Seq(JobRecords)
  BY DEF TraceRecords
<1>2. ASSUME NEW k \in DOMAIN t.jobs
      PROVE  Result(t.jobs[k]) \in ResultRecords
  <2>1. t.jobs[k] \in JobRecords
    BY <1>1
  <2>2. QED
    BY <2>1 DEF Result, ResultRecords, JobRecords
<1>3. last \in Seq(ResultRecords)
  <2>1. last = <<>> \/ \E k \in DOMAIN t.jobs : last = <<Result(t.jobs[k])>>
    BY DEF LastAnswers
  <2>2. CASE last = <<>>
    BY <2>2
  <2>3. CASE \E k \in DOMAIN t.jobs : last = <<Result(t.jobs[k])>>
    <3>1. PICK k \in DOMAIN t.jobs : last = <<Result(t.jobs[k])>>
      BY <2>3
    <3> DEFINE r == Result(t.jobs[k])
    <3>2. r \in ResultRecords /\ last = <<r>>
      BY <1>2, <3>1
    <3> HIDE DEF r
    <3>3. QED
      BY <3>2
  <2>4. QED
    BY <2>1, <2>2, <2>3
<1>4. QED
  BY <1>3

(* A worker that is late changes nothing but what may be adopted.          *)
LEMMA LaterFine ==
  ASSUME NEW x, NEW p, NEW d, NEW e, GuiFine(x, p, d), e.gen = d.gen,
         d.late => e.late
  PROVE  GuiFine(x, p, e)
BY DEF GuiFine, TraceFine, Ours

LEMMA OpenFine == GuiInv /\ OpenFile => GuiInv'
<1> SUFFICES ASSUME GuiInv, OpenFile PROVE GuiInv'
  OBVIOUS
<1>1. g \in SelectionRecords /\ g.trace \in TraceRecords
      /\ posted \in Seq(ResultRecords) /\ Surroundings
  BY DEF GuiInv, GuiFine, TraceFine, SelectionRecords
<1> DEFINE gen == session.gen + 1
           h == SetDocument(SetBusGeneration(g, gen), gen)
<1>2. PICK opens \in BOOLEAN, animated \in BOOLEAN :
        /\ session' = [NoSession(gen) EXCEPT !.open = TRUE, !.opens = opens,
                                             !.animated = animated]
        /\ g' = ReplaceChunkModel(
                  [h EXCEPT !.trace = SetQueryCoordinator(
                     ReplaceDocument(g.trace, gen, opens), FALSE)], TRUE)
  BY DEF OpenFile
<1> DEFINE r == ReplaceDocument(g.trace, gen, opens)
           t == SetQueryCoordinator(r, FALSE)
<1>3. gen \in Nat
  BY <1>1 DEF Surroundings
<1>4. posted' \in Seq(ResultRecords)
  BY <1>1, LastAnswersTyped DEF OpenFile
<1>5. Surroundings'
  BY <1>1, <1>2, <1>3 DEF OpenFile, ClearInspection, Surroundings, NoSession,
                          NoTarget
<1>0. Now'.gen = gen
  BY <1>2 DEF Now, NoSession
<1>6. TraceFine(r, posted', Now')
  BY <1>0, <1>3, <1>4, DocumentFine
<1> HIDE DEF r
<1>7. TraceFine(t, posted', Now')
  BY <1>6, CoordinatorFine
<1>8. g' = ReplaceChunkModel([h EXCEPT !.trace = t], TRUE)
  BY <1>2 DEF r
<1> HIDE DEF t, gen
<1>9. GuiFine([h EXCEPT !.trace = t], posted', Now')
  BY <1>1, <1>3, <1>7, SetDocumentFine
<1> HIDE DEF h
<1>10. GuiFine(g', posted', Now')
  BY <1>8, <1>9, ChunkFine
<1>11. QED
  BY <1>5, <1>10 DEF GuiInv

LEMMA CloseFine == GuiInv /\ CloseFile => GuiInv'
<1> SUFFICES ASSUME GuiInv, CloseFile PROVE GuiInv'
  OBVIOUS
<1>1. g \in SelectionRecords /\ g.trace \in TraceRecords
      /\ posted \in Seq(ResultRecords) /\ Surroundings
  BY DEF GuiInv, GuiFine, TraceFine, SelectionRecords
<1> DEFINE gen == session.gen + 1
           h == ClearSelection(SetBusGeneration(g, gen), gen)
           t == ClearDocument(gen)
<1>2. /\ session' = NoSession(gen)
      /\ g' = ReplaceChunkModel([h EXCEPT !.trace = t], FALSE)
  BY DEF CloseFile
<1>3. gen \in Nat
  BY <1>1 DEF Surroundings
<1>4. posted' \in Seq(ResultRecords)
  BY <1>1, LastAnswersTyped DEF CloseFile
<1>5. Surroundings'
  <2>1. PICK running \in SUBSET inspection.opening :
          inspection' = [target |-> None, opening |-> running, late |-> FALSE]
    BY DEF CloseFile, ClearInspection, NoTarget
  <2>2. mail' = mail
    BY DEF CloseFile
  <2>3. session' \in [gen : Nat, open : BOOLEAN, opens : BOOLEAN,
                      animated : BOOLEAN, decoded : BOOLEAN,
                      staged : BOOLEAN, mounted : BOOLEAN, frames : Nat]
    BY <1>2, <1>3 DEF NoSession
  <2>4. QED
    BY <1>1, <2>1, <2>2, <2>3 DEF Surroundings
<1>0. Now'.gen = gen
  BY <1>2 DEF Now, NoSession
<1>6. TraceFine(t, posted', Now')
  BY <1>0, <1>3, <1>4, DocumentFine
<1> HIDE DEF t, gen
<1>7. GuiFine([h EXCEPT !.trace = t], posted', Now')
  BY <1>1, <1>3, <1>6, SetDocumentFine
<1> HIDE DEF h
<1>8. GuiFine(g', posted', Now')
  BY <1>2, <1>7, ChunkFine
<1>9. QED
  BY <1>5, <1>8 DEF GuiInv

-----------------------------------------------------------------------------
(* What is published for the document.                                     *)
LEMMA PublishedFine ==
  ASSUME GuiInv, OnStageDone \/ OnDecodeDone \/ OnAnimationPublished
  PROVE  GuiInv'
<1>1. Surroundings /\ GuiFine(g, posted, Now)
  BY DEF GuiInv
<1>2. CASE OnStageDone
  <2> DEFINE h == OnStageSetPublished(g, session.opens)
             t == SetQueryCoordinator(h.trace, session.opens)
  <2>1. Surroundings' /\ posted' = posted /\ Now' = Now
    BY <1>1, <1>2 DEF OnStageDone, GuiOnly, Surroundings, Now
  <2>2. session.opens \in BOOLEAN
    BY <1>1 DEF Surroundings
  <2>3. g' = [h EXCEPT !.trace = t]
    BY <1>2 DEF OnStageDone
  <2>4. GuiFine(h, posted, Now)
    BY <1>1, <2>2, FrameFine
  <2> HIDE DEF h
  <2>5. TraceFine(t, posted, Now)
    BY <2>2, <2>4, CoordinatorFine DEF GuiFine
  <2> HIDE DEF t
  <2>6. QED
    BY <2>1, <2>3, <2>4, <2>5, TraceChanges DEF GuiInv
<1>3. CASE OnDecodeDone
  <2>1. Surroundings' /\ posted' = posted /\ Now' = Now
    BY <1>1, <1>3 DEF OnDecodeDone, GuiOnly, Surroundings, Now
  <2>2. g' \in {g, OnPixelSelected(g, FirstPixel)}
    BY <1>3 DEF OnDecodeDone
  <2>3. QED
    BY <1>1, <2>1, <2>2, PixelFine, FirstPixelIs DEF GuiInv
<1>4. CASE OnAnimationPublished
  <2>1. Surroundings' /\ posted' = posted /\ Now' = Now
    BY <1>1, <1>4 DEF OnAnimationPublished, GuiOnly, Surroundings, Now
  <2>2. PICK f \in Frames :
          g' = SetAnimationFrameStream(SetImageIdentity(g, f), f)
    BY <1>4 DEF OnAnimationPublished
  <2>3. f \in Identities
    BY DEF Identities
  <2>4. GuiFine(SetImageIdentity(g, f), posted, Now)
    BY <1>1, <2>3, IdentityFine
  <2>5. QED
    BY <2>1, <2>2, <2>4, FrameFine DEF GuiInv
<1>5. QED
  BY <1>2, <1>3, <1>4

LEMMA FramePublishedFine == GuiInv /\ OnFramePublished => GuiInv'
<1> SUFFICES ASSUME GuiInv, OnFramePublished PROVE GuiInv'
  OBVIOUS
<1>1. Surroundings /\ GuiFine(g, posted, Now)
  BY DEF GuiInv
<1> DEFINE target(f) ==
             [frame |-> f, gen |-> session.gen, serial |-> session.frames]
           h(f) == SetAnimationView(SetImageIdentity(g, f))
<1>2. PICK f \in Frames :
        /\ g' = SetAnimationFrameStream(h(f), f)
        /\ inspection' = [inspection EXCEPT
             !.opening = inspection.opening \union {target(f)}]
  BY DEF OnFramePublished
<1>3. /\ session' = [session EXCEPT !.frames = @ + 1]
      /\ posted' = posted /\ mail' = mail
  BY DEF OnFramePublished
<1>4. target(f) \in Targets
  BY <1>1 DEF Surroundings, Targets
<1> HIDE DEF target
<1>5. Surroundings' /\ Now' = Now
  BY <1>1, <1>2, <1>3, <1>4 DEF Surroundings, Now
<1>6. GuiFine(SetImageIdentity(g, f), posted, Now)
  BY <1>1, IdentityFine DEF Identities
<1>7. GuiFine(h(f), posted, Now)
  BY <1>6, FrameFine
<1> HIDE DEF h
<1>8. QED
  BY <1>2, <1>3, <1>5, <1>7, FrameFine DEF GuiInv

(* A worker of the frame session: what it adopts is of the document on     *)
(* show, or it is late.                                                    *)
LEMMA AnalyseFine ==
  ASSUME GuiInv, NEW target \in inspection.opening, Analyse(target)
  PROVE  GuiInv'
<1> DEFINE adopts == Adopts(target)
           chosen == IF adopts THEN target ELSE inspection.target
           tardy == inspection.late \/ (adopts /\ target.gen # session.gen)
<1>1. Surroundings /\ GuiFine(g, posted, Now) /\ target \in Targets
  BY DEF GuiInv, Surroundings
<1>2. /\ inspection' = [target |-> chosen,
                        opening |-> inspection.opening \ {target},
                        late |-> tardy]
      /\ mail' = mail \/ mail' = Append(mail, target)
      /\ UNCHANGED <<g, session, posted>>
  BY DEF Analyse
<1>3. adopts \in BOOLEAN /\ tardy \in BOOLEAN
  BY <1>1 DEF Adopts, Surroundings, Targets
<1>4. mail' \in Seq(Targets)
  BY <1>1, <1>2, AppendProperties DEF Surroundings
<1>5. /\ chosen \in Targets \union {None}
      /\ chosen # None => chosen.gen = session.gen \/ tardy
  BY <1>1, <1>3 DEF Surroundings
<1> HIDE DEF adopts, chosen, tardy
<1>6. Surroundings'
  BY <1>1, <1>2, <1>3, <1>4, <1>5 DEF Surroundings
<1>7. Now'.gen = Now.gen /\ (Now.late => Now'.late)
  BY <1>2 DEF Now, tardy
<1>8. GuiFine(g, posted, Now')
  BY <1>1, <1>7, LaterFine
<1>9. QED
  BY <1>2, <1>6, <1>8 DEF GuiInv

LEMMA GiveUpFine ==
  ASSUME GuiInv, NEW target \in inspection.opening, GiveUp(target)
  PROVE  GuiInv'
<1>1. Surroundings' /\ Now' = Now
  BY DEF GuiInv, Surroundings, GiveUp, Now
<1>2. QED
  BY <1>1 DEF GuiInv, GiveUp

(* The pages get the target the session has by then, which may be another. *)
LEMMA MailFine == GuiInv /\ OnMail => GuiInv'
<1> SUFFICES ASSUME GuiInv, OnMail PROVE GuiInv'
  OBVIOUS
<1>1. Surroundings /\ GuiFine(g, posted, Now) /\ mail # <<>>
  BY DEF GuiInv, OnMail
<1>2. mail[1] \in Targets /\ Tail(mail) \in Seq(Targets)
  BY <1>1 DEF Surroundings
<1> DEFINE target == mail[1]
           h == SetImageIdentity(g, target.frame)
           t == SetFrameContext(g.trace, inspection.target, target.frame)
           x == [h EXCEPT !.trace = t]
<1>3. /\ g' = SetFrameStageContext(x, <<target.gen, target.frame>>)
      /\ posted' = posted
  BY DEF OnMail
<1>4. Surroundings' /\ Now' = Now
  BY <1>1, <1>2 DEF OnMail, Surroundings, Now
<1>5. target \in Targets
  BY <1>2
<1> HIDE DEF target
<1>6. /\ target.frame \in Frames /\ target.frame \in Identities
      /\ <<target.gen, target.frame>> \in Stages
  BY <1>5 DEF Targets, Identities, Stages
<1>7. TraceFine(t, posted, Now)
  <2>1. inspection.target \in Targets \union {None}
        /\ (inspection.target # None =>
              inspection.target.gen = Now.gen \/ Now.late)
    BY <1>1 DEF Surroundings, Now
  <2>2. TraceFine(g.trace, posted, Now)
    BY <1>1 DEF GuiFine
  <2>3. QED
    BY <1>6, <2>1, <2>2, FrameContextFine
<1>8. GuiFine(h, posted, Now)
  BY <1>1, <1>6, IdentityFine
<1> HIDE DEF t, h
<1>9. GuiFine(x, posted, Now)
  BY <1>7, <1>8, TraceChanges
<1> HIDE DEF x
<1>10. GuiFine(SetFrameStageContext(x, <<target.gen, target.frame>>), posted,
               Now)
  BY <1>6, <1>9, FrameFine
<1>11. QED
  BY <1>3, <1>4, <1>10 DEF GuiInv

(* The static image comes back with its selection.                         *)
LEMMA FallbackFine == GuiInv /\ OnStaticFallback => GuiInv'
<1> SUFFICES ASSUME GuiInv, OnStaticFallback PROVE GuiInv'
  OBVIOUS
<1>1. Surroundings /\ GuiFine(g, posted, Now)
  BY DEF GuiInv
<1> DEFINE a == SetFrameStageContext(g, None)
           i == SetImageIdentity(a, Static)
           b == SetAnimationFrameStream(i, None)
           image == At(Static, IF b.bus.image = None THEN FirstPixel
                               ELSE b.bus.image.pixel)
           c == BusMerge(b, image, "image")
           t == SetFrameContext(c.trace, None, None)
<1>2. g' = [c EXCEPT !.trace = t] /\ posted' = posted
  BY DEF OnStaticFallback
<1>3. Surroundings' /\ Now' = Now
  BY <1>1 DEF OnStaticFallback, Surroundings, Now
<1>4. GuiFine(a, posted, Now)
  BY <1>1, FrameFine DEF Stages
<1> HIDE DEF a
<1>5. GuiFine(i, posted, Now) /\ i.identity = Static
  BY <1>4, IdentityFine DEF Identities
<1> HIDE DEF i
<1>6. GuiFine(b, posted, Now) /\ b.identity = Static
  BY <1>5, FrameFine, FrameStreamIdentity DEF GuiFine
<1> HIDE DEF b
<1>7. image \in ImageRecords /\ image.identity = Static
  <2>1. b.bus.image \in Images
    BY <1>6 DEF GuiFine, SelectionRecords
  <2>2. b.bus.image # None => b.bus.image.pixel \in Pixels
    BY <2>1 DEF Images, ImageRecords
  <2>3. QED
    BY <2>2, FirstPixelIs DEF At, ImageRecords, Identities
<1> HIDE DEF image
<1>8. GuiFine(c, posted, Now)
  BY <1>6, <1>7, BusFine DEF Images, Scoped
<1> HIDE DEF c
<1>9. TraceFine(t, posted, Now)
  BY <1>8, FrameContextFine DEF GuiFine
<1> HIDE DEF t
<1>10. QED
  BY <1>2, <1>3, <1>8, <1>9, TraceChanges DEF GuiInv

-----------------------------------------------------------------------------
(* The user.                                                               *)
LEMMA UserFine ==
  ASSUME GuiInv, Click \/ Views \/ DrillDown
  PROVE  GuiInv'
<1>1. Surroundings /\ GuiFine(g, posted, Now)
  BY DEF GuiInv
<1>2. Surroundings' /\ posted' = posted /\ Now' = Now
  BY <1>1 DEF Click, Views, Hover, Unlock, ChooseTab, ChooseChunk, Navigate,
              DrillDown, GuiOnly, Surroundings, Now
<1>3. SUFFICES GuiFine(g', posted, Now)
  BY <1>2 DEF GuiInv
<1>4. CASE Click
  BY <1>1, <1>4, PixelFine DEF Click
<1>5. CASE Hover
  BY <1>1, <1>5, PixelFine, FrameFine DEF Hover
<1>6. CASE Unlock
  BY <1>1, <1>6, UnlockFine DEF Unlock
<1>7. CASE ChooseTab
  BY <1>1, <1>7, HexSourceFine DEF ChooseTab, OnHexSourceTabChanged
<1>8. CASE ChooseChunk
  BY <1>1, <1>8, ChunkFine, StatisticsRowFine DEF ChooseChunk
<1>9. CASE Navigate
  <2>1. PICK output \in BOOLEAN :
          g' = SetHexSource(g, IF output THEN "inflated" ELSE "file")
    BY <1>9 DEF Navigate, ApplyCompressionNavigation
  <2>2. (IF output THEN "inflated" ELSE "file") \in Sources
    BY DEF Sources
  <2>3. QED
    BY <1>1, <2>1, <2>2, HexSourceFine
<1>10. CASE DrillDown
  <2>1. PICK row \in 1..Extent[g.trace.blocks] :
          g' = [g EXCEPT !.trace = OpenDecodeTrace(g.trace, row)]
    BY <1>10 DEF DrillDown
  <2>2. row \in Nat \ {0}
    <3>1. g.trace.blocks \in Identities
      BY <1>1, <1>10
      DEF GuiFine, TraceFine, TraceRecords, Streams, DrillDown
    <3>2. Extent[g.trace.blocks] \in Nat
      BY <3>1, TraceAssumption
    <3>3. QED
      BY <3>2
  <2>3. TraceFine(OpenDecodeTrace(g.trace, row), posted, Now)
    BY <1>1, <2>2, OpenTraceFine DEF GuiFine
  <2>4. QED
    BY <1>1, <2>1, <2>3, TraceChanges
<1>11. QED
  BY <1>4, <1>5, <1>6, <1>7, <1>8, <1>9, <1>10 DEF Views

(* The worker of the orchestrator and its results.                         *)
LEMMA WorkerFine ==
  ASSUME GuiInv, JobReplays \/ JobThrows \/ JobPosts \/ HandleResult
  PROVE  GuiInv'
<1>1. /\ Surroundings /\ GuiFine(g, posted, Now)
      /\ TraceFine(g.trace, posted, Now)
  BY DEF GuiInv, GuiFine
<1>2. CASE JobReplays
  <2>1. g.trace.jobs # <<>>
    BY <1>2 DEF JobReplays, CanStep
  <2>2. TraceFine(ReplayJob(g.trace), posted, Now)
    BY <1>1, <2>1, ReplayFine
  <2>3. g' = [g EXCEPT !.trace = ReplayJob(g.trace)] /\ posted' = posted
    BY <1>2 DEF JobReplays, GuiOnly
  <2>4. Surroundings' /\ Now' = Now
    BY <1>1, <1>2 DEF JobReplays, GuiOnly, Surroundings, Now
  <2>5. QED
    BY <1>1, <2>2, <2>3, <2>4, TraceChanges DEF GuiInv
<1>3. CASE JobPosts
  <2>1. g.trace.jobs # <<>>
    BY <1>3 DEF JobPosts, CanStep
  <2>2. TraceFine(SinkJob(g.trace), posted', Now)
    BY <1>1, <1>3, <2>1, SinkFine DEF JobPosts
  <2>3. g' = [g EXCEPT !.trace = SinkJob(g.trace)]
    BY <1>3 DEF JobPosts
  <2>4. Surroundings' /\ Now' = Now
    BY <1>1, <1>3 DEF JobPosts, Surroundings, Now
  <2>5. GuiFine(g', posted', Now)
    BY <1>1, <2>2, <2>3, TraceChanges
  <2>6. QED
    BY <2>4, <2>5 DEF GuiInv
<1>4. CASE HandleResult
  <2>1. /\ g' = [g EXCEPT !.trace = OnTraceResult(g.trace, posted[1])]
        /\ posted' = Tail(posted) /\ posted # <<>>
    BY <1>4 DEF HandleResult
  <2>2. TraceFine(OnTraceResult(g.trace, posted[1]), Tail(posted), Now)
    BY <1>1, <2>1, ResultFine
  <2>3. Surroundings' /\ Now' = Now
    BY <1>1, <1>4 DEF HandleResult, Surroundings, Now
  <2>4. GuiFine(g', Tail(posted), Now)
    BY <1>1, <2>1, <2>2, TraceChanges
  <2>5. QED
    BY <2>1, <2>3, <2>4 DEF GuiInv
<1>5. CASE JobThrows
  <2>1. g.trace.jobs # <<>>
    BY <1>5 DEF JobThrows, CanStep
  <2>2. TraceFine(ThrowJob(g.trace), posted, Now)
    BY <1>1, <2>1, ThrowFine
  <2>3. g' = [g EXCEPT !.trace = ThrowJob(g.trace)] /\ posted' = posted
    BY <1>5 DEF JobThrows, GuiOnly
  <2>4. Surroundings' /\ Now' = Now
    BY <1>1, <1>5 DEF JobThrows, GuiOnly, Surroundings, Now
  <2>5. QED
    BY <1>1, <2>2, <2>3, <2>4, TraceChanges DEF GuiInv
<1>6. QED
  BY <1>2, <1>3, <1>4, <1>5

LEMMA NextFine == GuiInv /\ [Next]_vars => GuiInv'
<1> SUFFICES ASSUME GuiInv, [Next]_vars PROVE GuiInv'
  OBVIOUS
<1>1. CASE Documents
  BY <1>1, OpenFine, CloseFine, PublishedFine, FramePublishedFine,
     AnalyseFine, GiveUpFine, MailFine, FallbackFine, UserFine DEF Documents
<1>2. CASE Views
  BY <1>2, UserFine
<1>3. CASE Traces
  BY <1>3, UserFine, WorkerFine DEF Traces
<1>4. CASE UNCHANGED vars
  BY <1>4 DEF vars, GuiInv, Surroundings, Now
<1>5. QED
  BY <1>1, <1>2, <1>3, <1>4 DEF Next

-----------------------------------------------------------------------------
(* The lock, the hover and the selection on the bus are of the image that  *)
(* is shown (setImageIdentity, requestLockedTrace, setDocument), whatever  *)
(* frames are published, results posted and documents opened in between.   *)
THEOREM LockTheorem == Spec => []LockOfIdentity
<1>1. GuiInv => LockOfIdentity
  BY DEF GuiInv, GuiFine, Scoped, LockOfIdentity
<1>2. QED
  BY InitFine, NextFine, <1>1, PTL DEF Spec

(* When no job is left and every result is handled, the pages show the     *)
(* answer of the last request: of its row, of the image and the stream     *)
(* that are open, of the document on show (requestFor, onTraceResult, and  *)
(* the cancellation of the job before).  The stream is the image's unless  *)
(* open() was refused, the image is of the document unless a worker of the *)
(* frame session adopted it late, and a frame's request is turned down for *)
(* its stream only after a refusal: for any number of frames, documents,   *)
(* requests and replays that throw.                                        *)
THEOREM SettlesTheorem == Spec => []SettlesOnRequest
<1>1. GuiInv => SettlesOnRequest
  <2> SUFFICES ASSUME GuiInv PROVE SettlesOnRequest
    OBVIOUS
  <2> DEFINE t == g.trace
  <2>1. TraceFine(t, posted, Now)
    BY DEF GuiInv, GuiFine
  <2>2. /\ t.trace => t.stream = ImageOf(t) \/ t.refused
        /\ t.unanswered = "stream" => t.refused
        /\ t.gen = session.gen
        /\ t.target # None => t.target.gen = session.gen \/ inspection.late
    BY <2>1 DEF TraceFine, StreamFine, Ours, Now
  <2>3. SettlesOnRequest <=>
          /\ t.trace => t.stream = ImageOf(t) \/ t.refused
          /\ t.unanswered = "stream" => t.refused
          /\ t.target # None => t.target.gen = session.gen \/ inspection.late
          /\ (t.wanted # 0 /\ t.unanswered = "no"
                /\ t.jobs = <<>> /\ posted = <<>> =>
              /\ t.rows # None /\ t.rows.gen = session.gen
              /\ t.shown = "answered"
              /\ OfTarget(t, t.rows) /\ t.rows.row = t.wanted
              /\ t.rows.stream = t.stream)
    BY DEF SettlesOnRequest
  <2> HIDE DEF t
  <2>4. ASSUME t.wanted # 0, t.unanswered = "no", t.jobs = <<>>,
               posted = <<>>
        PROVE  /\ t.rows # None /\ t.rows.gen = t.gen
               /\ t.shown = "answered"
               /\ OfTarget(t, t.rows) /\ t.rows.row = t.wanted
               /\ t.rows.stream = t.stream
    <3>1. AnswerComes(t, posted) /\ t.interval = t.wanted
      BY <2>1, <2>4 DEF TraceFine, Asked
    <3>2. ~JobComes(t) /\ ~ResultComes(t, posted)
      BY <2>4 DEF JobComes, ResultComes
    <3>3. Answered(t)
      BY <3>1, <3>2 DEF AnswerComes, ResultShown
    <3>4. QED
      BY <3>1, <3>3 DEF Answered, Counts, OfDocument
  <2>5. QED
    BY <2>2, <2>3, <2>4
<1>2. QED
  BY InitFine, NextFine, <1>1, PTL DEF Spec
=============================================================================
