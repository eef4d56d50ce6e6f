------------------------ MODULE StatisticsController ------------------------
(***************************************************************************)
(* The Statistics page: statistics_controller.cpp.  The document session   *)
(* collects on a worker that it never doubles, and posts its progress and  *)
(* its end; an occurrence of a row is looked for on a thread of its own,   *)
(* which posts its answer and then that it has finished.  Posted calls are *)
(* handled in order by the GUI thread, and also by the event loop of the   *)
(* dialog an export opens.                                                 *)
(***************************************************************************)
EXTENDS Naturals, Sequences, FiniteSets

CONSTANTS
  Nothing,        (* no worker, no result                                  *)
  MaxGenerations, (* bound on documents                                    *)
  MaxSerials,     (* bound on next_occurrence_serial_                      *)
  MaxCollections, (* bound on collections started                         *)
  MaxCalls        (* bound on posted calls while a collection goes on     *)

ASSUME StatisticsAssumption == Nothing \notin Nat

VARIABLES
  document,   (* generation, whether it is open and its stages are there   *)
  page,       (* whether the Statistics page is selected                   *)
  collectors, (* generations whose collection runs; replace() lets it end  *)
  collected,  (* history: the collections started                          *)
  view,       (* result_, last_progress_, result_generation_ and the rows  *)
  scans,      (* for each serial the scan, while its thread exists         *)
  current,    (* occurrence_worker_                                        *)
  active,     (* active_occurrence_serial_                                 *)
  shown,      (* the answer the bus got last                               *)
  calls,      (* posted to the GUI thread                                  *)
  dialog      (* what an export selected, while its dialog is open         *)

collection == <<collectors, collected, view>>
occurrence == <<scans, current, active, shown>>
statisticsVars == <<document, page, collection, occurrence, calls, dialog>>

NoView == [result |-> Nothing, progress |-> Nothing, of |-> 0, rows |-> Nothing]

StatisticsInit ==
  /\ document = [gen |-> 0, open |-> FALSE, staged |-> FALSE]
  /\ page \in BOOLEAN
  /\ collectors = {}
  /\ collected = 0
  /\ view = NoView
  /\ scans = <<>>
  /\ current = Nothing
  /\ active = 0
  /\ shown = Nothing
  /\ calls = <<>>
  /\ dialog = Nothing

Post(call) == calls' = Append(calls, call)

-----------------------------------------------------------------------------
(* A scan is cancelled when a newer one is asked for or the document goes. *)
CancelScan(all) ==
  IF current = Nothing THEN all ELSE [all EXCEPT ![current].cancelled = TRUE]

OnDocumentReplaced ==
  /\ dialog = Nothing
  /\ document.gen < MaxGenerations
  /\ \E open \in BOOLEAN :
       document' = [gen |-> document.gen + 1, open |-> open, staged |-> FALSE]
  /\ view' = NoView
  /\ scans' = CancelScan(scans)
  /\ current' = Nothing
  /\ UNCHANGED <<page, collectors, collected, active, shown, calls, dialog>>

(* requestStatistics() of the session: at most one worker, and none before *)
(* there are stages.                                                       *)
NoRequest == UNCHANGED <<collectors, collected>>

RequestStatistics ==
  IF document.gen \notin collectors /\ document'.staged
       /\ collected < MaxCollections
  THEN /\ collectors' = collectors \union {document.gen}
       /\ collected' = collected + 1
  ELSE NoRequest

(* One request for a document until it has a result.                       *)
OnStatisticsTabActivated ==
  IF document.open /\ view.of # document.gen THEN RequestStatistics
  ELSE NoRequest

OnStagesPublished ==
  /\ document.open /\ ~document.staged
  /\ document' = [document EXCEPT !.staged = TRUE]
  /\ IF page THEN OnStatisticsTabActivated ELSE NoRequest
  /\ UNCHANGED <<page, view, occurrence, calls, dialog>>

ChoosePage ==
  /\ dialog = Nothing
  /\ page' = ~page
  /\ UNCHANGED document
  /\ IF page' THEN OnStatisticsTabActivated ELSE NoRequest
  /\ UNCHANGED <<view, occurrence, calls, dialog>>

OnRefreshRequested ==
  /\ dialog = Nothing /\ page
  /\ UNCHANGED document
  /\ RequestStatistics
  /\ UNCHANGED <<page, view, occurrence, calls, dialog>>

(* A worker of the session; a cancelled one ends with what it has.         *)
Collect ==
  /\ Len(calls) < MaxCalls
  /\ \E gen \in collectors, kind \in {"progress", "finished"} :
       /\ Post([kind |-> kind, gen |-> gen, serial |-> 0])
       /\ collectors' = IF kind = "finished" THEN collectors \ {gen}
                        ELSE collectors
  /\ UNCHANGED <<document, page, collected, view, occurrence, dialog>>

-----------------------------------------------------------------------------
(* A newer request cancels the older scan, which ends by itself.           *)
OnOccurrenceRequested ==
  /\ dialog = Nothing
  /\ document.staged /\ page
  /\ Len(scans) < MaxSerials
  /\ LET serial == Len(scans) + 1
     IN  /\ scans' = Append(CancelScan(scans),
                            [gen |-> document.gen, state |-> "running",
                             cancelled |-> FALSE])
         /\ current' = serial
         /\ active' = serial
  /\ UNCHANGED <<document, page, collection, shown, calls, dialog>>

(* The thread: its answer is posted, then that it has finished.            *)
Scan(serial) ==
  /\ scans[serial].state = "running"
  /\ \E ready \in {~scans[serial].cancelled, FALSE} :
       Post([kind |-> IF ready THEN "ready" ELSE "partial",
             gen |-> scans[serial].gen, serial |-> serial])
  /\ scans' = [scans EXCEPT ![serial].state = "answered"]
  /\ UNCHANGED <<document, page, collection, current, active, shown, dialog>>

Finish(serial) ==
  /\ scans[serial].state = "answered"
  /\ Post([kind |-> "ended", gen |-> scans[serial].gen, serial |-> serial])
  /\ scans' = [scans EXCEPT ![serial].state = "finished"]
  /\ UNCHANGED <<document, page, collection, current, active, shown, dialog>>

(* Wrong: the end of any scan clears the pointer.                          *)
AfterEndAny(serial) == Nothing

(* "the finish of a superseded worker must not clear the pointer".         *)
AfterEnd(serial) == IF current = serial THEN Nothing ELSE current

-----------------------------------------------------------------------------
(* The handlers of posted calls.  An export owns what it selected.         *)
Current(call) == call.gen = document.gen

OnOccurrence(call) ==
  /\ CASE call.kind = "ended" ->
            current' = AfterEnd(call.serial) /\ UNCHANGED shown
       [] call.kind = "ready" /\ call.serial = active /\ Current(call) ->
            /\ shown' = [serial |-> call.serial, gen |-> call.gen]
            /\ UNCHANGED current
       [] OTHER -> UNCHANGED <<current, shown>>
  /\ UNCHANGED view

OnCollected(call) ==
  /\ view' = CASE ~Current(call) -> view
               [] Current(call) /\ call.kind = "progress" ->
                    [view EXCEPT !.progress = call.gen, !.rows = call.gen]
               [] OTHER ->
                    [view EXCEPT !.result = call.gen, !.rows = call.gen,
                                 !.of = call.gen]
  /\ UNCHANGED <<current, shown>>

HandleCall ==
  /\ calls # <<>>
  /\ IF calls[1].serial = 0 THEN OnCollected(calls[1])
     ELSE OnOccurrence(calls[1])
  /\ calls' = Tail(calls)
  /\ UNCHANGED <<document, page, collectors, collected, scans, active, dialog>>

(* exportStatistics(): the result, or else the progress, of the click.     *)
OnExportRequested ==
  /\ dialog = Nothing /\ page
  /\ LET exportable == IF view.result # Nothing THEN view.result
                       ELSE view.progress
     IN  exportable # Nothing /\ dialog' = exportable
  /\ UNCHANGED <<document, page, collection, occurrence, calls>>

DialogCloses ==
  /\ dialog # Nothing
  /\ dialog' = Nothing
  /\ UNCHANGED <<document, page, collection, occurrence, calls>>

StatisticsNext ==
  \/ OnDocumentReplaced \/ OnStagesPublished \/ ChoosePage
  \/ OnRefreshRequested \/ Collect \/ OnOccurrenceRequested
  \/ \E serial \in DOMAIN scans : Scan(serial) \/ Finish(serial)
  \/ HandleCall \/ OnExportRequested \/ DialogCloses

StatisticsSpec == StatisticsInit /\ [][StatisticsNext]_statisticsVars

-----------------------------------------------------------------------------
(* "at most one scan exists and the newest scan stays cancelable": a scan  *)
(* that runs and is not cancelled is the one the controller can cancel,    *)
(* and it is a scan of the document that is shown.                         *)
OneScan ==
  \A serial \in DOMAIN scans :
    scans[serial].state = "running" /\ ~scans[serial].cancelled =>
      current = serial /\ scans[serial].gen = document.gen
=============================================================================
