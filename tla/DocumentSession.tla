--------------------------- MODULE DocumentSession --------------------------
(***************************************************************************)
(* The owner of the current document: document_session.h and .cpp, with    *)
(* the parts of MainWindow, SelectionNavigationController and              *)
(* StatisticsController that call it in the same event of the GUI thread.  *)
(*                                                                         *)
(* Every task of a document runs on a QThread of its own.  The thread      *)
(* posts its result signal and then its finished signal to the GUI thread, *)
(* which handles the signals of one thread in order, between user actions. *)
(* A handler reads the worker the session points to, not the sender.       *)
(* Nothing reads a worker between its two posts, which are one action; the *)
(* wait for the animation worker blocks the GUI thread until both are      *)
(* posted, and is part of the action that waits.  Progress signals and the *)
(* query coordinator are left out.                                         *)
(***************************************************************************)
EXTENDS Naturals, FiniteSets

CONSTANTS
  PlainKinds,  (* tasks that are only stored: "decode", "validation"       *)
  MaxGen,      (* bound on generation_                                     *)
  MaxSerial,   (* bound on chunk_selection_serial_                         *)
  MaxStats,    (* bound on statistics workers                              *)
  Loading,     (* the pane waits for a detail                              *)
  None         (* a null pointer, an absent result                         *)

Kinds == PlainKinds \union {"stage", "animation", "detail", "statistics"}

ASSUME SessionAssumption ==
  /\ PlainKinds \subseteq {"decode", "validation"}
  /\ {MaxGen, MaxSerial} \subseteq Nat /\ MaxStats \in Nat \ {0}
  /\ None \notin [kind : Kinds, generation : Nat, number : Nat]
  /\ Loading \notin Nat

VARIABLES
  generation,  (* generation_                                              *)
  source,      (* source_ is not null                                      *)
  slot,        (* decode_worker_, stage_worker_, ...: by kind              *)
  result,      (* decode_result_, stage_set_, ...: the worker read, by kind*)
  workers,     (* the QThreads: "running"; "posted" both signals;          *)
               (* "reported" when the result signal has been handled       *)
  cancelled,   (* running workers told to stop                             *)
  requested,   (* statistics_requested_                                    *)
  collections, (* number of statistics workers of this document            *)
  published,   (* animationPublished signals of this document              *)
  serial,      (* chunk_selection_serial_                                  *)
  asked,       (* requested_detail_serial_                                 *)
  pane         (* the chunk detail pane: the serial shown, 0 when empty,   *)
               (* Loading while it waits                                   *)

document == <<generation, source>>
tasks == <<slot, result, workers, cancelled, requested, collections, published>>
selection == <<serial, asked, pane>>
vars == <<document, tasks, selection>>

Worker(k, g, n) == [kind |-> k, generation |-> g, number |-> n]

(* Workers whose finished signal the session handles itself.               *)
Watched == {"animation", "detail", "statistics"}

Idle == [k \in Kinds |-> None]

Init ==
  /\ generation = 0
  /\ source = FALSE
  /\ slot = Idle
  /\ result = Idle
  /\ workers = [w \in {} |-> "running"]
  /\ cancelled = {}
  /\ requested = FALSE
  /\ collections = 0
  /\ published = 0
  /\ serial = 0
  /\ asked = 0
  /\ pane = 0

Threads == DOMAIN workers

Add(new, old) ==
  [w \in new \union DOMAIN old |-> IF w \in new THEN "running" ELSE old[w]]

Drop(w) == [v \in Threads \ {w} |-> workers[v]]

-----------------------------------------------------------------------------
(* replace() and close(): a new generation; results and workers forgotten, *)
(* the animation worker joined, the statistics worker cancelled.           *)
Joined ==
  [w \in Threads |->
     IF w = slot["animation"] /\ workers[w] = "running" THEN "posted"
     ELSE workers[w]]

Reset(new) ==
  /\ generation < MaxGen
  /\ generation' = generation + 1
  /\ result' = Idle
  /\ slot' = [k \in Kinds |->
                IF \E w \in new : w.kind = k
                THEN CHOOSE w \in new : w.kind = k ELSE None]
  /\ workers' = Add(new, Joined)
  /\ cancelled' = cancelled \union
       {w \in Threads : w = slot["statistics"] /\ workers[w] = "running"}
  /\ requested' = FALSE
  /\ published' = 0
  /\ collections' = 0

(* openFile(): replace(), the chunk model, which selects the first chunk   *)
(* and so asks for its detail, and the primary workers.  Files have chunks.*)
Primary == PlainKinds \union {"stage", "animation"}

OpenFile ==
  /\ source' = TRUE
  /\ serial + 2 <= MaxSerial
  /\ serial' = serial + 2
  /\ asked' = serial + 2
  /\ pane' = Loading
  /\ Reset({Worker(k, generation + 1, 0) : k \in Primary} \union
           {Worker("detail", generation + 1, serial + 2)})

(* onCloseTriggered().                                                     *)
Close ==
  /\ source
  /\ source' = FALSE
  /\ serial < MaxSerial
  /\ serial' = serial + 1
  /\ pane' = 0
  /\ Reset({})
  /\ UNCHANGED asked

-----------------------------------------------------------------------------
(* onChunkSelectionChanged() and requestChunkDetail().                     *)
SelectChunk ==
  /\ source
  /\ serial < MaxSerial
  /\ serial' = serial + 1
  /\ asked' = serial + 1
  /\ pane' = Loading
  /\ LET w == Worker("detail", generation, serial + 1) IN
     /\ slot' = [slot EXCEPT !["detail"] = w]
     /\ workers' = Add({w}, workers)
  /\ UNCHANGED <<document, result, cancelled, requested, collections,
                 published>>

DeselectChunk ==
  /\ source
  /\ serial < MaxSerial
  /\ serial' = serial + 1
  /\ pane' = 0
  /\ UNCHANGED <<document, tasks, asked>>

(* startStatistics() by a caller that has left the pointers and threads as *)
(* given.                                                                  *)
StartStatistics(slots, threads) ==
  LET w == Worker("statistics", generation, collections + 1) IN
  /\ collections' = collections + 1
  /\ slot' = [slots EXCEPT !["statistics"] = w]
  /\ workers' = Add({w}, threads)

(* requestStatistics(), from the Refresh action or, unless this document   *)
(* has a result, from the activation of the tab.                           *)
MayStart == result["stage"] # None /\ slot["statistics"] = None

RequestStatisticsTwice ==
  /\ source
  /\ collections < MaxStats
  /\ requested' = TRUE
  /\ IF result["stage"] # None THEN StartStatistics(slot, workers)
     ELSE UNCHANGED <<collections, slot, workers>>
  /\ UNCHANGED <<document, result, cancelled, published, selection>>

RequestStatistics ==
  /\ source
  /\ collections < MaxStats
  /\ requested' = TRUE
  /\ IF MayStart THEN StartStatistics(slot, workers)
     ELSE UNCHANGED <<collections, slot, workers>>
  /\ UNCHANGED <<document, result, cancelled, published, selection>>

CancelStatistics ==
  /\ slot["statistics"] # None
  /\ workers[slot["statistics"]] = "running"
  /\ cancelled' = cancelled \union {slot["statistics"]}
  /\ UNCHANGED <<document, slot, result, workers, requested, collections,
                 published, selection>>

-----------------------------------------------------------------------------
(* A thread ends its work and posts its signals.                           *)
Post(w) ==
  /\ workers[w] = "running"
  /\ workers' = [workers EXCEPT ![w] = "posted"]
  /\ cancelled' = cancelled \ {w}
  /\ UNCHANGED <<document, slot, result, requested, collections, published,
                 selection>>

-----------------------------------------------------------------------------
(* The GUI thread handles the next signal of a worker.                     *)
Reports(w) == workers[w] = "posted"

Reported(w) ==
  IF w.kind \in Watched THEN [workers EXCEPT ![w] = "reported"] ELSE Drop(w)

CurrentAnyGeneration(w) == slot[w.kind] # None

Current(w) == w.generation = generation /\ slot[w.kind] # None

Taken(k) == [result EXCEPT ![k] = slot[k]]

(* onDecodeDone(), onValidationDone().                                     *)
PlainDone(w) ==
  /\ w.kind \in PlainKinds
  /\ Reports(w)
  /\ workers' = Reported(w)
  /\ IF Current(w)
     THEN result' = Taken(w.kind) /\ slot' = [slot EXCEPT ![w.kind] = None]
     ELSE UNCHANGED <<result, slot>>
  /\ UNCHANGED <<document, cancelled, requested, collections, published,
                 selection>>

(* onStageDone(): stores the stages, opens a coordinator, which may fail,  *)
(* publishes the animation if it came first, and starts the collection     *)
(* that waits or that the open statistics tab asks for.                    *)
StageDoneForgetful(w) ==
  /\ w.kind = "stage"
  /\ Reports(w)
  /\ IF ~Current(w)
     THEN workers' = Reported(w)
          /\ UNCHANGED <<result, slot, requested, collections, published>>
     ELSE /\ result' = Taken("stage")
          /\ published' = IF result["animation"] # None THEN published + 1
                          ELSE published
          /\ slot' = [slot EXCEPT !["stage"] = None]
          /\ workers' = Reported(w)
          /\ UNCHANGED <<requested, collections>>
  /\ UNCHANGED <<document, cancelled, selection>>

StageDoneUnpublished(w) ==
  /\ w.kind = "stage"
  /\ Reports(w)
  /\ IF ~Current(w)
     THEN workers' = Reported(w)
          /\ UNCHANGED <<result, slot, requested, collections>>
     ELSE /\ result' = Taken("stage")
          /\ requested' \in {requested, TRUE}
          /\ LET slots == [slot EXCEPT !["stage"] = None] IN
             IF requested' /\ slot["statistics"] = None
             THEN StartStatistics(slots, Drop(w))
             ELSE /\ slot' = slots
                  /\ workers' = Reported(w)
                  /\ UNCHANGED collections
  /\ UNCHANGED <<document, published, cancelled, selection>>

StageDone(w) ==
  /\ w.kind = "stage"
  /\ Reports(w)
  /\ IF ~Current(w)
     THEN workers' = Reported(w)
          /\ UNCHANGED <<result, slot, requested, collections, published>>
     ELSE /\ result' = Taken("stage")
          /\ published' = IF result["animation"] # None THEN published + 1
                          ELSE published
          /\ requested' \in {requested, TRUE}
          /\ LET slots == [slot EXCEPT !["stage"] = None] IN
             IF requested' /\ slot["statistics"] = None
             THEN StartStatistics(slots, Drop(w))
             ELSE /\ slot' = slots
                  /\ workers' = Reported(w)
                  /\ UNCHANGED collections
  /\ UNCHANGED <<document, cancelled, selection>>

(* onAnimationDone().                                                      *)
AnimationDone(w) ==
  /\ w.kind = "animation"
  /\ Reports(w)
  /\ workers' = Reported(w)
  /\ IF Current(w)
     THEN /\ result' = Taken("animation")
          /\ slot' = [slot EXCEPT !["animation"] = None]
          /\ published' = IF result["stage"] # None THEN published + 1
                          ELSE published
     ELSE UNCHANGED <<result, slot, published>>
  /\ UNCHANGED <<document, cancelled, requested, collections, selection>>

(* onChunkDetailDone() of the session and of the main window.              *)
DetailDone(w) ==
  /\ w.kind = "detail"
  /\ Reports(w)
  /\ workers' = Reported(w)
  /\ IF Current(w) /\ slot["detail"].number = w.number /\ w.number = asked
     THEN /\ result' = Taken("detail")
          /\ pane' = IF w.number = serial THEN w.number ELSE pane
     ELSE UNCHANGED <<result, pane>>
  /\ UNCHANGED <<document, slot, cancelled, requested, collections, published,
                 serial, asked>>

(* onStatisticsFinished() of the session and of the controller: the result *)
(* travels in the signal.                                                  *)
StatisticsDone(w) ==
  /\ w.kind = "statistics"
  /\ Reports(w)
  /\ workers' = Reported(w)
  /\ result' = IF w.generation = generation
               THEN [result EXCEPT !["statistics"] = w] ELSE result
  /\ UNCHANGED <<document, slot, cancelled, requested, collections, published,
                 selection>>

(* The finished signal: the pointer is cleared if it is still to this      *)
(* worker, and the worker is deleted.                                      *)
FinishedForgotten(w) ==
  /\ workers[w] = "reported"
  /\ workers' = Drop(w)
  /\ UNCHANGED slot
  /\ UNCHANGED <<document, result, cancelled, requested, collections,
                 published, selection>>

FinishedUnchecked(w) ==
  /\ workers[w] = "reported"
  /\ workers' = Drop(w)
  /\ slot' = [slot EXCEPT ![w.kind] = None]
  /\ UNCHANGED <<document, result, cancelled, requested, collections,
                 published, selection>>

Finished(w) ==
  /\ workers[w] = "reported"
  /\ workers' = Drop(w)
  /\ slot' = [slot EXCEPT ![w.kind] = IF @ = w THEN None ELSE @]
  /\ UNCHANGED <<document, result, cancelled, requested, collections,
                 published, selection>>

-----------------------------------------------------------------------------
User ==
  \/ OpenFile \/ Close
  \/ SelectChunk \/ DeselectChunk
  \/ RequestStatistics \/ CancelStatistics

Handle(w) ==
  \/ PlainDone(w) \/ StageDone(w) \/ AnimationDone(w) \/ DetailDone(w)
  \/ StatisticsDone(w) \/ Finished(w)

Next ==
  \/ User
  \/ \E w \in Threads : Post(w) \/ Handle(w)

Spec == Init /\ [][Next]_vars

-----------------------------------------------------------------------------
Workers ==
  [kind : Kinds, generation : 1..MaxGen, number : 0..(MaxSerial + MaxStats)]

(* Types; a pointer of the session is to a worker of its kind and document *)
(* that still exists.                                                      *)
TypeOK ==
  /\ generation \in 0..MaxGen
  /\ {source, requested} \subseteq BOOLEAN
  /\ Threads \union cancelled \subseteq Workers
  /\ workers \in [Threads -> {"running", "posted", "reported"}]
  /\ result \in [Kinds -> Workers \union {None}]
  /\ \A k \in Kinds : slot[k] # None =>
       slot[k] \in Threads /\ slot[k].kind = k /\ slot[k].generation = generation
  /\ collections \in 0..MaxStats
  /\ {serial, asked} \subseteq 0..MaxSerial
  /\ pane \in 0..MaxSerial \union {Loading}

(* "a worker result whose generation differs from the current one is       *)
(* discarded before any controller or widget sees it" (document_session.h  *)
(* 5-9), and no handler reads the result of a worker that still runs.      *)
ResultsAreWhole ==
  \A k \in Kinds : result[k] # None =>
    /\ source
    /\ result[k].generation = generation
    /\ result[k] \in Threads => workers[result[k]] # "running"

(* A document's animation is published once, when the second of the stages *)
(* and the animation index arrives, in whichever order they do.            *)
AnimationPublishedOnce ==
  published =
    IF result["stage"] # None /\ result["animation"] # None THEN 1 ELSE 0

(* "exactly one low-priority worker ...; a repeated request while a worker *)
(* runs never duplicates it.  Replace and close cancel the worker"         *)
(* (document_session.h 68-72).                                             *)
OneCollection ==
  \A v, w \in Threads :
    v.kind = "statistics" /\ w.kind = "statistics"
      /\ workers[v] = "running" /\ workers[w] = "running" =>
    \/ v = w
    \/ v.generation # generation /\ v \in cancelled
    \/ w.generation # generation /\ w \in cancelled

(* The detail pane only shows the chunk that is selected, and a pane that  *)
(* is loading has a worker that will fill it; no slot names a worker that  *)
(* is gone.                                                                *)
DetailIsNewest ==
  /\ TypeOK
  /\ pane \in {0, serial, Loading}
  /\ pane = Loading =>
       \E w \in Threads : /\ w.kind = "detail"
                          /\ w.number = serial
                          /\ w.generation = generation
                          /\ workers[w] # "reported"
                          /\ slot["detail"] = w

(* When every thread is done, an open document has all its primary results *)
(* and a recorded request, whenever it was made, has its statistics.       *)
NothingForgotten ==
  source /\ Threads = {} =>
    /\ \A k \in Primary : result[k] # None
    /\ requested => result["statistics"] # None
=============================================================================
