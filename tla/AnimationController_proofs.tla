---------------------- MODULE AnimationController_proofs --------------------
(***************************************************************************)
(* For every animation, cache budget and checkpoint distance: the cache,   *)
(* which has no lock, is never used by two workers; the views settle on    *)
(* the frame and stage selected last; and every image kept or shown is     *)
(* what its frame's stage shows.                                           *)
(***************************************************************************)
EXTENDS AnimationController, FiniteSetTheorems, SequenceTheorems,
        WellFoundedInduction, TLAPS

Settled ==
  \/ shown.kind = "error"
  \/ shown.kind = "static" /\ showing_static
  \/ /\ shown.kind = "frame"
     /\ shown.ordinal = selected
     /\ shown.stage = stage

(* A worker has the fields of NewWorker.                                   *)
Shaped(w) ==
  DOMAIN w = {"ordinal", "stage", "current", "mine", "cancelled", "at",
              "next", "canvas", "outcome"}

(* A current worker was started for the present selection of an animation, *)
(* is not cancelled and so never reports a cancellation.                   *)
Serving(w) ==
  /\ Animated
  /\ ~w.cancelled
  /\ w.ordinal = selected
  /\ w.stage = stage
  /\ w.at = "posted" => w.outcome \in {"ready", "error"}

WorkersFine ==
  /\ \A w \in workers : Shaped(w)
  /\ \A v, w \in workers : v = w
  /\ \A w \in workers : w.current => Serving(w)

(* A selection is shown, pending behind a worker, or being served.         *)
SelectionServed ==
  /\ frame_pending => workers # {} /\ Animated
  /\ Animated /\ ~frame_pending =>
       Settled \/ \E w \in workers : w.current /\ w.at # "reported"

(* Only an animation is played.                                            *)
PlaysAnimation == playback.state # "none" => Animated

IInv == WorkersFine /\ SelectionServed /\ PlaysAnimation

-----------------------------------------------------------------------------
LEMMA InitInv == Init => IInv
BY DEF Init, IInv, WorkersFine, SelectionServed, PlaysAnimation, Animated,
       NoPlayback

(* Without a timeline, no operation of the playback makes one.             *)
LEMMA NoPlaybackStays ==
  ASSUME NEW p, p.state = "none"
  PROVE  /\ Played(p) = p
         /\ Paused(p) = p
         /\ \A o : Sought(p, o) = p
         /\ \A e : Ticked(p, e) = p
         /\ \A o : FrameReady(p, o) = p
BY DEF Played, Paused, Sought, Ticked, FrameReady

LEMMA NewWorkerFine ==
  ASSUME NEW o, NEW s
  PROVE  LET w == NewWorker(o, s) IN
         /\ Shaped(w) /\ w.current /\ ~w.cancelled /\ w.at = "starting"
         /\ w.ordinal = o /\ w.stage = s
BY DEF NewWorker, Shaped

(* Superseding keeps the number of workers and leaves none current.        *)
LEMMA SupersededFine ==
  ASSUME WorkersFine
  PROVE  /\ \A w \in Superseded : Shaped(w) /\ ~w.current
         /\ \A v, w \in Superseded : v = w
         /\ workers # {} => Superseded # {}
<1> DEFINE F(w) == [NewWorker(0, "frameOutput") EXCEPT
                      !.current = FALSE, !.cancelled = TRUE,
                      !.at = w.at, !.mine = w.mine]
<1>1. \A w : Shaped(F(w)) /\ ~F(w).current
  BY DEF NewWorker, Shaped
<1>2. Superseded = {F(w) : w \in workers}
  BY DEF Superseded
<1>3. \A v, w \in workers : F(v) = F(w)
  BY DEF WorkersFine
<1> HIDE DEF F
<1>4. \A v \in Superseded : \E w \in workers : v = F(w)
  BY <1>2
<1>5. workers # {} => Superseded # {}
  BY <1>2
<1>6. QED
  BY <1>1, <1>3, <1>4, <1>5

LEMMA AbandonedFine ==
  ASSUME WorkersFine
  PROVE  /\ \A w \in Abandoned : Shaped(w) /\ ~w.current
         /\ \A v, w \in Abandoned : v = w
         /\ workers # {} => Abandoned # {}
<1>1. \A w \in Superseded : Shaped(w) /\ ~w.current
  BY SupersededFine
<1>2. \A v, w \in Superseded : v = w
  BY SupersededFine
<1> DEFINE F(w) == [w EXCEPT !.mine = FALSE]
<1>3. \A w \in Superseded : Shaped(F(w)) /\ ~F(w).current
  BY <1>1 DEF Shaped
<1>4. Abandoned = {F(w) : w \in Superseded}
  BY DEF Abandoned
<1>5. workers # {} => Superseded # {}
  BY SupersededFine
<1> HIDE DEF F
<1>6. \A v \in Abandoned : \E w \in Superseded : v = F(w)
  BY <1>4
<1>7. Superseded # {} => Abandoned # {}
  BY <1>4
<1>8. QED
  BY <1>2, <1>3, <1>5, <1>6, <1>7

(* startFrameWorker() makes the selection served.                          *)
LEMMA StartKeeps ==
  ASSUME WorkersFine, NEW o, NEW s, StartFrameWorker(o, s), Animated'
  PROVE  WorkersFine' /\ SelectionServed'
<1>1. CASE workers # {}
  <2>1. workers' = Superseded /\ frame_pending' = TRUE
    BY <1>1 DEF StartFrameWorker
  <2>2. QED
    BY <1>1, <2>1, SupersededFine DEF WorkersFine, SelectionServed
<1>2. CASE workers = {}
  <2>1. /\ workers' = {NewWorker(o, s)} /\ frame_pending' = FALSE
        /\ selected' = o /\ stage' = s
    BY <1>2 DEF StartFrameWorker
  <2>2. WorkersFine'
    BY <2>1, NewWorkerFine DEF WorkersFine, Serving
  <2>3. \E w \in workers' : w.current /\ w.at # "reported"
    BY <2>1, NewWorkerFine
  <2>4. QED
    BY <2>1, <2>2, <2>3 DEF SelectionServed
<1>3. QED
  BY <1>1, <1>2

-----------------------------------------------------------------------------
(* A step that changes neither the workers nor what is asked for and shown *)
(* keeps its part of the invariant, whatever becomes of the playback.      *)
LEMMA QuietKeeps ==
  ASSUME WorkersFine, SelectionServed,
         UNCHANGED <<capability, request, workers, shown>>
  PROVE  WorkersFine' /\ SelectionServed'
BY DEF WorkersFine, SelectionServed, Serving, Settled, Animated, request

LEMMA SetDocumentKeeps ==
  ASSUME IInv, NEW kind \in {"valid", "partial", "static"}, SetDocument(kind)
  PROVE  IInv'
<1>0. PlaysAnimation'
  BY DEF SetDocument, PlaysAnimation, Animated, NoPlayback, Fresh
<1>1. CASE kind = "static"
  <2>1. workers' = Abandoned /\ frame_pending' = FALSE /\ ~Animated'
    BY <1>1 DEF SetDocument, Animated
  <2>2. QED
    BY <1>0, <2>1, AbandonedFine DEF IInv, WorkersFine, SelectionServed
<1>2. CASE kind # "static" /\ workers # {}
  <2>1. workers' = Abandoned /\ frame_pending' = TRUE /\ Animated'
    BY <1>2 DEF SetDocument, Animated
  <2>2. QED
    BY <1>0, <1>2, <2>1, AbandonedFine DEF IInv, WorkersFine, SelectionServed
<1>3. CASE kind # "static" /\ workers = {}
  <2>1. /\ workers' = {NewWorker(0, "frameOutput")} /\ frame_pending' = FALSE
        /\ selected' = 0 /\ stage' = "frameOutput" /\ Animated'
    BY <1>3 DEF SetDocument, Animated
  <2>2. WorkersFine'
    BY <2>1, NewWorkerFine DEF WorkersFine, Serving
  <2>3. \E w \in workers' : w.current /\ w.at # "reported"
    BY <2>1, NewWorkerFine
  <2>4. QED
    BY <1>0, <2>1, <2>2, <2>3 DEF IInv, SelectionServed
<1>4. QED
  BY <1>1, <1>2, <1>3

LEMMA CloseKeeps == IInv /\ Close => IInv'
<1> SUFFICES ASSUME IInv, Close
             PROVE  IInv'
  OBVIOUS
<1>1. /\ workers' = Superseded /\ frame_pending' = FALSE
      /\ ~Animated' /\ playback'.state = "none"
  BY DEF Close, CancelWorker, Animated, NoPlayback
<1>2. QED
  BY <1>1, SupersededFine
     DEF IInv, WorkersFine, SelectionServed, PlaysAnimation

LEMMA SelectFrameKeeps ==
  ASSUME IInv, NEW o, SelectFrame(o)
  PROVE  IInv'
<1>1. Animated' /\ StartFrameWorker(o, stage)
  BY DEF SelectFrame, Animated
<1>2. QED
  BY <1>1, StartKeeps DEF IInv, PlaysAnimation

LEMMA SelectStageKeeps ==
  ASSUME IInv, NEW s, SelectStage(s)
  PROVE  IInv'
<1>1. playback' = Paused(playback) /\ Animated' = Animated
  BY DEF SelectStage, Pause, Animated
<1>2. PlaysAnimation'
  BY <1>1, NoPlaybackStays DEF IInv, PlaysAnimation
<1>3. CASE Animated
  <2>1. StartFrameWorker(selected, s)
    BY <1>3 DEF SelectStage
  <2>2. QED
    BY <1>1, <1>2, <1>3, <2>1, StartKeeps DEF IInv
<1>4. CASE ~Animated
  <2>1. UNCHANGED <<frame_pending, workers>>
    BY <1>4 DEF SelectStage
  <2>2. \A w \in workers : ~w.current
    BY <1>4 DEF IInv, WorkersFine, Serving
  <2>3. QED
    BY <1>1, <1>2, <1>4, <2>1, <2>2
       DEF IInv, WorkersFine, SelectionServed, Shaped
<1>5. QED
  BY <1>3, <1>4

LEMMA SelectStaticFallbackKeeps ==
  ASSUME IInv, SelectStaticFallback
  PROVE  IInv'
<1>1. playback' = Paused(playback) /\ Animated' = Animated
  BY DEF SelectStaticFallback, Pause, Animated
<1>2. PlaysAnimation'
  BY <1>1, NoPlaybackStays DEF IInv, PlaysAnimation
<1>3. /\ workers' = Superseded /\ frame_pending' = FALSE
      /\ shown'.kind = "static" /\ showing_static' = TRUE
  BY DEF SelectStaticFallback, CancelWorker
<1>4. QED
  BY <1>2, <1>3, SupersededFine
     DEF IInv, WorkersFine, SelectionServed, Settled

LEMMA PauseButtonKeeps ==
  ASSUME IInv, PauseButton
  PROVE  IInv'
<1>1. playback' = Paused(playback) /\ Animated' = Animated
  BY DEF PauseButton, Pause, Animated
<1>2. UNCHANGED <<capability, request, workers, shown>>
  BY DEF PauseButton
<1>3. QED
  BY <1>1, <1>2, NoPlaybackStays, QuietKeeps DEF IInv, PlaysAnimation

(* A tick, of the timer or of play(), of a playback that exists.           *)
LEMMA AdvanceKeeps ==
  ASSUME IInv, NEW p, NEW e, Animated, Advance(p, e),
         UNCHANGED <<capability, showing_static, shown>>
  PROVE  IInv'
<1>1. Animated' /\ PlaysAnimation'
  BY DEF Animated, PlaysAnimation
<1>2. CASE UNCHANGED <<selected, stage, frame_pending, workers>>
  BY <1>1, <1>2, QuietKeeps DEF IInv, request
<1>3. CASE \E o : StartFrameWorker(o, stage)
  BY <1>1, <1>3, StartKeeps DEF IInv
<1>4. QED
  BY <1>2, <1>3 DEF Advance

LEMMA PlayKeeps ==
  ASSUME IInv, Play
  PROVE  IInv'
BY AdvanceKeeps DEF IInv, PlaysAnimation, Play

LEMMA TickKeeps ==
  ASSUME IInv, NEW e, Tick(e)
  PROVE  IInv'
<1>1. CASE playback.state = "none"
  <2>1. /\ playback' = playback
        /\ UNCHANGED <<capability, request, workers, shown>>
    BY <1>1, NoPlaybackStays DEF Tick, Advance, request
  <2>2. QED
    BY <2>1, QuietKeeps DEF IInv, PlaysAnimation, Animated
<1>2. CASE playback.state # "none"
  BY <1>2, AdvanceKeeps DEF IInv, PlaysAnimation, Tick
<1>3. QED
  BY <1>1, <1>2

-----------------------------------------------------------------------------
(* A worker that goes on, for the same selection.                          *)
LEMMA UpdateKeeps ==
  ASSUME WorkersFine, SelectionServed, NEW w \in workers, NEW v,
         Update(w, v), Shaped(v),
         v.current = w.current, w.current => Serving(v),
         v.at # "reported",
         UNCHANGED <<capability, request, shown>>
  PROVE  WorkersFine' /\ SelectionServed'
<1>1. workers' = {v}
  BY DEF WorkersFine, Update
<1>2. WorkersFine'
  BY <1>1 DEF WorkersFine, Serving, Animated, request
<1>3. workers = {w}
  BY DEF WorkersFine
<1>4. SelectionServed'
  BY <1>1, <1>3 DEF SelectionServed, Settled, Animated, request
<1>5. QED
  BY <1>2, <1>4

(* The record of a worker that posts its result.                           *)
LEMMA PostedFine ==
  ASSUME NEW w, Shaped(w), NEW out, NEW image
  PROVE  LET v == Posted(w, out, image) IN
         /\ Shaped(v) /\ v.current = w.current /\ v.at = "posted"
         /\ v.cancelled = w.cancelled /\ v.outcome = out
         /\ v.ordinal = w.ordinal /\ v.stage = w.stage
BY DEF Posted, Shaped

LEMMA PostingKeeps ==
  ASSUME IInv, NEW w \in workers, NEW out, NEW image,
         Update(w, Posted(w, out, image)), Untouched,
         w.current => out \in {"ready", "error"}
  PROVE  IInv'
<1>1. UNCHANGED <<capability, playback, request, shown>>
  BY DEF Untouched, playing
<1>2. Shaped(w) /\ (w.current => Serving(w))
  BY DEF IInv, WorkersFine
<1> DEFINE v == Posted(w, out, image)
<1>3. /\ Shaped(v) /\ v.current = w.current /\ v.at = "posted"
      /\ v.cancelled = w.cancelled /\ v.outcome = out
      /\ v.ordinal = w.ordinal /\ v.stage = w.stage
  BY <1>2, PostedFine
<1>4. Update(w, v)
  OBVIOUS
<1> HIDE DEF v
<1>5. w.current => Serving(v)
  BY <1>2, <1>3 DEF Serving
<1>6. WorkersFine' /\ SelectionServed'
  BY <1>1, <1>3, <1>4, <1>5, UpdateKeeps DEF IInv
<1>7. PlaysAnimation'
  BY <1>1 DEF IInv, PlaysAnimation, Animated
<1>8. QED
  BY <1>6, <1>7 DEF IInv

(* A worker that composes on.                                              *)
LEMMA ComposingKeeps ==
  ASSUME IInv, NEW w \in workers, NEW n, NEW c,
         Update(w, [w EXCEPT !.at = "composing", !.next = n, !.canvas = c]),
         Untouched
  PROVE  IInv'
<1>1. UNCHANGED <<capability, playback, request, shown>>
  BY DEF Untouched, playing
<1>2. Shaped(w) /\ (w.current => Serving(w))
  BY DEF IInv, WorkersFine
<1> DEFINE v == [w EXCEPT !.at = "composing", !.next = n, !.canvas = c]
<1>3. /\ Shaped(v) /\ v.current = w.current /\ v.at = "composing"
      /\ v.cancelled = w.cancelled
      /\ v.ordinal = w.ordinal /\ v.stage = w.stage
  BY <1>2 DEF Shaped
<1>4. Update(w, v)
  OBVIOUS
<1> HIDE DEF v
<1>5. w.current => Serving(v)
  BY <1>2, <1>3 DEF Serving
<1>6. WorkersFine' /\ SelectionServed'
  BY <1>1, <1>3, <1>4, <1>5, UpdateKeeps DEF IInv
<1>7. PlaysAnimation'
  BY <1>1 DEF IInv, PlaysAnimation, Animated
<1>8. QED
  BY <1>6, <1>7 DEF IInv

LEMMA RunKeeps ==
  ASSUME IInv, NEW w \in workers, Run(w)
  PROVE  IInv'
<1>0. w.current => ~w.cancelled
  BY DEF IInv, WorkersFine, Serving
<1>1. CASE Stop(w)
  BY <1>0, <1>1, PostingKeeps DEF Stop
<1>2. CASE Fail(w)
  BY <1>2, PostingKeeps DEF Fail
<1>3. CASE Begin(w)
  <2>1. CASE \E image : Update(w, Posted(w, "ready", image))
    BY <1>3, <2>1, PostingKeeps DEF Begin
  <2>2. CASE \E n, c : Update(w, [w EXCEPT !.at = "composing", !.next = n,
                                           !.canvas = c])
    BY <1>3, <2>2, ComposingKeeps DEF Begin
  <2>3. QED
    BY <1>3, <2>1, <2>2 DEF Begin, Kept
<1>4. CASE BeforeBlend(w)
  BY <1>4, PostingKeeps DEF BeforeBlend, Kept
<1>5. CASE LastFrame(w)
  BY <1>5, PostingKeeps DEF LastFrame, Kept
<1>6. CASE EarlierFrame(w)
  <2>1. [w EXCEPT !.next = @ + 1, !.canvas =
           Disposed(Blended(w.canvas, w.next), w.canvas, w.next)]
        = [w EXCEPT !.at = "composing", !.next = w.next + 1, !.canvas =
             Disposed(Blended(w.canvas, w.next), w.canvas, w.next)]
    BY <1>6 DEF EarlierFrame, IInv, WorkersFine, Shaped
  <2>2. QED
    BY <1>6, <2>1, ComposingKeeps DEF EarlierFrame
<1>7. QED
  BY <1>1, <1>2, <1>3, <1>4, <1>5, <1>6 DEF Run

-----------------------------------------------------------------------------
(* A result that is not current changes nothing; a current one is shown or *)
(* leaves an error.                                                        *)
LEMMA WorkerResultKeeps ==
  ASSUME IInv, NEW w \in workers, WorkerResult(w)
  PROVE  IInv'
<1>1. /\ workers = {w} /\ Shaped(w) /\ (w.current => Serving(w))
  BY DEF IInv, WorkersFine
<1> DEFINE v == Reported(w)
<1>2. /\ Shaped(v) /\ v.current = w.current /\ v.at = "reported"
      /\ v.cancelled = w.cancelled
      /\ v.ordinal = w.ordinal /\ v.stage = w.stage
  BY <1>1 DEF Reported, Shaped
<1>3. workers' = {v} /\ w.at = "posted"
  BY <1>1 DEF WorkerResult, Update
<1> HIDE DEF v
<1>4. UNCHANGED <<capability, selected, stage, showing_static, frame_pending>>
  BY DEF WorkerResult, request
<1>5. WorkersFine'
  BY <1>1, <1>2, <1>3, <1>4 DEF WorkersFine, Serving, Animated
<1>6. PlaysAnimation'
  <2>1. playback.state = "none" => playback' = playback
    BY NoPlaybackStays DEF WorkerResult, Pause, playing
  <2>2. QED
    BY <1>4, <2>1 DEF IInv, PlaysAnimation, Animated
<1>7. CASE w.current
  <2>1. Settled'
    BY <1>1, <1>3, <1>4, <1>7 DEF WorkerResult, Serving, Frame, Settled
  <2>2. Animated'
    BY <1>1, <1>4, <1>7 DEF Serving, Animated
  <2>3. QED
    BY <1>3, <1>4, <1>5, <1>6, <2>1, <2>2 DEF IInv, SelectionServed
<1>8. CASE ~w.current
  <2>1. shown' = shown
    BY <1>8 DEF WorkerResult
  <2>2. SelectionServed'
    BY <1>1, <1>3, <1>4, <1>8, <2>1
       DEF IInv, SelectionServed, Settled, Animated
  <2>3. QED
    BY <1>5, <1>6, <2>2 DEF IInv
<1>9. QED
  BY <1>7, <1>8

LEMMA FinishedKeeps ==
  ASSUME IInv, NEW w \in workers, Finished(w)
  PROVE  IInv'
<1>1. workers = {w} /\ w.at = "reported"
  BY DEF IInv, WorkersFine, Finished
<1>2. UNCHANGED <<capability, playback, selected, stage, showing_static, shown>>
  BY DEF Finished, playing
<1>3. PlaysAnimation'
  BY <1>2 DEF IInv, PlaysAnimation, Animated
<1>4. CASE frame_pending /\ capability # "detecting"
  <2>1. /\ workers' = {NewWorker(selected, stage)} /\ frame_pending' = FALSE
        /\ Animated'
    BY <1>1, <1>2, <1>4 DEF Finished, IInv, SelectionServed, Animated
  <2>2. WorkersFine'
    BY <1>2, <2>1, NewWorkerFine DEF WorkersFine, Serving
  <2>3. \E v \in workers' : v.current /\ v.at # "reported"
    BY <2>1, NewWorkerFine
  <2>4. QED
    BY <1>3, <2>1, <2>2, <2>3 DEF IInv, SelectionServed
<1>5. CASE ~(frame_pending /\ capability # "detecting")
  <2>1. workers' = {} /\ frame_pending' = frame_pending
    BY <1>1, <1>5 DEF Finished
  <2>2. ~frame_pending
    BY <1>5 DEF IInv, SelectionServed, Animated
  <2>3. Animated => Settled
    BY <1>1, <2>2 DEF IInv, SelectionServed
  <2>4. SelectionServed'
    BY <1>2, <2>1, <2>2, <2>3 DEF SelectionServed, Settled, Animated
  <2>5. QED
    BY <1>3, <2>1, <2>4 DEF IInv, WorkersFine
<1>6. QED
  BY <1>4, <1>5

-----------------------------------------------------------------------------
LEMMA NextKeeps == IInv /\ [Next]_vars => IInv'
<1> SUFFICES ASSUME IInv, [Next]_vars
             PROVE  IInv'
  OBVIOUS
<1>1. CASE User
  <2>1. CASE \E kind \in {"valid", "partial", "static"} : SetDocument(kind)
    BY <2>1, SetDocumentKeeps
  <2>2. CASE Close
    BY <2>2, CloseKeeps
  <2>3. CASE \E o \in Ordinals : SelectFrame(o)
    BY <2>3, SelectFrameKeeps
  <2>4. CASE \E s \in Stages : SelectStage(s)
    BY <2>4, SelectStageKeeps
  <2>5. CASE SelectStaticFallback
    BY <2>5, SelectStaticFallbackKeeps
  <2>6. CASE Play
    BY <2>6, PlayKeeps
  <2>7. CASE PauseButton
    BY <2>7, PauseButtonKeeps
  <2>8. QED
    BY <1>1, <2>1, <2>2, <2>3, <2>4, <2>5, <2>6, <2>7 DEF User
<1>2. CASE \E elapsed \in BOOLEAN : Tick(elapsed)
  BY <1>2, TickKeeps
<1>3. CASE \E w \in workers : Run(w) \/ Signal(w)
  BY <1>3, RunKeeps, WorkerResultKeeps, FinishedKeeps DEF Signal
<1>4. CASE UNCHANGED vars
  <2>1. /\ UNCHANGED <<capability, request, workers, shown>>
        /\ playback' = playback
    BY <1>4 DEF vars, playing
  <2>2. QED
    BY <2>1, QuietKeeps DEF IInv, PlaysAnimation, Animated
<1>5. QED
  BY <1>1, <1>2, <1>3, <1>4 DEF Next

LEMMA Inductive == Spec => []IInv
BY InitInv, NextKeeps, PTL DEF Spec

(* A replay has one worker at most: a requested frame waits for the worker *)
(* before it (AnimationController::startFrameWorker, launchPendingFrame).  *)
THEOREM OneWorkerTheorem == Spec => []OneWorker
<1>1. IInv => OneWorker
  <2> SUFFICES ASSUME IInv
               PROVE  OneWorker
    OBVIOUS
  <2> DEFINE W == {w \in workers : w.mine
                                   /\ w.at \in {"starting", "composing"}}
  <2>0. \A v, w \in W : v = w
    BY DEF IInv, WorkersFine
  <2> HIDE DEF W
  <2>1. W = {} \/ \E w : W = {w}
    BY <2>0
  <2>2. Cardinality(W) \in {0, 1}
    BY <2>1, FS_EmptySet, FS_Singleton
  <2>3. QED
    BY <2>2 DEF OneWorker, W
<1>2. QED
  BY <1>1, Inductive, PTL

(* When the last worker is gone, the views show the frame and the stage    *)
(* selected last (AnimationController::onWorkerResult), or its error, or   *)
(* the static image chosen after it.                                       *)
THEOREM SettlesTheorem == Spec => []SettlesOnSelected
<1>1. IInv => SettlesOnSelected
  BY DEF IInv, SelectionServed, Settled, SettlesOnSelected
<1>2. QED
  BY <1>1, Inductive, PTL

-----------------------------------------------------------------------------
(***************************************************************************)
(* The images.  A worker that composes has the canvas before its next      *)
(* frame, and what it posts for the present request is what was asked for; *)
(* so that every image it keeps is exact, and every one resumed from was.  *)
(***************************************************************************)
WorkerRecords ==
  [ordinal : Ordinals, stage : Stages, current : BOOLEAN, mine : BOOLEAN,
   cancelled : BOOLEAN, at : {"starting", "composing", "posted", "reported"},
   next : Nat, canvas : Images,
   outcome : {"none", "ready", "error", "cancelled"}]

Exact(w) ==
  /\ w.at = "composing" /\ ~w.cancelled =>
       /\ w.stage \in CanvasStages
       /\ w.next <= w.ordinal
       /\ Shows(w.canvas, w.next, "preBlend")
  /\ w.at = "posted" /\ w.current /\ w.outcome = "ready" =>
       Shows(w.canvas, w.ordinal, w.stage)

Entries == [ordinal : Ordinals, stage : ReplayStages, image : Images]

Sound(c) ==
  /\ c \in Seq(Entries)
  /\ Len(c) <= Budget
  /\ \A k \in DOMAIN c : Shows(c[k].image, c[k].ordinal, c[k].stage)
  /\ \A j, k \in DOMAIN c : IsKey(c[j], c[k].ordinal, c[k].stage) => j = k

PlaybackStates ==
  [state : {"none", "paused", "playing", "waiting", "ended"},
   current : Ordinals, completed : 0..NumPlays, ready : BOOLEAN]

RequestTyped ==
  /\ capability \in {"detecting", "valid", "partial", "static"}
  /\ selected \in Ordinals /\ stage \in Stages
  /\ showing_static \in BOOLEAN /\ frame_pending \in BOOLEAN

PlaybackTyped == playback \in PlaybackStates /\ timer \in BOOLEAN

WorkersExact == workers \subseteq WorkerRecords /\ \A w \in workers : Exact(w)

ShownExact ==
  shown.kind = "frame" => Shows(shown.image, shown.ordinal, shown.stage)

ImageInv ==
  RequestTyped /\ PlaybackTyped /\ WorkersExact /\ Sound(cache) /\ ShownExact

-----------------------------------------------------------------------------
(* Composition of one more frame.                                          *)
LEMMA OrdinalsAre ==
  /\ Len(Frames) \in Nat \ {0}
  /\ \A o \in Ordinals : o \in Nat /\ Control(o) \in Controls
  /\ 0 \in Ordinals
<1>1. Frames \in Seq(Controls) /\ Len(Frames) \in Nat \ {0}
  BY ReplayAssumption
<1>2. QED
  BY <1>1 DEF Ordinals, Control

LEMMA BlankShows == Blank \in Images /\ Shows(Blank, 0, "preBlend")
<1>1. \A c \in Cells : Visible(c, 0) = {}
  BY DEF Visible
<1>2. Range(<<>>) = {} /\ DOMAIN <<>> = {}
  BY DEF Range
<1>3. QED
  BY <1>1, <1>2 DEF Blank, Images, Shows, Stacks, VisibleIn

LEMMA DisposedIsBefore ==
  ASSUME NEW image, NEW o, Shows(image, o, "postDispose")
  PROVE  Shows(image, o + 1, "preBlend")
BY DEF Shows, VisibleIn

LEMMA FrameShows ==
  ASSUME NEW o \in Ordinals
  PROVE  FrameImage(o) \in Images /\ Shows(FrameImage(o), o, "frameOutput")
<1>1. <<o>> \in Seq(Ordinals) /\ Range(<<o>>) = {o} /\ DOMAIN <<o>> = {1}
  BY DEF Range
<1>2. <<>> \in Seq(Ordinals) /\ Range(<<>>) = {} /\ DOMAIN <<>> = {}
  BY DEF Range
<1>3. ASSUME NEW c \in Cells
      PROVE  Stacks(FrameImage(o)[c], VisibleIn(o, "frameOutput", c))
  BY <1>1, <1>2 DEF FrameImage, VisibleIn, Stacks
<1>4. QED
  BY <1>1, <1>2, <1>3 DEF FrameImage, Images, Shows

(* A sequence that goes up, with one more on top.                          *)
LEMMA StackGrows ==
  ASSUME NEW q \in Seq(Ordinals), NEW fs, Stacks(q, fs),
         NEW o \in Ordinals, \A f \in fs : f < o
  PROVE  Append(q, o) \in Seq(Ordinals) /\ Stacks(Append(q, o), fs \union {o})
<1> DEFINE r == Append(q, o)
<1>1. /\ r \in Seq(Ordinals) /\ Len(r) = Len(q) + 1
      /\ DOMAIN r = 1..(Len(q) + 1) /\ DOMAIN q = 1..Len(q)
      /\ \A i \in 1..Len(q) : r[i] = q[i]
      /\ r[Len(q) + 1] = o /\ Len(q) \in Nat
  BY AppendProperties
<1> HIDE DEF r
<1>2. Range(r) = fs \union {o}
  <2>1. \A i \in DOMAIN r : i \in DOMAIN q \/ i = Len(q) + 1
    BY <1>1
  <2>2. Range(q) = fs
    BY DEF Stacks
  <2>3. QED
    BY <1>1, <2>1, <2>2 DEF Range
<1>3. ASSUME NEW i \in DOMAIN r, NEW j \in DOMAIN r, i < j
      PROVE  r[i] < r[j]
  <2>1. i \in DOMAIN q /\ q[i] \in fs
    BY <1>1, <1>3 DEF Stacks, Range
  <2>2. CASE j = Len(q) + 1
    BY <1>1, <2>1, <2>2
  <2>3. CASE j # Len(q) + 1
    BY <1>1, <1>3, <2>1, <2>3 DEF Stacks
  <2>4. QED
    BY <2>2, <2>3
<1>4. QED
  BY <1>1, <1>2, <1>3 DEF Stacks, r

LEMMA BlendShows ==
  ASSUME NEW o \in Ordinals, NEW canvas \in Images,
         Shows(canvas, o, "preBlend")
  PROVE  Blended(canvas, o) \in Images /\ Shows(Blended(canvas, o), o, "postBlend")
<1>1. <<o>> \in Seq(Ordinals) /\ Stacks(<<o>>, {o})
  BY DEF Range, Stacks
<1>2. ASSUME NEW c \in Cells
      PROVE  /\ Blended(canvas, o)[c] \in Seq(Ordinals)
             /\ Stacks(Blended(canvas, o)[c], VisibleIn(o, "postBlend", c))
  <2>1. canvas[c] \in Seq(Ordinals) /\ Stacks(canvas[c], Visible(c, o))
    BY DEF Shows, VisibleIn, Images
  <2>2. \A f \in Visible(c, o) : f < o
    BY OrdinalsAre DEF Visible
  <2>3. /\ Append(canvas[c], o) \in Seq(Ordinals)
        /\ Stacks(Append(canvas[c], o), Visible(c, o) \union {o})
    BY <2>1, <2>2, StackGrows
  <2>4. QED
    BY <1>1, <2>1, <2>3 DEF Blended, VisibleIn
<1>3. QED
  BY <1>2 DEF Shows, Images, Blended

(* What is visible once frame o was shown too.                             *)
LEMMA VisibleAfter ==
  ASSUME NEW o \in Ordinals, NEW c \in Cells
  PROVE  Visible(c, o + 1) =
           {f \in Visible(c, o) : ~Clears(o, c)} \union
           {f \in {o} : c \in Control(o).rect /\ Control(o).dispose = "none"}
<1>1. o \in Nat
  BY OrdinalsAre
<1>2. ASSUME NEW f \in 0..(o - 1)
      PROVE  VisibleAt(f, c, o + 1) <=> VisibleAt(f, c, o) /\ ~Clears(o, c)
  <2>1. \A g : g \in (f + 1)..((o + 1) - 1) <=> g \in (f + 1)..(o - 1) \/ g = o
    BY <1>1
  <2>2. QED
    BY <2>1 DEF VisibleAt
<1>3. VisibleAt(o, c, o + 1) <=>
        c \in Control(o).rect /\ Control(o).dispose = "none"
  BY <1>1 DEF VisibleAt
<1>4. 0..((o + 1) - 1) = 0..(o - 1) \union {o}
  BY <1>1
<1>5. QED
  BY <1>2, <1>3, <1>4 DEF Visible

LEMMA DisposeShows ==
  ASSUME NEW o \in Ordinals, NEW saved \in Images, NEW canvas \in Images,
         Shows(saved, o, "preBlend"), canvas = Blended(saved, o)
  PROVE  /\ Disposed(canvas, saved, o) \in Images
         /\ Shows(Disposed(canvas, saved, o), o, "postDispose")
<1>1. ASSUME NEW c \in Cells
      PROVE  /\ Disposed(canvas, saved, o)[c] \in Seq(Ordinals)
             /\ Stacks(Disposed(canvas, saved, o)[c], Visible(c, o + 1))
  <2>1. /\ saved[c] \in Seq(Ordinals) /\ canvas[c] \in Seq(Ordinals)
        /\ Stacks(saved[c], Visible(c, o))
    BY DEF Shows, VisibleIn, Images
  <2>2. Stacks(canvas[c], VisibleIn(o, "postBlend", c))
    BY BlendShows DEF Shows
  <2>3. /\ Control(o).blend \in {"source", "over"}
        /\ Control(o).dispose \in {"none", "background", "previous"}
    BY OrdinalsAre DEF Controls
  <2>4. CASE c \notin Control(o).rect
    <3>1. Visible(c, o + 1) = Visible(c, o)
      BY <2>4, VisibleAfter DEF Clears
    <3>2. QED
      BY <2>1, <2>2, <2>4, <3>1 DEF Disposed, VisibleIn
  <2>5. CASE c \in Control(o).rect /\ Control(o).dispose = "none"
    <3>1. Clears(o, c) <=> Control(o).blend = "source"
      BY <2>5 DEF Clears
    <3>2. Visible(c, o + 1) =
            {f \in Visible(c, o) : ~Clears(o, c)} \union {o}
      BY <2>5, VisibleAfter
    <3>3. VisibleIn(o, "postBlend", c) =
            IF Control(o).blend = "source" THEN {o}
            ELSE Visible(c, o) \union {o}
      BY <2>5 DEF VisibleIn
    <3>4. Visible(c, o + 1) = VisibleIn(o, "postBlend", c)
      BY <3>1, <3>2, <3>3
    <3>5. QED
      BY <2>1, <2>2, <2>5, <3>4 DEF Disposed
  <2>6. CASE /\ c \in Control(o).rect
             /\ \/ Control(o).dispose = "background"
                \/ Control(o).dispose = "previous" /\ o = 0
    <3>1. Visible(c, o + 1) = {}
      BY <2>6, VisibleAfter DEF Clears
    <3>2. <<>> \in Seq(Ordinals) /\ Stacks(<<>>, {})
      BY DEF Stacks, Range
    <3>3. QED
      BY <2>6, <3>1, <3>2 DEF Disposed
  <2>7. CASE /\ c \in Control(o).rect
             /\ Control(o).dispose = "previous" /\ o # 0
    <3>1. Visible(c, o + 1) = Visible(c, o)
      BY <2>7, VisibleAfter DEF Clears
    <3>2. QED
      BY <2>1, <2>7, <3>1 DEF Disposed
  <2>8. QED
    BY <2>3, <2>4, <2>5, <2>6, <2>7
<1>2. QED
  BY <1>1 DEF Shows, Images, Disposed, VisibleIn

-----------------------------------------------------------------------------
(* The cache.                                                              *)
LEMMA PlaceFound ==
  ASSUME NEW c, NEW o, NEW s, Has(c, o, s)
  PROVE  /\ Place(c, o, s) \in DOMAIN c
         /\ IsKey(c[Place(c, o, s)], o, s)
BY DEF Has, Place

(* What is left without one entry: earlier entries, in their order.        *)
LEMMA RemoveLeaves ==
  ASSUME NEW S, NEW c \in Seq(S), NEW p \in DOMAIN c
  PROVE  /\ RemoveAt(c, p) \in Seq(S)
         /\ Len(RemoveAt(c, p)) = Len(c) - 1
         /\ \A k \in DOMAIN RemoveAt(c, p) :
              RemoveAt(c, p)[k] = c[IF k < p THEN k ELSE k + 1]
<1> DEFINE low == SubSeq(c, 1, p - 1)
           high == SubSeq(c, p + 1, Len(c))
<1>1. Len(c) \in Nat /\ DOMAIN c = 1..Len(c) /\ p \in 1..Len(c)
  OBVIOUS
<1>2. /\ low \in Seq(S) /\ Len(low) = p - 1
      /\ \A k \in 1..(p - 1) : low[k] = c[k]
  <2>1. \A i \in 1..(p - 1) : c[i] \in S
    BY <1>1
  <2>2. QED
    BY <1>1, <2>1, SubSeqProperties
<1>3. /\ high \in Seq(S) /\ Len(high) = Len(c) - p
      /\ \A k \in 1..(Len(c) - p) : high[k] = c[k + p]
  <2>1. \A i \in (p + 1)..Len(c) : c[i] \in S
    BY <1>1
  <2>2. QED
    BY <1>1, <2>1, SubSeqProperties
<1>4. RemoveAt(c, p) = low \o high
  BY DEF RemoveAt
<1> HIDE DEF low, high
<1>5. /\ low \o high \in Seq(S) /\ Len(low \o high) = Len(c) - 1
      /\ \A k \in 1..(Len(c) - 1) :
           (low \o high)[k] = IF k <= p - 1 THEN low[k] ELSE high[k - (p - 1)]
  <2>1. /\ low \o high \in Seq(S)
        /\ Len(low \o high) = Len(low) + Len(high)
        /\ \A k \in 1..(Len(low) + Len(high)) :
             (low \o high)[k] =
               IF k <= Len(low) THEN low[k] ELSE high[k - Len(low)]
    BY <1>2, <1>3, ConcatProperties
  <2>2. Len(low) + Len(high) = Len(c) - 1
    BY <1>1, <1>2, <1>3
  <2>3. QED
    BY <1>2, <2>1, <2>2
<1>6. DOMAIN (low \o high) = 1..(Len(c) - 1)
  BY <1>5, LenProperties
<1>7. ASSUME NEW k \in 1..(Len(c) - 1)
      PROVE  (low \o high)[k] = c[IF k < p THEN k ELSE k + 1]
  <2>1. CASE k < p
    BY <1>1, <1>2, <1>5, <2>1
  <2>2. CASE ~(k < p)
    <3>1. k - (p - 1) \in 1..(Len(c) - p) /\ (k - (p - 1)) + p = k + 1
      BY <1>1, <2>2
    <3>2. (low \o high)[k] = high[k - (p - 1)]
      BY <1>1, <1>5, <2>2
    <3>3. high[k - (p - 1)] = c[k + 1]
      BY <1>3, <3>1
    <3>4. QED
      BY <2>2, <3>2, <3>3
  <2>3. QED
    BY <2>1, <2>2
<1>8. QED
  BY <1>4, <1>5, <1>6, <1>7

LEMMA ErasedSound ==
  ASSUME NEW c, Sound(c), NEW o, NEW s
  PROVE  /\ Sound(Erased(c, o, s))
         /\ ~Has(Erased(c, o, s), o, s)
         /\ Has(c, o, s) => Len(Erased(c, o, s)) < Len(c)
<1>1. CASE ~Has(c, o, s)
  BY <1>1 DEF Erased
<1>2. CASE Has(c, o, s)
  <2> DEFINE p == Place(c, o, s)
             r == RemoveAt(c, p)
             At(k) == IF k < p THEN k ELSE k + 1
  <2>1. p \in DOMAIN c /\ IsKey(c[p], o, s)
    BY <1>2, PlaceFound
  <2>2. /\ c \in Seq(Entries) /\ Len(c) \in Nat /\ Budget \in Nat
        /\ DOMAIN c = 1..Len(c)
    BY ReplayAssumption DEF Sound
  <2>3. /\ r \in Seq(Entries) /\ Len(r) = Len(c) - 1
        /\ \A k \in DOMAIN r : r[k] = c[At(k)]
    BY <2>1, <2>2, RemoveLeaves
  <2>4. Erased(c, o, s) = r
    BY <1>2 DEF Erased
  <2> HIDE DEF r, p
  <2>5. \A k \in DOMAIN r : At(k) \in DOMAIN c /\ At(k) # p
    BY <2>1, <2>2, <2>3
  <2>6. \A j, k \in DOMAIN r : At(j) = At(k) => j = k
    BY <2>1, <2>2, <2>3
  <2> HIDE DEF At
  <2>7. ASSUME NEW k \in DOMAIN r
        PROVE  Shows(r[k].image, r[k].ordinal, r[k].stage)
    BY <2>3, <2>5 DEF Sound
  <2>8. ASSUME NEW j \in DOMAIN r, NEW k \in DOMAIN r,
               IsKey(r[j], r[k].ordinal, r[k].stage)
        PROVE  j = k
    BY <2>3, <2>5, <2>6, <2>8 DEF Sound
  <2>9. ~Has(r, o, s)
    <3> SUFFICES ASSUME NEW k \in DOMAIN r, IsKey(r[k], o, s)
                 PROVE  FALSE
      BY DEF Has
    <3>1. IsKey(c[At(k)], c[p].ordinal, c[p].stage)
      BY <2>1, <2>3 DEF IsKey
    <3>2. QED
      BY <2>1, <2>5, <3>1 DEF Sound
  <2>10. Len(r) <= Budget /\ Len(r) < Len(c)
    BY <2>2, <2>3 DEF Sound
  <2>11. QED
    BY <2>3, <2>4, <2>7, <2>8, <2>9, <2>10 DEF Sound
<1>3. QED
  BY <1>1, <1>2

(* An exact image on top of a sound cache that has none of its key.        *)
LEMMA AppendSound ==
  ASSUME NEW c, Sound(c), Len(c) < Budget,
         NEW e \in Entries, ~Has(c, e.ordinal, e.stage),
         Shows(e.image, e.ordinal, e.stage)
  PROVE  Sound(Append(c, e))
<1> DEFINE r == Append(c, e)
<1>1. /\ c \in Seq(Entries) /\ Len(c) \in Nat /\ Budget \in Nat
      /\ DOMAIN c = 1..Len(c)
  BY ReplayAssumption DEF Sound
<1>2. /\ r \in Seq(Entries) /\ Len(r) = Len(c) + 1
      /\ DOMAIN r = 1..(Len(c) + 1)
      /\ \A k \in DOMAIN c : r[k] = c[k]
      /\ r[Len(c) + 1] = e
  BY <1>1, AppendProperties
<1> HIDE DEF r
<1>3. ASSUME NEW k \in DOMAIN r
      PROVE  \/ k \in DOMAIN c /\ r[k] = c[k]
             \/ k = Len(c) + 1 /\ r[k] = e
  <2>1. k \in DOMAIN c \/ k = Len(c) + 1
    BY <1>1, <1>2
  <2>2. QED
    BY <1>2, <2>1
<1>4. \A k \in DOMAIN r : Shows(r[k].image, r[k].ordinal, r[k].stage)
  BY <1>3 DEF Sound
<1>5. \A k \in DOMAIN c : ~IsKey(c[k], e.ordinal, e.stage)
  BY DEF Has
<1>6. \A k \in DOMAIN c : ~IsKey(e, c[k].ordinal, c[k].stage)
  BY <1>5 DEF IsKey
<1>7. \A j, k \in DOMAIN r : IsKey(r[j], r[k].ordinal, r[k].stage) => j = k
  BY <1>3, <1>5, <1>6 DEF Sound
<1>8. Len(r) <= Budget
  BY <1>1, <1>2
<1>9. QED
  BY <1>2, <1>4, <1>7, <1>8 DEF Sound, r

(* The oldest entries go.                                                  *)
LEMMA NewestSound ==
  ASSUME NEW c, Sound(c), NEW n \in 0..Len(c)
  PROVE  LET r == SubSeq(c, n + 1, Len(c)) IN
         /\ Sound(r) /\ Len(r) = Len(c) - n
         /\ \A o, s : ~Has(c, o, s) => ~Has(r, o, s)
<1> DEFINE r == SubSeq(c, n + 1, Len(c))
<1>1. /\ c \in Seq(Entries) /\ Len(c) \in Nat /\ Budget \in Nat
      /\ DOMAIN c = 1..Len(c) /\ n \in 0..Len(c)
  BY ReplayAssumption DEF Sound
<1>2. \A i \in (n + 1)..Len(c) : c[i] \in Entries
  BY <1>1
<1>3. /\ r \in Seq(Entries) /\ Len(r) = Len(c) - n
      /\ \A k \in 1..(Len(c) - n) : r[k] = c[k + n]
  <2>1. n + 1 \in Int /\ Len(c) \in Int /\ Len(c) - (n + 1) + 1 = Len(c) - n
    BY <1>1
  <2>2. /\ r \in Seq(Entries)
        /\ Len(r) = IF n + 1 <= Len(c) THEN Len(c) - (n + 1) + 1 ELSE 0
        /\ \A k \in 1..(Len(c) - (n + 1) + 1) : r[k] = c[(n + 1) + k - 1]
    BY <1>2, <2>1, SubSeqProperties
  <2> HIDE DEF r
  <2>3. Len(r) = Len(c) - n
    <3>1. CASE n + 1 <= Len(c)
      BY <2>1, <2>2, <3>1
    <3>2. CASE ~(n + 1 <= Len(c))
      <4>1. \A l \in Nat : n \in 0..l /\ ~(n + 1 <= l) => l - n = 0
        OBVIOUS
      <4>2. QED
        BY <1>1, <2>2, <3>2, <4>1
    <3>3. QED
      BY <3>1, <3>2
  <2>4. ASSUME NEW k \in 1..(Len(c) - n)
        PROVE  r[k] = c[k + n]
    <3>1. (n + 1) + k - 1 = k + n
      BY <1>1
    <3>2. r[k] = c[(n + 1) + k - 1]
      BY <2>1, <2>2
    <3>3. QED
      BY <3>1, <3>2
  <2>5. QED
    BY <2>2, <2>3, <2>4
<1> HIDE DEF r
<1>4. \A k \in DOMAIN r : k + n \in DOMAIN c /\ r[k] = c[k + n]
  BY <1>1, <1>3
<1>5. \A j, k \in DOMAIN r : j + n = k + n => j = k
  BY <1>1, <1>3
<1>6. \A k \in DOMAIN r : Shows(r[k].image, r[k].ordinal, r[k].stage)
  BY <1>4 DEF Sound
<1>7. \A j, k \in DOMAIN r : IsKey(r[j], r[k].ordinal, r[k].stage) => j = k
  BY <1>4, <1>5 DEF Sound
<1>8. Len(r) <= Budget
  BY <1>1, <1>3 DEF Sound
<1>9. \A o, s : ~Has(c, o, s) => ~Has(r, o, s)
  BY <1>4 DEF Has
<1>10. QED
  BY <1>3, <1>6, <1>7, <1>8, <1>9 DEF Sound, r

LEMMA CachedSound ==
  ASSUME NEW c, Sound(c), NEW o \in Ordinals, NEW s \in ReplayStages,
         NEW i \in Images, Shows(i, o, s)
  PROVE  Sound(Cached(c, o, s, i))
<1> DEFINE e == Erased(c, o, s)
           n == IF Len(e) < Budget THEN 0 ELSE Len(e) - Budget + 1
           r == SubSeq(e, n + 1, Len(e))
<1>1. Sound(e) /\ ~Has(e, o, s)
  BY ErasedSound
<1>2. Len(e) \in Nat /\ Len(e) <= Budget /\ Budget \in Nat \ {0}
  BY <1>1, ReplayAssumption DEF Sound
<1>3. n \in 0..Len(e) /\ Len(e) - n < Budget
  BY <1>2
<1>4. Sound(r) /\ Len(r) = Len(e) - n /\ ~Has(r, o, s)
  BY <1>1, <1>3, NewestSound
<1>5. Cached(c, o, s, i) = Append(r, Entry(o, s, i))
  BY DEF Cached
<1> HIDE DEF r, n, e
<1>6. /\ Entry(o, s, i) \in Entries /\ Entry(o, s, i).ordinal = o
      /\ Entry(o, s, i).stage = s /\ Entry(o, s, i).image = i
  BY DEF Entry, Entries
<1>7. QED
  BY <1>3, <1>4, <1>5, <1>6, AppendSound

LEMMA TouchedSound ==
  ASSUME NEW c, Sound(c), NEW o, NEW s, Has(c, o, s)
  PROVE  /\ Sound(Touched(c, o, s))
         /\ Found(c, o, s) \in Entries
         /\ Shows(Found(c, o, s).image, o, s)
<1>1. /\ Place(c, o, s) \in DOMAIN c /\ IsKey(Found(c, o, s), o, s)
  BY PlaceFound DEF Found
<1>2. /\ Found(c, o, s) \in Entries
      /\ Found(c, o, s).ordinal = o /\ Found(c, o, s).stage = s
      /\ Shows(Found(c, o, s).image, o, s)
  BY <1>1 DEF Found, Sound, IsKey
<1>3. Sound(Erased(c, o, s)) /\ ~Has(Erased(c, o, s), o, s)
  BY ErasedSound
<1>4. Len(Erased(c, o, s)) < Budget
  <2>1. Len(Erased(c, o, s)) < Len(c)
    BY ErasedSound
  <2>2. Len(c) <= Budget /\ Len(c) \in Nat /\ Len(Erased(c, o, s)) \in Nat
        /\ Budget \in Nat
    BY <1>3, ReplayAssumption DEF Sound
  <2>3. QED
    BY <2>1, <2>2
<1>5. QED
  BY <1>2, <1>3, <1>4, AppendSound DEF Touched

-----------------------------------------------------------------------------
(* A set of naturals has a least element.                                  *)
LEMMA SmallestOf ==
  ASSUME NEW T, T \subseteq Nat, T # {}
  PROVE  \E m \in T : \A n \in T : m <= n
<1> DEFINE Below == {0..n : n \in T}
<1>1. Below \subseteq FiniteSubsetsOf(Nat) /\ Below # {}
  <2>1. ASSUME NEW n \in T
        PROVE  0..n \subseteq Nat /\ IsFiniteSet(0..n)
    BY FS_Interval
  <2>2. QED
    BY <2>1 DEF FiniteSubsetsOf
<1>2. PICK B \in Below : \A C \in Below : <<C, B>> \notin StrictSubsetOrdering(Nat)
  <2> HIDE DEF Below
  <2> QED
    BY <1>1, FS_StrictSubsetOrderingWellFounded, WFMin
<1>3. PICK m \in T : B = 0..m
  OBVIOUS
<1>4. ASSUME NEW n \in T, n < m
      PROVE  FALSE
  <2>1. 0..n \in Below /\ 0..n \subseteq 0..m /\ m \notin 0..n /\ m \in 0..m
    BY <1>4
  <2>2. 0..n \subseteq Nat /\ 0..m \subseteq Nat
    OBVIOUS
  <2>3. <<0..n, 0..m>> \in StrictSubsetOrdering(Nat)
    BY <2>1, <2>2 DEF StrictSubsetOrdering
  <2>4. QED
    BY <1>2, <1>3, <2>1, <2>3
<1>5. QED
  BY <1>4

(* The loop for the latest checkpoint finds one, or starts from frame 0.   *)
LEMMA LastKeptIs ==
  ASSUME NEW c, NEW o \in Ordinals
  PROVE  LET f == LastKept(c, o) IN
         /\ f \in 0..o
         /\ f # 0 => Has(c, f - 1, "postDispose")
<1> DEFINE S == ResumeAt(c, o)
           Left == {o - f : f \in S}
<1>1. o \in Nat
  BY OrdinalsAre
<1>2. S \subseteq 0..o /\ 0 \in S
  BY <1>1 DEF ResumeAt
<1> HIDE DEF S
<1>3. Left \subseteq Nat /\ Left # {}
  BY <1>1, <1>2
<1>4. PICK m \in Left : \A n \in Left : m <= n
  <2> HIDE DEF Left
  <2> QED
    BY <1>3, SmallestOf
<1>5. PICK x \in S : m = o - x
  OBVIOUS
<1>6. ASSUME NEW y \in S
      PROVE  x >= y
  <2>1. o - x <= o - y /\ x \in 0..o /\ y \in 0..o
    BY <1>2, <1>4, <1>5
  <2>2. QED
    BY <1>1, <2>1
<1>7. Max(S) \in S
  BY <1>6 DEF Max
<1>8. LastKept(c, o) \in S
  BY <1>7 DEF LastKept, S
<1>9. QED
  BY <1>2, <1>8 DEF S, ResumeAt

LEMMA ResumedSound ==
  ASSUME NEW c, Sound(c), NEW o \in Ordinals
  PROVE  LET from == Resumed(c, o) IN
         /\ from.next \in 0..o
         /\ from.canvas \in Images
         /\ Shows(from.canvas, from.next, "preBlend")
         /\ Sound(from.cache)
<1> DEFINE f == LastKept(c, o)
<1>1. f \in 0..o /\ (f # 0 => Has(c, f - 1, "postDispose")) /\ o \in Nat
  BY LastKeptIs, OrdinalsAre
<1>2. CASE f = 0
  BY <1>1, <1>2, BlankShows DEF Resumed, FromStart
<1>3. CASE f # 0
  <2> DEFINE e == Found(c, f - 1, "postDispose")
  <2>1. /\ Sound(Touched(c, f - 1, "postDispose"))
        /\ e \in Entries /\ Shows(e.image, f - 1, "postDispose")
    BY <1>1, <1>3, TouchedSound
  <2>2. /\ Resumed(c, o).next = f
        /\ Resumed(c, o).canvas = e.image
        /\ Resumed(c, o).cache = Touched(c, f - 1, "postDispose")
    BY <1>3 DEF Resumed
  <2> HIDE DEF e, f
  <2>3. Shows(e.image, f, "preBlend")
    <3>1. (f - 1) + 1 = f
      BY <1>1
    <3>2. QED
      BY <2>1, <3>1, DisposedIsBefore
  <2>4. e.image \in Images
    BY <2>1 DEF Entries
  <2>5. QED
    BY <1>1, <2>1, <2>2, <2>3, <2>4
<1>4. QED
  BY <1>2, <1>3

-----------------------------------------------------------------------------
(* The playback keeps to the frames and the plays of the timeline.         *)
LEMMA PlaybackStays ==
  ASSUME NEW p \in PlaybackStates
  PROVE  /\ Played(p) \in PlaybackStates
         /\ Paused(p) \in PlaybackStates
         /\ \A o \in Ordinals : Sought(p, o) \in PlaybackStates
         /\ \A o : FrameReady(p, o) \in PlaybackStates
         /\ \A e : Ticked(p, e) \in PlaybackStates
<1>1. NumPlays \in Nat /\ NumFrames \in Nat /\ Ordinals = 0..(NumFrames - 1)
  BY PlaybackAssumption, ControllerAssumption DEF Ordinals
<1>2. 0 \in Ordinals /\ 0 \in 0..NumPlays
  BY <1>1, OrdinalsAre
<1>3. Played(p) \in PlaybackStates
  BY <1>2 DEF Played, Fresh, NoPlayback, PlaybackStates
<1>4. Paused(p) \in PlaybackStates
  BY DEF Paused, PlaybackStates
<1>5. \A o \in Ordinals : Sought(p, o) \in PlaybackStates
  BY DEF Sought, PlaybackStates
<1>6. \A o : FrameReady(p, o) \in PlaybackStates
  BY DEF FrameReady, PlaybackStates
<1>7. Advanced(p) \in PlaybackStates
  <2>1. p.current \in Ordinals /\ p.completed \in 0..NumPlays
    BY DEF PlaybackStates
  <2>2. p.current + 1 < NumFrames => p.current + 1 \in Ordinals
    BY <1>1, <2>1
  <2>3. p.completed + 1 < NumPlays => p.completed + 1 \in 0..NumPlays
    BY <1>1, <2>1
  <2>4. QED
    BY <1>2, <2>2, <2>3 DEF Advanced, PlaybackStates
<1>8. \A e : Ticked(p, e) \in PlaybackStates
  BY <1>7 DEF Ticked, PlaybackStates
<1>9. QED
  BY <1>3, <1>4, <1>5, <1>6, <1>8

LEMMA FreshIs ==
  NoPlayback \in PlaybackStates /\ Fresh \in PlaybackStates
<1>1. 0 \in Ordinals /\ 0 \in 0..NumPlays
  BY OrdinalsAre, PlaybackAssumption
<1>2. QED
  BY <1>1 DEF NoPlayback, Fresh, PlaybackStates

LEMMA NewWorkerExact ==
  ASSUME NEW o \in Ordinals, NEW s \in Stages
  PROVE  NewWorker(o, s) \in WorkerRecords /\ Exact(NewWorker(o, s))
BY BlankShows DEF NewWorker, WorkerRecords, Exact

(* A superseded worker has nothing left to keep or to show.                *)
LEMMA SupersededExact ==
  ASSUME WorkersExact
  PROVE  /\ Superseded \subseteq WorkerRecords
         /\ \A w \in Superseded : Exact(w) /\ w.cancelled /\ ~w.current
         /\ Abandoned \subseteq WorkerRecords
         /\ \A w \in Abandoned : Exact(w)
<1> DEFINE base == NewWorker(0, "frameOutput")
<1>1. base \in WorkerRecords
  BY NewWorkerExact, OrdinalsAre, ControllerAssumption
<1> HIDE DEF base
<1>2. ASSUME NEW w \in workers
      PROVE  LET v == [base EXCEPT !.current = FALSE, !.cancelled = TRUE,
                         !.at = w.at, !.mine = w.mine]
             IN  v \in WorkerRecords /\ v.cancelled /\ ~v.current
  BY <1>1 DEF WorkersExact, WorkerRecords
<1>3. /\ Superseded \subseteq WorkerRecords
      /\ \A w \in Superseded : w.cancelled /\ ~w.current
  BY <1>2 DEF Superseded, base
<1>4. /\ Abandoned \subseteq WorkerRecords
      /\ \A w \in Abandoned : w.cancelled /\ ~w.current
  <2>1. ASSUME NEW w \in Superseded
        PROVE  LET v == [w EXCEPT !.mine = FALSE]
               IN  v \in WorkerRecords /\ v.cancelled /\ ~v.current
    BY <1>3 DEF WorkerRecords
  <2>2. QED
    BY <2>1 DEF Abandoned
<1>5. QED
  BY <1>3, <1>4 DEF Exact

LEMMA StartExact ==
  ASSUME WorkersExact, NEW o \in Ordinals, NEW s \in Stages,
         StartFrameWorker(o, s)
  PROVE  /\ WorkersExact'
         /\ selected' \in Ordinals /\ stage' \in Stages
         /\ frame_pending' \in BOOLEAN
<1>1. /\ selected' = o /\ stage' = s
      /\ workers' \in {Superseded, {NewWorker(o, s)}}
      /\ frame_pending' \in BOOLEAN
  BY DEF StartFrameWorker
<1>2. QED
  BY <1>1, NewWorkerExact, SupersededExact DEF WorkersExact

LEMMA PauseTyped == PlaybackTyped /\ Pause => PlaybackTyped'
BY PlaybackStays DEF PlaybackTyped, Pause

LEMMA AdvanceExact ==
  ASSUME RequestTyped, WorkersExact, NEW p \in PlaybackStates, NEW e,
         Advance(p, e), UNCHANGED <<capability, showing_static>>
  PROVE  RequestTyped' /\ WorkersExact' /\ playback' \in PlaybackStates
<1>1. Ticked(p, e) \in PlaybackStates /\ playback' = Ticked(p, e)
  BY PlaybackStays DEF Advance
<1>2. CASE UNCHANGED <<selected, stage, frame_pending, workers>>
  BY <1>1, <1>2 DEF RequestTyped, WorkersExact
<1>3. CASE StartFrameWorker(Ticked(p, e).current, stage)
  <2>1. Ticked(p, e).current \in Ordinals
    BY <1>1 DEF PlaybackStates
  <2>2. QED
    BY <1>1, <1>3, <2>1, StartExact DEF RequestTyped
<1>4. QED
  BY <1>2, <1>3 DEF Advance

-----------------------------------------------------------------------------
LEMMA UserExact ==
  ASSUME ImageInv, User
  PROVE  ImageInv'
<1> USE DEF ImageInv
<1>1. ASSUME NEW kind \in {"valid", "partial", "static"}, SetDocument(kind)
      PROVE  ImageInv'
  <2>1. /\ workers' \in {Abandoned, {NewWorker(0, "frameOutput")}}
        /\ frame_pending' \in BOOLEAN
    BY <1>1 DEF SetDocument
  <2>2. 0 \in Ordinals /\ "frameOutput" \in Stages
    BY OrdinalsAre, ControllerAssumption
  <2>3. WorkersExact'
    BY <2>1, <2>2, NewWorkerExact, SupersededExact DEF WorkersExact
  <2>4. RequestTyped'
    BY <1>1, <2>1, <2>2 DEF SetDocument, RequestTyped
  <2>5. PlaybackTyped'
    BY <1>1, FreshIs DEF SetDocument, PlaybackTyped
  <2>6. Sound(<<>>)
    BY ReplayAssumption DEF Sound
  <2>7. Sound(cache)' /\ ShownExact'
    BY <1>1, <2>6 DEF SetDocument, ShownExact, Nothing
  <2>8. QED
    BY <2>3, <2>4, <2>5, <2>7
<1>2. CASE Close
  BY <1>2, SupersededExact, FreshIs
     DEF Close, CancelWorker, WorkersExact, RequestTyped, PlaybackTyped,
         ShownExact, Nothing
<1>3. ASSUME NEW o \in Ordinals, SelectFrame(o)
      PROVE  ImageInv'
  <2>1. WorkersExact' /\ RequestTyped'
    BY <1>3, StartExact DEF SelectFrame, RequestTyped
  <2>2. PlaybackTyped'
    BY <1>3, PlaybackStays DEF SelectFrame, PlaybackTyped
  <2>3. QED
    BY <1>3, <2>1, <2>2 DEF SelectFrame, ShownExact
<1>4. ASSUME NEW s \in Stages, SelectStage(s)
      PROVE  ImageInv'
  <2>1. WorkersExact' /\ RequestTyped'
    BY <1>4, StartExact DEF SelectStage, RequestTyped, WorkersExact
  <2>2. PlaybackTyped'
    BY <1>4, PauseTyped DEF SelectStage
  <2>3. QED
    BY <1>4, <2>1, <2>2 DEF SelectStage, ShownExact
<1>5. CASE SelectStaticFallback
  <2>1. PlaybackTyped'
    BY <1>5, PauseTyped DEF SelectStaticFallback
  <2>2. QED
    BY <1>5, <2>1, SupersededExact
       DEF SelectStaticFallback, CancelWorker, WorkersExact, RequestTyped,
           ShownExact
<1>6. CASE Play
  <2>1. Played(playback) \in PlaybackStates
    BY PlaybackStays DEF PlaybackTyped
  <2>2. RequestTyped' /\ WorkersExact' /\ playback' \in PlaybackStates
    BY <1>6, <2>1, AdvanceExact DEF Play
  <2>3. QED
    BY <1>6, <2>2 DEF Play, PlaybackTyped, ShownExact
<1>7. CASE PauseButton
  <2>1. PlaybackTyped'
    BY <1>7, PauseTyped DEF PauseButton
  <2>2. QED
    BY <1>7, <2>1
       DEF PauseButton, request, RequestTyped, WorkersExact, ShownExact
<1>8. QED
  BY <1>1, <1>2, <1>3, <1>4, <1>5, <1>6, <1>7 DEF User

LEMMA TickExact ==
  ASSUME ImageInv, NEW e, Tick(e)
  PROVE  ImageInv'
<1>1. RequestTyped' /\ WorkersExact' /\ playback' \in PlaybackStates
  BY AdvanceExact DEF Tick, ImageInv, PlaybackTyped
<1>2. QED
  BY <1>1 DEF Tick, ImageInv, PlaybackTyped, ShownExact

-----------------------------------------------------------------------------
(* A worker that goes on with an exact record.                             *)
LEMMA UpdateExact ==
  ASSUME ImageInv, NEW w \in workers, NEW v \in WorkerRecords, Exact(v),
         Update(w, v), Untouched, Sound(cache)'
  PROVE  ImageInv'
BY DEF ImageInv, Update, Untouched, playing, request, WorkersExact,
       RequestTyped, PlaybackTyped, ShownExact

LEMMA PostedExact ==
  ASSUME NEW w \in WorkerRecords, NEW out \in {"ready", "error", "cancelled"},
         NEW image \in Images,
         out = "ready" => Shows(image, w.ordinal, w.stage)
  PROVE  Posted(w, out, image) \in WorkerRecords /\ Exact(Posted(w, out, image))
<1> DEFINE v == Posted(w, out, image)
<1>1. /\ v \in WorkerRecords /\ v.at = "posted" /\ v.outcome = out
      /\ v.canvas = image /\ v.ordinal = w.ordinal /\ v.stage = w.stage
  BY DEF Posted, WorkerRecords
<1> HIDE DEF v
<1>2. QED
  BY <1>1 DEF Exact, v

LEMMA KeptExact ==
  ASSUME ImageInv, NEW w \in workers, NEW image \in Images,
         Shows(image, w.ordinal, w.stage), Kept(w, image), Untouched
  PROVE  ImageInv'
<1>1. w \in WorkerRecords /\ w.ordinal \in Ordinals /\ w.stage \in ReplayStages
  BY ControllerAssumption DEF ImageInv, WorkersExact, WorkerRecords
<1>2. Sound(Cached(cache, w.ordinal, w.stage, image))
  BY <1>1, CachedSound DEF ImageInv
<1>3. Sound(cache)'
  BY <1>2 DEF Kept
<1>4. QED
  BY <1>1, <1>3, PostedExact, UpdateExact DEF Kept

LEMMA ComposingExact ==
  ASSUME NEW w \in WorkerRecords, NEW n \in Nat, NEW image \in Images,
         w.stage \in CanvasStages, n <= w.ordinal,
         Shows(image, n, "preBlend")
  PROVE  LET v == [w EXCEPT !.at = "composing", !.next = n, !.canvas = image]
         IN  v \in WorkerRecords /\ Exact(v)
<1> DEFINE v == [w EXCEPT !.at = "composing", !.next = n, !.canvas = image]
<1>1. v \in WorkerRecords
  BY DEF WorkerRecords
<1>2. /\ v.at = "composing" /\ v.next = n /\ v.canvas = image
      /\ v.ordinal = w.ordinal /\ v.stage = w.stage
  BY DEF WorkerRecords
<1> HIDE DEF v
<1>3. Exact(v)
  BY <1>2 DEF Exact
<1>4. QED
  BY <1>1, <1>3 DEF v

LEMMA RunExact ==
  ASSUME ImageInv, NEW w \in workers, Run(w)
  PROVE  ImageInv'
<1>1. /\ w \in WorkerRecords /\ Exact(w) /\ Sound(cache)
      /\ w.ordinal \in Ordinals /\ w.ordinal \in Nat /\ w.stage \in Stages
      /\ w.canvas \in Images /\ w.next \in Nat
  BY OrdinalsAre DEF ImageInv, WorkersExact, WorkerRecords
<1>2. Blank \in Images
  BY BlankShows
<1>3. CASE Stop(w) \/ Fail(w)
  <2>1. PICK out \in {"error", "cancelled"} : Update(w, Posted(w, out, Blank))
    BY <1>3 DEF Stop, Fail
  <2>2. Sound(cache)' /\ Untouched
    BY <1>1, <1>3 DEF Stop, Fail
  <2>3. QED
    BY <1>1, <1>2, <2>1, <2>2, PostedExact, UpdateExact
<1>4. CASE Begin(w)
  <2>1. CASE /\ Has(cache, w.ordinal, w.stage)
             /\ Update(w, Posted(w, "ready",
                                 Found(cache, w.ordinal, w.stage).image))
             /\ cache' = Touched(cache, w.ordinal, w.stage)
    <3>1. /\ Sound(Touched(cache, w.ordinal, w.stage))
          /\ Found(cache, w.ordinal, w.stage) \in Entries
          /\ Shows(Found(cache, w.ordinal, w.stage).image, w.ordinal, w.stage)
      BY <1>1, <2>1, TouchedSound
    <3>2. Found(cache, w.ordinal, w.stage).image \in Images
      BY <3>1 DEF Entries
    <3>3. Untouched /\ Sound(cache)'
      BY <1>4, <2>1, <3>1 DEF Begin
    <3>4. QED
      BY <1>1, <2>1, <3>1, <3>2, <3>3, PostedExact, UpdateExact
  <2>2. CASE w.stage = "frameOutput" /\ Kept(w, FrameImage(w.ordinal))
    <3>1. Untouched
      BY <1>4 DEF Begin
    <3>2. /\ FrameImage(w.ordinal) \in Images
          /\ Shows(FrameImage(w.ordinal), w.ordinal, w.stage)
      BY <1>1, <2>2, FrameShows
    <3>3. QED
      BY <2>2, <3>1, <3>2, KeptExact
  <2>3. CASE LET from == Resumed(cache, w.ordinal) IN
             /\ w.stage \in CanvasStages
             /\ Update(w, [w EXCEPT !.at = "composing", !.next = from.next,
                                    !.canvas = from.canvas])
             /\ cache' = from.cache
    <3> DEFINE from == Resumed(cache, w.ordinal)
               v == [w EXCEPT !.at = "composing", !.next = from.next,
                              !.canvas = from.canvas]
    <3>1. /\ from.next \in 0..w.ordinal /\ from.canvas \in Images
          /\ Shows(from.canvas, from.next, "preBlend") /\ Sound(from.cache)
      BY <1>1, ResumedSound
    <3>2. Update(w, v) /\ Untouched /\ Sound(cache)'
      BY <1>4, <2>3, <3>1 DEF Begin
    <3> HIDE DEF from
    <3>3. from.next \in Nat /\ from.next <= w.ordinal
      BY <1>1, <3>1
    <3>4. v \in WorkerRecords /\ Exact(v)
      BY <1>1, <2>3, <3>1, <3>3, ComposingExact
    <3> HIDE DEF v
    <3>5. QED
      BY <3>2, <3>4, UpdateExact
  <2>4. QED
    BY <1>4, <2>1, <2>2, <2>3 DEF Begin
<1>5. CASE BeforeBlend(w)
  <2>1. /\ Kept(w, w.canvas) /\ Untouched
        /\ Shows(w.canvas, w.ordinal, w.stage)
    BY <1>1, <1>5 DEF BeforeBlend, Exact
  <2>2. QED
    BY <1>1, <2>1, KeptExact
<1> DEFINE blended == Blended(w.canvas, w.next)
           done == Disposed(blended, w.canvas, w.next)
<1>6. CASE LastFrame(w)
  <2>1. /\ w.next = w.ordinal /\ w.stage \in {"postBlend", "postDispose"}
        /\ Shows(w.canvas, w.next, "preBlend") /\ Untouched
        /\ Kept(w, IF w.stage = "postBlend" THEN blended ELSE done)
    BY <1>1, <1>6 DEF LastFrame, Exact, CanvasStages
  <2>2. /\ blended \in Images /\ Shows(blended, w.ordinal, "postBlend")
        /\ done \in Images /\ Shows(done, w.ordinal, "postDispose")
    BY <1>1, <2>1, BlendShows, DisposeShows
  <2> HIDE DEF blended, done
  <2>3. QED
    BY <2>1, <2>2, KeptExact
<1>7. CASE EarlierFrame(w)
  <2> DEFINE v == [w EXCEPT !.next = @ + 1, !.canvas = done]
  <2>1. /\ w.next < w.ordinal /\ w.stage \in CanvasStages
        /\ w.at = "composing" /\ ~w.cancelled
        /\ Shows(w.canvas, w.next, "preBlend") /\ Untouched
        /\ Update(w, v)
        /\ cache' = IF IsCheckpoint(w.next)
                    THEN Cached(cache, w.next, "postDispose", done)
                    ELSE cache
    BY <1>1, <1>7 DEF EarlierFrame, Exact
  <2>2. w.next \in Ordinals /\ w.next + 1 <= w.ordinal
    BY <1>1, <2>1, OrdinalsAre DEF Ordinals
  <2>3. blended \in Images
    BY <1>1, <2>1, <2>2, BlendShows
  <2>4. done \in Images /\ Shows(done, w.next, "postDispose")
    BY <1>1, <2>1, <2>2, <2>3, DisposeShows
  <2> HIDE DEF done
  <2>5. Shows(done, w.next + 1, "preBlend")
    BY <2>4, DisposedIsBefore
  <2>6. Sound(cache)'
    <3>1. "postDispose" \in ReplayStages
      BY DEF ReplayStages, CanvasStages
    <3>2. Sound(Cached(cache, w.next, "postDispose", done))
      BY <1>1, <2>2, <2>4, <3>1, CachedSound
    <3>3. QED
      BY <1>1, <2>1, <3>2
  <2>7. v = [w EXCEPT !.at = "composing", !.next = w.next + 1,
                      !.canvas = done]
    BY <1>1, <2>1 DEF WorkerRecords
  <2> HIDE DEF v
  <2>8. v \in WorkerRecords /\ Exact(v)
    <3>1. w.next + 1 \in Nat
      BY <1>1
    <3>2. QED
      BY <1>1, <2>1, <2>2, <2>4, <2>5, <2>7, <3>1, ComposingExact
  <2>9. QED
    BY <2>1, <2>6, <2>8, UpdateExact
<1>8. QED
  BY <1>3, <1>4, <1>5, <1>6, <1>7 DEF Run

LEMMA SignalExact ==
  ASSUME ImageInv, NEW w \in workers, Signal(w)
  PROVE  ImageInv'
<1>1. w \in WorkerRecords /\ Exact(w)
  BY DEF ImageInv, WorkersExact
<1>2. CASE WorkerResult(w)
  <2> DEFINE v == Reported(w)
  <2>1. v \in WorkerRecords /\ v.at = "reported"
    BY <1>1, BlankShows DEF Reported, WorkerRecords
  <2>2. Update(w, v) /\ w.at = "posted"
    BY <1>2 DEF WorkerResult
  <2> HIDE DEF v
  <2>3. WorkersExact'
    BY <2>1, <2>2 DEF ImageInv, WorkersExact, Update, Exact
  <2>4. PlaybackTyped'
    BY <1>2, PauseTyped, PlaybackStays
       DEF WorkerResult, ImageInv, PlaybackTyped, playing
  <2>5. ShownExact'
    BY <1>1, <1>2, <2>2 DEF WorkerResult, ImageInv, ShownExact, Exact, Frame
  <2>6. QED
    BY <1>2, <2>3, <2>4, <2>5
       DEF WorkerResult, ImageInv, RequestTyped, request
<1>3. CASE Finished(w)
  <2>1. /\ workers' \subseteq workers \union {NewWorker(selected, stage)}
        /\ frame_pending' \in BOOLEAN
    BY <1>3 DEF Finished, ImageInv, RequestTyped
  <2>2. WorkersExact'
    BY <2>1, NewWorkerExact DEF ImageInv, RequestTyped, WorkersExact
  <2>3. QED
    BY <1>3, <2>1, <2>2
       DEF Finished, ImageInv, RequestTyped, PlaybackTyped, ShownExact,
           playing
<1>4. QED
  BY <1>2, <1>3 DEF Signal

LEMMA ImageInit == Init => ImageInv
<1> SUFFICES ASSUME Init
             PROVE  ImageInv
  OBVIOUS
<1>1. 0 \in Ordinals /\ "frameOutput" \in Stages
  BY OrdinalsAre, ControllerAssumption
<1>2. Sound(<<>>)
  BY ReplayAssumption DEF Sound
<1>3. QED
  BY <1>1, <1>2, FreshIs
     DEF Init, ImageInv, RequestTyped, PlaybackTyped, WorkersExact,
         ShownExact, Nothing

LEMMA ImageNext == ImageInv /\ [Next]_vars => ImageInv'
<1> SUFFICES ASSUME ImageInv, [Next]_vars
             PROVE  ImageInv'
  OBVIOUS
<1>1. CASE UNCHANGED vars
  BY <1>1 DEF vars, playing, request, ImageInv, RequestTyped, PlaybackTyped,
              WorkersExact, ShownExact
<1>2. QED
  BY <1>1, UserExact, TickExact, RunExact, SignalExact DEF Next

(* Every image that a replay keeps, and every one the views show, is what  *)
(* the stage of its frame shows, from whichever checkpoint it was composed *)
(* and whatever was cancelled, failed or evicted; the cache keeps to its   *)
(* budget with one entry a key (AnimationReplay::materialize, cache).      *)
THEOREM CacheTheorem == Spec => []CacheExact
<1>1. ImageInv => CacheExact
  <2> SUFFICES ASSUME ImageInv
               PROVE  CacheExact
    OBVIOUS
  <2>1. \A k \in DOMAIN cache : cache[k] \in Entries
    BY DEF ImageInv, Sound
  <2>2. TypeOK
    BY <2>1 DEF ImageInv, RequestTyped, PlaybackTyped, PlaybackStates,
                WorkersExact, WorkerRecords, Entries, TypeOK
  <2>3. QED
    BY <2>2 DEF ImageInv, Sound, ShownExact, CacheExact
<1>2. QED
  BY ImageInit, ImageNext, <1>1, PTL DEF Spec
=============================================================================
