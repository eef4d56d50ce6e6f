------------------------- MODULE AnimationController ------------------------
(***************************************************************************)
(* Playback and frame selection: animation_controller.cpp with the         *)
(* AnimationWorker threads it starts, over the playback of                 *)
(* AnimationPlayback and the cache of AnimationReplay.                     *)
(*                                                                         *)
(* A worker composes a frame on its own thread and posts its result and    *)
(* then its finished signal to the GUI thread, which handles them in order *)
(* between user actions and timer ticks.  request_serial_ only grows, and  *)
(* a result is kept when it carries the present one: a worker records      *)
(* whether it does ("current").  setDocument() makes a new replay_; an     *)
(* earlier worker keeps the old one ("mine" is FALSE).  The thumbnails     *)
(* and the speed, which restarts the display of a frame, are left out.     *)
(***************************************************************************)
EXTENDS AnimationPlayback, AnimationReplay, FiniteSets

CONSTANT Stages  (* stages the user selects, with the initial "frameOutput"*)

ASSUME ControllerAssumption ==
  /\ Stages \subseteq ReplayStages /\ "frameOutput" \in Stages
  /\ NumFrames = Len(Frames)

VARIABLES
  capability,     (* capability_ : "detecting", "valid", "partial", "static"*)
  playback,       (* playback_                                             *)
  timer,          (* playback_timer_ is active                             *)
  selected,       (* selected_ordinal_                                     *)
  stage,          (* stage_                                                *)
  showing_static, (* showing_static_                                       *)
  frame_pending,  (* frame_pending_                                        *)
  workers,        (* the workers whose finished signal is not handled      *)
  cache,          (* lru_ of the present replay_, the oldest entry first   *)
  shown           (* what the views show                                   *)

playing == <<playback, timer>>
request == <<selected, stage, showing_static, frame_pending>>
vars == <<capability, playing, request, workers, cache, shown>>

Nothing == [kind |-> "none"]

Init ==
  /\ capability = "detecting"
  /\ playback = NoPlayback
  /\ timer = FALSE
  /\ selected = 0
  /\ stage = "frameOutput"
  /\ showing_static = FALSE
  /\ frame_pending = FALSE
  /\ workers = {}
  /\ cache = <<>>
  /\ shown = Nothing

Animated == capability \in {"valid", "partial"}

NewWorker(o, s) ==
  [ordinal |-> o, stage |-> s, current |-> TRUE, mine |-> TRUE,
   cancelled |-> FALSE, at |-> "starting", next |-> 0, canvas |-> Blank,
   outcome |-> "none"]

(* ++request_serial_ and worker_->cancel().  A worker that is not current  *)
(* only runs to its next check and its result is dropped, so what it was   *)
(* to compose is forgotten here.                                           *)
Superseded ==
  {[NewWorker(0, "frameOutput") EXCEPT !.current = FALSE, !.cancelled = TRUE,
      !.at = w.at, !.mine = w.mine] : w \in workers}

(* Wrong: does not wait for the worker that runs.                          *)
StartFrameWorkerAtOnce(o, s) ==
  /\ selected' = o
  /\ stage' = s
  /\ workers' = Superseded \union {NewWorker(o, s)}
  /\ frame_pending' = FALSE

(* startFrameWorker(): a worker that runs is cancelled, and its finished   *)
(* signal will start the one requested.                                    *)
StartFrameWorker(o, s) ==
  /\ selected' = o
  /\ stage' = s
  /\ IF workers # {}
     THEN workers' = Superseded /\ frame_pending' = TRUE
     ELSE workers' = {NewWorker(o, s)} /\ frame_pending' = FALSE

(* cancelWorker() and ++request_serial_.                                   *)
CancelWorker ==
  /\ frame_pending' = FALSE
  /\ workers' = Superseded

Pause ==
  /\ playback' = Paused(playback)
  /\ timer' = (timer /\ playback.state = "none")

-----------------------------------------------------------------------------
(***************************************************************************)
(* User actions.                                                           *)
(***************************************************************************)
Abandoned == {[w EXCEPT !.mine = FALSE] : w \in Superseded}

(* setDocument(): an animation opens paused on its first frame.            *)
SetDocument(kind) ==
  /\ capability' = kind
  /\ playback' = IF kind = "valid" THEN Fresh ELSE NoPlayback
  /\ timer' = FALSE
  /\ selected' = 0
  /\ stage' = "frameOutput"
  /\ showing_static' = FALSE
  /\ cache' = <<>>
  /\ shown' = Nothing
  /\ IF kind = "static"
     THEN workers' = Abandoned /\ frame_pending' = FALSE
     ELSE IF workers # {}
     THEN workers' = Abandoned /\ frame_pending' = TRUE
     ELSE workers' = {NewWorker(0, "frameOutput")} /\ frame_pending' = FALSE

(* close(); replay_ stays until the next document.                         *)
Close ==
  /\ capability # "detecting"
  /\ CancelWorker
  /\ capability' = "detecting"
  /\ playback' = NoPlayback
  /\ timer' = FALSE
  /\ shown' = Nothing
  /\ UNCHANGED <<selected, stage, showing_static, cache>>

SelectFrame(o) ==
  /\ Animated
  /\ playback' = Sought(Paused(playback), o)
  /\ timer' = FALSE
  /\ showing_static' = FALSE
  /\ StartFrameWorker(o, stage)
  /\ UNCHANGED <<capability, cache, shown>>

SelectStage(s) ==
  /\ stage # s \/ showing_static
  /\ showing_static' = FALSE
  /\ Pause
  /\ IF Animated
     THEN StartFrameWorker(selected, s)
     ELSE stage' = s /\ UNCHANGED <<selected, frame_pending, workers>>
  /\ UNCHANGED <<capability, cache, shown>>

SelectStaticFallback ==
  /\ Animated
  /\ showing_static' = TRUE
  /\ Pause
  /\ CancelWorker
  /\ shown' = [kind |-> "static"]
  /\ UNCHANGED <<capability, selected, stage, cache>>

(* Also the coordinate spin boxes.                                         *)
PauseButton ==
  /\ playback.state # "none"
  /\ Pause
  /\ UNCHANGED <<capability, request, workers, cache, shown>>

(* advancePlaybackAt(): a tick that asks for a frame starts its worker.    *)
Advance(p, elapsed) ==
  LET q == Ticked(p, elapsed) IN
  /\ playback' = q
  /\ IF p.state = "playing" /\ q.state = "waiting"
     THEN StartFrameWorker(q.current, stage)
     ELSE UNCHANGED <<selected, stage, frame_pending, workers>>

(* play() ticks once and then starts the timer.                            *)
Play ==
  /\ playback.state # "none"
  /\ Advance(Played(playback), FALSE)
  /\ timer' = TRUE
  /\ UNCHANGED <<capability, showing_static, cache, shown>>

Tick(elapsed) ==
  /\ timer
  /\ Advance(playback, elapsed)
  /\ timer' = (playback'.state \notin {"ended", "paused"})
  /\ UNCHANGED <<capability, showing_static, cache, shown>>

-----------------------------------------------------------------------------
(***************************************************************************)
(* A worker: AnimationReplay::materialize.                                 *)
(***************************************************************************)
Update(w, v) == workers' = (workers \ {w}) \union {v}

Untouched == UNCHANGED <<capability, playing, request, shown>>

Posted(w, out, image) ==
  [w EXCEPT !.at = "posted", !.outcome = out, !.canvas = image]

Kept(w, image) ==
  /\ Update(w, Posted(w, "ready", image))
  /\ cache' = Cached(cache, w.ordinal, w.stage, image)

(* A cancelled worker stops at its next check.  One whose replay_ is gone  *)
(* was cancelled, and what it still does to that cache is of no effect.    *)
Stop(w) ==
  /\ w.at \in {"starting", "composing"}
  /\ w.cancelled
  /\ Update(w, Posted(w, "cancelled", Blank))
  /\ Untouched /\ UNCHANGED cache

(* The frame cannot be read or analysed.                                   *)
Fail(w) ==
  /\ w.at \in {"starting", "composing"}
  /\ ~w.cancelled
  /\ w.at = "composing" => w.stage # "preBlend" \/ w.next < w.ordinal
  /\ w.at = "starting" => /\ w.stage = "frameOutput"
                          /\ ~Has(cache, w.ordinal, w.stage)
  /\ Update(w, Posted(w, "error", Blank))
  /\ Untouched /\ UNCHANGED cache

Begin(w) ==
  /\ w.at = "starting" /\ ~w.cancelled
  /\ Untouched
  /\ LET known == Has(cache, w.ordinal, w.stage)
         from == Resumed(cache, w.ordinal)
     IN  \/ /\ known
            /\ Update(w, Posted(w, "ready",
                                Found(cache, w.ordinal, w.stage).image))
            /\ cache' = Touched(cache, w.ordinal, w.stage)
         \/ /\ ~known /\ w.stage = "frameOutput"
            /\ Kept(w, FrameImage(w.ordinal))
         \/ /\ ~known /\ w.stage \in CanvasStages
            /\ Update(w, [w EXCEPT !.at = "composing", !.next = from.next,
                                   !.canvas = from.canvas])
            /\ cache' = from.cache

(* The loop has come to the requested frame and needs nothing of it.       *)
BeforeBlend(w) ==
  /\ w.at = "composing" /\ ~w.cancelled
  /\ w.stage = "preBlend" /\ w.next = w.ordinal
  /\ Untouched
  /\ Kept(w, w.canvas)

(* The requested frame, blended and, when asked for, disposed of.          *)
LastFrame(w) ==
  /\ w.at = "composing" /\ ~w.cancelled
  /\ w.stage # "preBlend" /\ w.next = w.ordinal
  /\ Untouched
  /\ LET blended == Blended(w.canvas, w.next)
     IN  Kept(w, IF w.stage = "postBlend" THEN blended
                 ELSE Disposed(blended, w.canvas, w.next))

(* An earlier frame; a checkpoint keeps the canvas.                        *)
EarlierFrame(w) ==
  /\ w.at = "composing" /\ ~w.cancelled
  /\ w.next < w.ordinal
  /\ Untouched
  /\ LET done == Disposed(Blended(w.canvas, w.next), w.canvas, w.next)
     IN  /\ Update(w, [w EXCEPT !.next = @ + 1, !.canvas = done])
         /\ cache' = IF IsCheckpoint(w.next)
                     THEN Cached(cache, w.next, "postDispose", done)
                     ELSE cache

Run(w) ==
  \/ Stop(w) \/ Fail(w) \/ Begin(w)
  \/ BeforeBlend(w) \/ LastFrame(w) \/ EarlierFrame(w)

-----------------------------------------------------------------------------
(***************************************************************************)
(* The signals of a worker.                                                *)
(***************************************************************************)
Frame(w) ==
  [kind |-> "frame", ordinal |-> w.ordinal, stage |-> w.stage,
   image |-> w.canvas]

Reported(w) ==
  [w EXCEPT !.at = "reported", !.outcome = "none", !.canvas = Blank]

(* Wrong: a failed frame does not pause the playback.                      *)
WorkerResultUnpaused(w) ==
  /\ w.at = "posted"
  /\ Update(w, Reported(w))
  /\ IF ~w.current
     THEN UNCHANGED <<playing, shown>>
     ELSE IF w.outcome = "ready"
     THEN /\ playback' = FrameReady(playback, selected)
          /\ shown' = Frame(w)
          /\ UNCHANGED timer
     ELSE /\ shown' = [kind |-> "error"]
          /\ UNCHANGED playing
  /\ UNCHANGED <<capability, request, cache>>

(* onWorkerResult(): only the present request is taken.                    *)
WorkerResult(w) ==
  /\ w.at = "posted"
  /\ Update(w, Reported(w))
  /\ IF ~w.current
     THEN UNCHANGED <<playing, shown>>
     ELSE IF w.outcome = "ready"
     THEN /\ playback' = FrameReady(playback, selected)
          /\ shown' = Frame(w)
          /\ UNCHANGED timer
     ELSE /\ Pause
          /\ shown' = IF w.outcome = "error" THEN [kind |-> "error"] ELSE shown
  /\ UNCHANGED <<capability, request, cache>>

(* Wrong: the pending frame is not started.                                *)
FinishedOnly(w) ==
  /\ w.at = "reported"
  /\ workers' = workers \ {w}
  /\ UNCHANGED <<capability, playing, request, cache, shown>>

(* The worker is gone, and launchPendingFrame() starts the one requested.  *)
Finished(w) ==
  /\ w.at = "reported"
  /\ IF frame_pending /\ capability # "detecting"
     THEN /\ workers' = (workers \ {w}) \union {NewWorker(selected, stage)}
          /\ frame_pending' = FALSE
     ELSE /\ workers' = workers \ {w}
          /\ UNCHANGED frame_pending
  /\ UNCHANGED <<capability, playing, selected, stage, showing_static, cache,
                 shown>>

-----------------------------------------------------------------------------
User ==
  \/ \E kind \in {"valid", "partial", "static"} : SetDocument(kind)
  \/ Close
  \/ \E o \in Ordinals : SelectFrame(o)
  \/ \E s \in Stages : SelectStage(s)
  \/ SelectStaticFallback
  \/ Play \/ PauseButton

Signal(w) == WorkerResult(w) \/ Finished(w)

Next ==
  \/ User
  \/ \E elapsed \in BOOLEAN : Tick(elapsed)
  \/ \E w \in workers : Run(w) \/ Signal(w)

(* A started thread runs on, the event loop handles what is posted, and    *)
(* the timer ticks until the duration of the frame has elapsed; the user   *)
(* need do nothing.                                                        *)
Fairness ==
  /\ WF_vars(\E w \in workers : Run(w) \/ Signal(w))
  /\ WF_vars(Tick(TRUE))

Spec == Init /\ [][Next]_vars /\ Fairness

-----------------------------------------------------------------------------
Images == [Cells -> Seq(Ordinals)]

TypeOK ==
  /\ capability \in {"detecting", "valid", "partial", "static"}
  /\ playback \in
       [state : {"none", "paused", "playing", "waiting", "ended"},
        current : Ordinals, completed : 0..NumPlays, ready : BOOLEAN]
  /\ selected \in Ordinals /\ stage \in Stages
  /\ {timer, showing_static, frame_pending} \subseteq BOOLEAN
  /\ \A w \in workers : w.ordinal \in Ordinals /\ w.canvas \in Images
  /\ \A k \in DOMAIN cache : cache[k].image \in Images

(* AnimationReplay is not synchronised: two workers never share one, so    *)
(* whatever is requested no second worker starts before the first is gone. *)
OneWorker ==
  Cardinality({w \in workers : /\ w.mine
                               /\ w.at \in {"starting", "composing"}}) <= 1

(* Every image kept, and the one shown, is what its frame's stage shows,   *)
(* whatever was cancelled, failed, evicted or resumed from; the cache      *)
(* keeps to its budget, with one entry a key.                              *)
CacheExact ==
  /\ TypeOK
  /\ \A k \in DOMAIN cache :
       Shows(cache[k].image, cache[k].ordinal, cache[k].stage)
  /\ Len(cache) <= Budget
  /\ \A j, k \in DOMAIN cache :
       IsKey(cache[j], cache[k].ordinal, cache[k].stage) => j = k
  /\ shown.kind = "frame" => Shows(shown.image, shown.ordinal, shown.stage)

(* When no worker is left the views show the frame and stage selected      *)
(* last, unless it failed or the static image was chosen after it.         *)
SettlesOnSelected ==
  workers = {} /\ Animated =>
    \/ shown.kind = "error"
    \/ shown.kind = "static" /\ showing_static
    \/ /\ shown.kind = "frame"
       /\ shown.ordinal = selected
       /\ shown.stage = stage

(* Playback never hangs: from every frame it goes on to the next one, or   *)
(* it is paused, ended or replaced.                                        *)
PlaybackGoesOn ==
  \A o \in Ordinals :
    playback.state \in {"playing", "waiting"} /\ playback.current = o
      ~> playback.state \notin {"playing", "waiting"} \/ playback.current # o
=============================================================================
