-------------------------------- MODULE Gui --------------------------------
(***************************************************************************)
(* The main window: the order in which main_window.cpp and bindAnimationUi *)
(* of animation_controller.cpp hand a document, its results and the events *)
(* of the user to the controllers.  The sessions are the events they emit: *)
(* DocumentSession publishes the decoded image and the stages of a         *)
(* document once; FrameInspectionSession builds and adopts the target of a *)
(* frame on its workers and posts that its analysis is ready.  The window  *)
(* calls its openFrame() and clear() only, so that targetSelected, which   *)
(* selectTarget() emits, never comes.                                      *)
(***************************************************************************)
EXTENDS SelectionNavigation

CONSTANTS
  MaxDocuments,  (* bound on documents opened and closed                   *)
  MaxAnimated,   (* the documents up to this one may be animated           *)
  MaxPublished,  (* bound on frames published                              *)
  MaxPosted,     (* bound on results posted and not handled                *)
  MaxJobs        (* bound on the jobs queued when the user asks for more   *)

VARIABLES
  g,          (* the controllers and what they show                        *)
  session,    (* the document, and which of its results were published     *)
  inspection, (* the frame session: its target, the frames asked for, and  *)
              (* whether a worker adopted one of a document cleared before *)
  mail,       (* analyses of frames posted to the GUI thread               *)
  posted,     (* results of traces posted to the GUI thread                *)
  restored    (* history: the user chose the static image, and no frame was*)
              (* published since                                           *)

vars == <<g, session, inspection, mail, posted, restored>>

NoSession(gen) ==
  [gen |-> gen, open |-> FALSE, opens |-> FALSE, animated |-> FALSE,
   decoded |-> FALSE, staged |-> FALSE, mounted |-> FALSE, frames |-> 0]

NoTarget == [target |-> None, opening |-> {}, late |-> FALSE]

Init ==
  /\ g = NoSelections(NoTrace(0, FALSE))
  /\ session = NoSession(0)
  /\ inspection = NoTarget
  /\ mail = <<>>
  /\ posted = <<>>
  /\ restored = FALSE

(* The orchestrator that is dropped joins its worker, which may post the   *)
(* answer of the job it runs.                                              *)
LastAnswers(t) ==
  {<<>>} \union
  {<<Result(t.jobs[k])>> : k \in DOMAIN t.jobs \intersect {1}}

(* clear() of the frame session drops its target and what is queued; the   *)
(* workers that have looked at its generation before go on.                *)
ClearQueueOnly ==
  \E running \in SUBSET inspection.opening :
    inspection' = [inspection EXCEPT !.opening = running, !.late = FALSE]

ClearInspection ==
  \E running \in SUBSET inspection.opening :
    inspection' = [NoTarget EXCEPT !.opening = running]

(* openFile(), after the session has taken the file; the frame session is  *)
(* cleared by the signal of the document session, first.                   *)
OpenFile ==
  /\ session.gen < MaxDocuments
  /\ \E opens, animated \in BOOLEAN :
       LET gen == session.gen + 1
           h == SetDocument(SetBusGeneration(g, gen), gen)
           t == SetQueryCoordinator(ReplaceDocument(g.trace, gen, opens), FALSE)
       IN  /\ animated => opens /\ gen <= MaxAnimated
           /\ session' = [NoSession(gen) EXCEPT !.open = TRUE, !.opens = opens,
                                                !.animated = animated]
           /\ g' = ReplaceChunkModel([h EXCEPT !.trace = t], TRUE)
  /\ ClearInspection
  /\ \E last \in LastAnswers(g.trace) :
       /\ Len(posted \o last) <= MaxPosted
       /\ posted' = posted \o last
  /\ restored' = FALSE
  /\ UNCHANGED mail

CloseFile ==
  /\ session.open
  /\ session.gen < MaxDocuments
  /\ LET gen == session.gen + 1
         h == ClearSelection(SetBusGeneration(g, gen), gen)
     IN  /\ session' = NoSession(gen)
         /\ g' = ReplaceChunkModel([h EXCEPT !.trace = ClearDocument(gen)],
                                   FALSE)
  /\ ClearInspection
  /\ \E last \in LastAnswers(g.trace) :
       /\ Len(posted \o last) <= MaxPosted
       /\ posted' = posted \o last
  /\ restored' = FALSE
  /\ UNCHANGED mail

-----------------------------------------------------------------------------
GuiOnly == UNCHANGED <<inspection, mail, posted, restored>>

(* onStageDone() and onDecodeDone(): the image selects its first pixel.    *)
OnStageDone ==
  /\ session.open /\ ~session.staged
  /\ session' = [session EXCEPT !.staged = TRUE]
  /\ LET h == OnStageSetPublished(g, session.opens)
     IN  g' = [h EXCEPT !.trace = SetQueryCoordinator(@, session.opens)]
  /\ GuiOnly

FirstPixel == CHOOSE p \in Pixels : \A q \in Pixels : p <= q

OnDecodeDone ==
  /\ session.open /\ ~session.decoded
  /\ session' = [session EXCEPT !.decoded = TRUE]
  /\ g' \in {g, OnPixelSelected(g, FirstPixel)}
  /\ GuiOnly

(* animationPublished, after the stages: the default frame is selected.    *)
OnAnimationPublished ==
  /\ session.staged /\ session.animated /\ ~session.mounted
  /\ session' = [session EXCEPT !.mounted = TRUE]
  /\ \E f \in Frames :
       g' = SetAnimationFrameStream(SetImageIdentity(g, f), f)
  /\ GuiOnly

(* framePublished, of the stage that is on show: the frame is presented    *)
(* and its analysis asked for.                                             *)
OnFramePublished ==
  /\ session.mounted
  /\ session.frames < MaxPublished
  /\ session' = [session EXCEPT !.frames = @ + 1]
  /\ \E f \in Frames :
       LET h == SetAnimationView(SetImageIdentity(g, f))
           target == [frame |-> f, gen |-> session.gen,
                      serial |-> session.frames]
       IN  /\ g' = SetAnimationFrameStream(h, f)
           /\ inspection' = [inspection EXCEPT !.opening = @ \union {target}]
  /\ restored' = FALSE
  /\ UNCHANGED <<mail, posted>>

(* A worker of the frame session, which looks at no generation any more:   *)
(* it adopts its target unless a later one is there, and posts its         *)
(* analysis when it is of the frame of the target that is current.  A      *)
(* request that is merged or whose target cannot be built ends too.        *)
Adopts(target) ==
  inspection.target = None \/ target.serial >= inspection.target.serial

Accepts(current, target) ==
  /\ current # None
  /\ current.gen = target.gen /\ current.frame = target.frame

Analyse(target) ==
  /\ LET adopts == Adopts(target)
         current == IF adopts THEN target ELSE inspection.target
     IN  /\ inspection' = [target |-> current,
                           opening |-> inspection.opening \ {target},
                           late |-> \/ inspection.late
                                    \/ adopts /\ target.gen # session.gen]
         /\ \/ UNCHANGED mail
            \/ Accepts(current, target) /\ mail' = Append(mail, target)
  /\ UNCHANGED <<g, session, posted, restored>>

GiveUp(target) ==
  /\ inspection' = [inspection EXCEPT !.opening = @ \ {target}]
  /\ UNCHANGED <<g, session, mail, posted, restored>>

(* frameAnalysisReady: the trace gets the target the session has by then.  *)
OnMail ==
  /\ mail # <<>>
  /\ mail' = Tail(mail)
  /\ LET target == mail[1]
         h == SetImageIdentity(g, target.frame)
         t == SetFrameContext(g.trace, inspection.target, target.frame)
     IN  g' = SetFrameStageContext([h EXCEPT !.trace = t],
                                   <<target.gen, target.frame>>)
  /\ UNCHANGED <<session, inspection, posted, restored>>

(* staticFallbackSelected.                                                 *)
OnStaticFallback ==
  /\ session.mounted
  /\ LET a == SetFrameStageContext(g, None)
         b == SetAnimationFrameStream(SetImageIdentity(a, Static), None)
         c == BusMerge(b, At(Static, IF b.bus.image = None THEN FirstPixel
                                     ELSE b.bus.image.pixel), "image")
     IN  g' = [c EXCEPT !.trace = SetFrameContext(@, None, None)]
  /\ restored' = TRUE
  /\ UNCHANGED <<session, inspection, mail, posted>>

-----------------------------------------------------------------------------
(* The user.                                                               *)
MayAsk == Len(g.trace.jobs) < MaxJobs

Click ==
  /\ session.decoded /\ MayAsk
  /\ \E p \in Pixels :
       g' \in {OnPixelSelected(g, p), OnAnimationPixelSelected(g, p),
               PublishLockedCoordinate(g, p), NudgeLockedCoordinate(g, p)}
  /\ UNCHANGED session /\ GuiOnly

Hover ==
  /\ session.decoded
  /\ \/ \E p \in Pixels : g' = OnPixelHovered(g, p)
     \/ g' = OnPixelHoverLeft(g)
  /\ UNCHANGED session /\ GuiOnly

Unlock ==
  /\ session.open
  /\ g' = ClearLockedCoordinate(g)
  /\ UNCHANGED session /\ GuiOnly

ChooseTab ==
  /\ session.open
  /\ \E tab \in Sources \ {"frame"} : g' = OnHexSourceTabChanged(g, tab)
  /\ UNCHANGED session /\ GuiOnly

ChooseChunk ==
  /\ session.open
  /\ g' \in {OnChunkSelected(g), OnStatisticsSelected(g)}
  /\ UNCHANGED session /\ GuiOnly

Navigate ==
  /\ session.staged
  /\ \E output \in BOOLEAN : g' = ApplyCompressionNavigation(g, output)
  /\ UNCHANGED session /\ GuiOnly

DrillDown ==
  /\ g.trace.blocks # None /\ MayAsk
  /\ \E row \in 1..Extent[g.trace.blocks] :
       g' = [g EXCEPT !.trace = OpenDecodeTrace(@, row)]
  /\ UNCHANGED session /\ GuiOnly

-----------------------------------------------------------------------------
(* The worker of the orchestrator, and its results on the GUI thread.      *)
JobReplays ==
  /\ CanStep(g.trace, "queued")
  /\ g' = [g EXCEPT !.trace = ReplayJob(@)]
  /\ UNCHANGED session /\ GuiOnly

JobThrows ==
  /\ CanStep(g.trace, "queued") /\ ~g.trace.jobs[1].cancelled
  /\ g' = [g EXCEPT !.trace = ThrowJob(@)]
  /\ UNCHANGED session /\ GuiOnly

JobPosts ==
  /\ CanStep(g.trace, "stored")
  /\ Len(posted) < MaxPosted
  /\ g' = [g EXCEPT !.trace = SinkJob(@)]
  /\ posted' = IF g.trace.jobs[1].cancelled THEN posted
               ELSE Append(posted, Result(g.trace.jobs[1]))
  /\ UNCHANGED <<session, inspection, mail, restored>>

HandleResult ==
  /\ posted # <<>>
  /\ g' = [g EXCEPT !.trace = OnTraceResult(@, posted[1])]
  /\ posted' = Tail(posted)
  /\ UNCHANGED <<session, inspection, mail, restored>>

-----------------------------------------------------------------------------
Documents ==
  \/ OpenFile \/ CloseFile \/ OnStageDone \/ OnDecodeDone
  \/ OnAnimationPublished \/ OnFramePublished \/ OnMail
  \/ \E target \in inspection.opening : Analyse(target) \/ GiveUp(target)
  \/ OnStaticFallback \/ Click

Views == Hover \/ Unlock \/ ChooseTab \/ ChooseChunk \/ Navigate

Traces == DrillDown \/ JobReplays \/ JobThrows \/ JobPosts \/ HandleResult

Next == Documents \/ Views \/ Traces

Spec == Init /\ [][Next]_vars

-----------------------------------------------------------------------------
(* When every job has ended and every result is handled, the pages show    *)
(* the answer of the last request: of its interval, of the image on the    *)
(* pages and of the stream that is open.  That stream is the image's, and  *)
(* the image is of the document on show (setFrameContext, requestFor,      *)
(* onTraceResult).  The exceptions are the code's:                         *)
(* - when open() was refused, because a replay had not ended or the stream *)
(*   has no block, the controller has the new target and the orchestrator  *)
(*   the old stream (trace_controller.cpp 232-262).  From a static stream  *)
(*   a frame's request is answered with static data; a frame's stream      *)
(*   turns the request down, which happens in no other case;               *)
(* - a worker of the frame session may adopt a target of a document that   *)
(*   was cleared before, and its analysis opens it on the pages of the     *)
(*   next one (frame_inspection_session.cpp 393-407);                      *)
(* - no answer comes for an image that is not on the pages, for a row out  *)
(*   of the index, and when the replay throws.                             *)
ImageOf(t) == IF t.target = None THEN Static ELSE t.target.frame

SettlesOnRequest ==
  LET t == g.trace
  IN  /\ t.trace => t.stream = ImageOf(t) \/ t.refused
      /\ t.unanswered = "stream" => t.refused
      /\ t.target # None => t.target.gen = session.gen \/ inspection.late
      /\ t.wanted # 0 /\ t.unanswered = "no"
           /\ t.jobs = <<>> /\ posted = <<>> =>
           /\ t.rows # None /\ t.rows.gen = session.gen
           /\ t.shown = "answered"
           /\ OfTarget(t, t.rows) /\ t.rows.row = t.wanted
           /\ t.rows.stream = t.stream

(* "Pixel coordinates and their lock are scoped to one image identity":    *)
(* the lock, the hover and the selection on the bus are of the image that  *)
(* is shown, whatever was published in between.                            *)
LockOfIdentity ==
  \A image \in {g.locked, g.hover, g.bus.image} \ {None} :
    image.identity = g.identity

(* "Restore the complete static context": once the user has chosen the     *)
(* static image, no frame comes back before one is published.              *)
StaticStaysRestored ==
  restored => g.identity = Static /\ g.frameStage = None
=============================================================================
