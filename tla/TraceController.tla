-------------------------- MODULE TraceController --------------------------
(***************************************************************************)
(* The Compression pages of the GUI: trace_controller.cpp, with the state  *)
(* machine of trace_inspector_state.cpp and what trace_inspector_binding   *)
(* shows.  A handler of the GUI thread is a sequence of calls, so that an  *)
(* operation here takes the state before it and returns the state after.   *)
(*                                                                         *)
(* The orchestrator is the part of TraceOrchestrator that the controller   *)
(* can tell: the open stream, its jobs, first in first out on one worker,  *)
(* and what its callback has posted to the GUI thread.  A row of Deflate   *)
(* output stands for an interval of it.                                    *)
(***************************************************************************)
EXTENDS Naturals, Sequences, SequencesExt

CONSTANTS
  Frames,   (* frames of the animation                                     *)
  Static,   (* identity of the default image, and its stream               *)
  None,     (* a null pointer, an empty optional                           *)
  Pixels,   (* canvas coordinates; a pixel is in the static row it names   *)
  Extent,   (* rows of each stream that the index covers                   *)
  FrameRow  (* for each frame the row of each pixel, 0 outside the frame   *)

Identities == Frames \union {Static}

ASSUME TraceAssumption ==
  /\ Static \notin Frames
  /\ Pixels \subseteq Nat \ {0} /\ Pixels # {}
  /\ Extent \in [Identities -> Nat]
  /\ FrameRow \in [Frames -> [Pixels -> Nat]]
  /\ None \notin [gen : Nat, identity : Identities \union {None}, row : Nat,
                  stream : Identities \union {None}]

(* A new document, of which the trace index opened or not.  Histories: the *)
(* row that the last request wanted, whether the orchestrator had refused  *)
(* to open the stream of its image, and why no answer is to come, if none  *)
(* is.                                                                     *)
NoTrace(gen, source) ==
  [gen |-> gen, source |-> source, target |-> None, frame |-> None,
   trace |-> FALSE, query |-> FALSE, pending |-> None, interval |-> 0,
   handle |-> FALSE, result |-> None, status |-> "noTrace", bundle |-> None,
   shown |-> "noTrace", rows |-> None, blocks |-> None, notIndexed |-> FALSE,
   stream |-> None, jobs |-> <<>>, wanted |-> 0,
   refused |-> FALSE, unanswered |-> "no"]

(* A result carries the generation, the identity and the row of the        *)
(* request, and the stream that was open.                                  *)
Result(job) ==
  [gen |-> job.gen, identity |-> job.identity, row |-> job.row,
   stream |-> job.stream]

-----------------------------------------------------------------------------
(* publishState(): an older bundle stays on the pages when the state has   *)
(* none.                                                                   *)
PublishState(t) ==
  [t EXCEPT !.shown = t.status,
            !.rows = IF t.bundle = None THEN @ ELSE t.bundle]

(* publishFastIndex() clears the pages; the state machine keeps its bundle.*)
PublishFastIndex(t) ==
  [t EXCEPT !.shown = "loading", !.rows = None, !.blocks = t.stream]

(* publish() of the state machine, whose generation is the controller's.   *)
Publish(t, result) ==
  PublishState([t EXCEPT !.bundle = result, !.status = "answered"])

MarkReplaying(t) == [t EXCEPT !.status = "replaying"]

-----------------------------------------------------------------------------
(* open() is refused while a job is queued, runs or holds its reservation, *)
(* and when the stream has no block.                                       *)
CanOpen(t, stream) == t.jobs = <<>> /\ Extent[stream] > 0

(* The orchestrator that replaceDocument() drops joins its worker, whose   *)
(* last result may be posted before.                                       *)
ReplaceDocument(t, gen, opens) ==
  LET fresh == NoTrace(gen, TRUE)
  IN  IF opens
      THEN PublishFastIndex([fresh EXCEPT !.trace = TRUE, !.stream = Static])
      ELSE fresh

ClearDocument(gen) == NoTrace(gen, FALSE)

(* Wrong: the interval of the stream before stays "already requested".     *)
KeepInterval(t) ==
  [t EXCEPT !.handle = FALSE, !.result = None, !.pending = None,
            !.wanted = 0, !.refused = FALSE, !.unanswered = "no"]

ForgetRequest(t) ==
  [t EXCEPT !.handle = FALSE, !.result = None, !.interval = 0,
            !.pending = None, !.wanted = 0, !.refused = FALSE,
            !.unanswered = "no"]

(* The worker has come to a state of the first job.                        *)
CanStep(t, state) == t.jobs # <<>> /\ t.jobs[1].state = state

(* setDocumentGeneration() with the generation the orchestrator has drops  *)
(* what the running job has stored and its sink has not fetched.           *)
ClearCompleted(t) ==
  IF CanStep(t, "stored") THEN [t EXCEPT !.jobs = Tail(@)] ELSE t

ToStatic(t) ==
  LET u == ForgetRequest([t EXCEPT !.target = None])
      opened == IF CanOpen(u, Static)
                THEN [u EXCEPT !.stream = Static] ELSE [u EXCEPT !.refused = TRUE]
  IN  PublishFastIndex(ClearCompleted(opened))

(* The refusal of open() is not looked at again: the target is stored.     *)
ToFrame(t, target) ==
  LET u == ForgetRequest([t EXCEPT !.target = target])
  IN  IF CanOpen(u, target.frame)
      THEN PublishFastIndex([u EXCEPT !.stream = target.frame])
      ELSE [u EXCEPT !.refused = TRUE]

SetFrameContext(t, target, frame) ==
  LET u == [t EXCEPT !.frame = frame]
  IN  CASE ~t.trace -> t
        [] t.trace /\ target = t.target -> u
        [] t.trace /\ target # t.target /\ target = None -> ToStatic(u)
        [] OTHER -> ToFrame(u, target)

-----------------------------------------------------------------------------
(* submit(): an open target admits its own identity only, a static stream  *)
(* admits any; the interval must be inside the index.                      *)
OfStream(t, identity) ==
  t.stream # Static /\ identity # None => identity = t.stream

Admitted(t, identity, row) ==
  OfStream(t, identity) /\ row <= Extent[t.stream]

(* A newer request cancels the one whose handle is held, the last of the   *)
(* queue; a cancelled job publishes nothing.                               *)
CancelHandle(t) ==
  IF t.handle /\ t.jobs # <<>>
  THEN [t EXCEPT !.jobs[Len(t.jobs)].cancelled = TRUE] ELSE t

Submit(t, identity, row) ==
  IF Admitted(t, identity, row)
  THEN [t EXCEPT !.handle = TRUE,
                 !.jobs = Append(@, [gen |-> t.gen, identity |-> identity,
                                     row |-> row, stream |-> t.stream,
                                     state |-> "queued", cancelled |-> FALSE])]
  ELSE [t EXCEPT !.handle = FALSE]

(* onTraceResult() admits the results of the image that is shown.          *)
OfTarget(t, result) ==
  IF t.target # None THEN result.identity = t.target.frame
  ELSE result.identity \notin Frames

(* Why no answer is to come: the answer will not be admitted, or submit()  *)
(* turns the request down.                                                 *)
Unanswered(t, identity, row) ==
  IF ~OfTarget(t, [identity |-> identity]) THEN "image"
  ELSE IF ~OfStream(t, identity) THEN "stream"
  ELSE IF ~Admitted(t, identity, row) THEN "row" ELSE "no"

(* The interval of the last request is not asked for again; its answer, if *)
(* there is one, is shown again.                                           *)
Ask(t, identity, row) ==
  LET asked == [t EXCEPT !.wanted = row]
      new == [asked EXCEPT !.interval = row, !.pending = None,
                !.unanswered = Unanswered(t, identity, row)]
  IN  CASE t.interval = row /\ t.result = None -> asked
        [] t.interval = row /\ t.result # None -> Publish(asked, t.result)
        [] OTHER -> Submit(PublishState(MarkReplaying(CancelHandle(new))),
                           identity, row)

(* With a target and stages the row is the frame's, when the stages are of *)
(* the target's frame; without it is that of the static image.             *)
RowOf(t, pixel) ==
  IF t.target = None \/ t.frame = None THEN pixel
  ELSE IF t.frame = t.target.frame THEN FrameRow[t.frame][pixel] ELSE 0

RequestFor(t, identity, pixel) ==
  IF ~t.trace \/ ~t.query
  THEN [t EXCEPT !.pending = [identity |-> identity, pixel |-> pixel],
                 !.notIndexed = TRUE]
  ELSE LET u == [t EXCEPT !.notIndexed = FALSE]
       IN  IF RowOf(t, pixel) = 0 THEN u
           ELSE Ask(u, identity, RowOf(t, pixel))

(* Open Decode Trace, of a row of the blocks that are shown.               *)
OpenDecodeTrace(t, row) ==
  IF ~t.trace THEN t
  ELSE Ask([t EXCEPT !.notIndexed = FALSE],
           IF t.target = None THEN None ELSE t.target.frame, row)

SetQueryCoordinator(t, ready) ==
  LET u == [t EXCEPT !.query = ready]
  IN  IF t.pending = None THEN u
      ELSE RequestFor([u EXCEPT !.pending = None], t.pending.identity,
                      t.pending.pixel)

-----------------------------------------------------------------------------
OfDocument(t, result) == result.gen = t.gen

OnTraceResult(t, result) ==
  IF OfDocument(t, result) /\ OfTarget(t, result)
  THEN [Publish([t EXCEPT !.result = result], result) EXCEPT !.handle = FALSE]
  ELSE t

(* The worker: the first job replays and stores its answer, and its sink   *)
(* posts it unless it is cancelled.                                        *)
ReplayJob(t) ==
  IF t.jobs[1].cancelled THEN [t EXCEPT !.jobs = Tail(@)]
  ELSE [t EXCEPT !.jobs[1].state = "stored"]

SinkJob(t) == [t EXCEPT !.jobs = Tail(@)]

(* A replay that throws posts nothing; the last job is of the last request.*)
ThrowJob(t) ==
  [t EXCEPT !.jobs = Tail(@),
            !.unanswered = IF Len(t.jobs) = 1 THEN "threw" ELSE @]
=============================================================================
