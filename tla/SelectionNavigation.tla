------------------------ MODULE SelectionNavigation ------------------------
(***************************************************************************)
(* Selection and navigation: selection_navigation_controller.cpp, with the *)
(* selection bus, the tabs of the hex view and SelectionViewState.         *)
(*                                                                         *)
(* An operation takes the state of the GUI thread, a record of which       *)
(* "trace" is that of TraceController, and returns the one after it.       *)
(***************************************************************************)
EXTENDS TraceController

Sources == {"file", "idat", "inflated", "defiltered", "frame"}

(* The bus drops what it has when the generation changes.                  *)
NoSelection == [image |-> None, of |-> "nothing"]

NoSelections(trace) ==
  [gen |-> 0, source |-> FALSE, stages |-> FALSE, query |-> FALSE,
   identity |-> Static, locked |-> None, hover |-> None, view |-> FALSE,
   frameStage |-> None, frameStream |-> None, hexSource |-> "file",
   hexTab |-> "file", hex |-> None, bus |-> NoSelection, trace |-> trace]

At(identity, pixel) == [identity |-> identity, pixel |-> pixel]

-----------------------------------------------------------------------------
(* What the bytes of the hex view are: of the file, of the static image or *)
(* of a frame of some document.                                            *)
HexOf(g) ==
  CASE ~g.source -> None
    [] g.source /\ g.hexSource = "frame" ->
         [kind |-> "frame", of |-> g.frameStream]
    [] g.source /\ g.hexSource \in {"file", "idat"} ->
         [kind |-> g.hexSource, of |-> <<g.gen, Static>>]
    [] OTHER ->
         [kind |-> g.hexSource,
          of |-> IF g.frameStage # None THEN g.frameStage
                 ELSE IF g.stages THEN <<g.gen, Static>> ELSE None]

(* The tabs have no tab of their own for the stream of a frame.            *)
TabOf(source) == IF source = "frame" THEN "idat" ELSE source

UpdateHexSource(g) ==
  [g EXCEPT !.hexTab = TabOf(g.hexSource), !.hex = HexOf(g)]

SetHexSource(g, source) == UpdateHexSource([g EXCEPT !.hexSource = source])

(* A click on a tab: the tab of a frame's stream says "idat".              *)
OnHexSourceTabChanged(g, tab) == SetHexSource(g, tab)

-----------------------------------------------------------------------------
SetBusGeneration(g, gen) == [g EXCEPT !.bus = NoSelection]

(* publish() replaces the selection; publishMerged() keeps the parts that  *)
(* the new one does not have.                                              *)
BusPublish(g, image, of) == [g EXCEPT !.bus = [image |-> image, of |-> of]]

BusMerge(g, image, of) ==
  [g EXCEPT !.bus = [image |-> IF image = None THEN @.image ELSE image,
                     of |-> of]]

(* A new document drops what was hovered and locked in the old one, and    *)
(* the identity; the stages of the last frame stay.                        *)
SetDocument(g, gen) ==
  [g EXCEPT !.gen = gen, !.source = TRUE, !.stages = FALSE, !.query = FALSE,
            !.frameStream = None, !.identity = Static, !.locked = None,
            !.hover = None]

ClearSelection(g, gen) == [SetDocument(g, gen) EXCEPT !.source = FALSE]

(* replaceChunkModel() selects the first chunk, which shows the file.      *)
OnChunkSelected(g) ==
  BusMerge(SetHexSource(g, "file"), None, "chunk")

ReplaceChunkModel(g, chunks) ==
  IF chunks THEN OnChunkSelected(UpdateHexSource(g)) ELSE UpdateHexSource(g)

OnStageSetPublished(g, query) ==
  UpdateHexSource([g EXCEPT !.stages = TRUE, !.query = query])

-----------------------------------------------------------------------------
RequestTrace(g, identity, pixel) ==
  [g EXCEPT !.trace = RequestFor(@, identity, pixel)]

(* A lock made while a frame is shown asks for the trace of that frame     *)
(* when its stages are there, and again when they arrive.                  *)
RequestLockedTrace(g) ==
  IF g.frameStage = None \/ g.identity \notin Frames \/ g.locked = None
  THEN g
  ELSE LET image == At(g.identity, g.locked.pixel)
       IN  RequestTrace(BusMerge([g EXCEPT !.locked = image], image, "image"),
                        g.identity, image.pixel)

OnAnimationPixelSelected(g, pixel) ==
  LET image == At(g.identity, pixel)
  IN  IF ~g.view THEN g
      ELSE RequestLockedTrace(
             BusPublish([g EXCEPT !.locked = image], image, "image"))

OnPixelSelected(g, pixel) ==
  LET image == At(g.identity, pixel)
  IN  IF g.view THEN OnAnimationPixelSelected(g, pixel)
      ELSE RequestTrace(BusMerge([g EXCEPT !.locked = image], image, "image"),
                        g.identity, pixel)

(* The toolbar: nothing when the lock is already there.                    *)
PublishLockedCoordinate(g, pixel) ==
  IF ~g.view /\ g.locked = At(g.identity, pixel) THEN g
  ELSE OnPixelSelected(g, pixel)

(* An arrow key: the next pixel, if there is a lock to move.               *)
NudgeLockedCoordinate(g, pixel) ==
  IF g.locked # None /\ pixel \in {g.locked.pixel - 1, g.locked.pixel + 1}
  THEN OnPixelSelected(g, pixel) ELSE g

OnPixelHovered(g, pixel) == [g EXCEPT !.hover = At(g.identity, pixel)]

OnPixelHoverLeft(g) == [g EXCEPT !.hover = None]

ClearLockedCoordinate(g) == BusPublish([g EXCEPT !.locked = None], None, g.bus.of)

(* Wrong: the lock of one image is carried to the next.                    *)
CarryIdentity(g, identity) ==
  [g EXCEPT !.identity = identity, !.view = @ /\ identity # Static]

SetImageIdentity(g, identity) ==
  LET h == IF g.identity = identity THEN g
           ELSE ClearLockedCoordinate([g EXCEPT !.hover = None])
  IN  [h EXCEPT !.identity = identity, !.view = @ /\ identity # Static]

SetAnimationView(g) == [g EXCEPT !.view = TRUE]

SetAnimationFrameStream(g, frame) ==
  UpdateHexSource([g EXCEPT
    !.frameStream = IF frame = None THEN None ELSE <<g.gen, frame>>])

(* The stages of a frame with those of the document they come from.        *)
SetFrameStageContext(g, stage) ==
  RequestLockedTrace(UpdateHexSource([g EXCEPT !.frameStage = stage]))

(* A row of the statistics panel has spans of the file.                    *)
OnStatisticsSelected(g) ==
  SetHexSource([g EXCEPT !.bus = [image |-> None, of |-> "statistics"]],
               "file")

(* A navigation of the Compression pages shows Deflate output, or the      *)
(* spans of the file it comes from; a serial is applied once.              *)
ApplyCompressionNavigation(g, output) ==
  SetHexSource(g, IF output THEN "inflated" ELSE "file")
=============================================================================
