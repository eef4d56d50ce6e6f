--------------------------- MODULE AnimationReplay --------------------------
(***************************************************************************)
(* The frame cache and the composition of animation_replay.cpp and         *)
(* canvas_composition.cpp, as operators: AnimationController keeps the     *)
(* cache and takes one step of a replay for each frame composed.           *)
(*                                                                         *)
(* A canvas maps each cell to the sequence of frames blended there, the    *)
(* bottom one first; <<>> is transparent black.  A cell stands for all the *)
(* pixels that lie in the same frame rectangles.  Every image takes one    *)
(* unit of the budget.                                                     *)
(***************************************************************************)
EXTENDS Naturals, SequencesExt

CONSTANTS
  Frames,  (* the animation: a sequence of [rect, blend, dispose]          *)
  Cells,   (* cells of the canvas                                          *)
  Budget,  (* budget_, in images; 64 MiB in the code                       *)
  Every    (* a checkpoint is kept every so many frames; 32 in the code    *)

Controls ==
  [rect : SUBSET Cells,
   blend : {"source", "over"},
   dispose : {"none", "background", "previous"}]

ASSUME ReplayAssumption ==
  /\ Frames \in Seq(Controls) /\ Frames # <<>>
  /\ {Budget, Every} \subseteq Nat \ {0}

Ordinals == 0..(Len(Frames) - 1)

Control(o) == Frames[o + 1]

CanvasStages == {"preBlend", "postBlend", "postDispose"}

ReplayStages == CanvasStages \union {"frameOutput"}

Blank == [c \in Cells |-> <<>>]

FrameImage(o) ==
  [c \in Cells |-> IF c \in Control(o).rect THEN <<o>> ELSE <<>>]

Blended(canvas, o) ==
  [c \in Cells |->
    IF c \notin Control(o).rect THEN canvas[c]
    ELSE IF Control(o).blend = "source" THEN <<o>>
    ELSE Append(canvas[c], o)]

(* The canvas after the disposal of frame o, which was blended over saved. *)
Disposed(canvas, saved, o) ==
  [c \in Cells |->
    IF c \notin Control(o).rect \/ Control(o).dispose = "none" THEN canvas[c]
    ELSE IF Control(o).dispose = "background" \/ o = 0 THEN <<>>
    ELSE saved[c]]

Entry(o, s, i) == [ordinal |-> o, stage |-> s, image |-> i]

IsKey(e, o, s) == e.ordinal = o /\ e.stage = s

(* entries_.find(): whether there is an entry of the key, and its place in *)
(* lru_.                                                                   *)
Has(cache, o, s) == \E k \in DOMAIN cache : IsKey(cache[k], o, s)

Place(cache, o, s) == CHOOSE k \in DOMAIN cache : IsKey(cache[k], o, s)

Found(cache, o, s) == cache[Place(cache, o, s)]

Erased(cache, o, s) ==
  IF Has(cache, o, s) THEN RemoveAt(cache, Place(cache, o, s)) ELSE cache

(* cached(): the entry found becomes the most recently used.               *)
Touched(cache, o, s) == Append(Erased(cache, o, s), Found(cache, o, s))

(* cache(): an entry of the same key is replaced, the oldest ones go.      *)
Cached(cache, o, s, i) ==
  LET kept == Erased(cache, o, s)
      excess == IF Len(kept) < Budget THEN 0 ELSE Len(kept) - Budget + 1
  IN  Append(SubSeq(kept, excess + 1, Len(kept)), Entry(o, s, i))

(* The frames a replay of frame o may resume at: 0, with a blank canvas,   *)
(* or the one after a kept disposed canvas.                                *)
ResumeAt(cache, o) ==
  {0} \union {f \in 1..o : Has(cache, f - 1, "postDispose")}

LastKept(cache, o) == Max(ResumeAt(cache, o))

FromStart(cache) == [next |-> 0, canvas |-> Blank, cache |-> cache]

(* Wrong: resumes at the frame whose disposed canvas was kept.             *)
ResumedEarly(cache, o) ==
  LET f == LastKept(cache, o)
  IN  IF f = 0 THEN FromStart(cache)
      ELSE [next |-> f - 1,
            canvas |-> Found(cache, f - 1, "postDispose").image,
            cache |-> cache]

Resumed(cache, o) ==
  LET f == LastKept(cache, o)
  IN  IF f = 0 THEN FromStart(cache)
      ELSE [next |-> f,
            canvas |-> Found(cache, f - 1, "postDispose").image,
            cache |-> Touched(cache, f - 1, "postDispose")]

IsCheckpoint(o) == (o + 1) % Every = 0

-----------------------------------------------------------------------------
(***************************************************************************)
(* The reference: what a stage of a frame shows, by which earlier frames   *)
(* are still visible at a cell and not by composing them in turn.          *)
(***************************************************************************)
Clears(g, c) ==
  /\ c \in Control(g).rect
  /\ \/ Control(g).dispose = "background"
     \/ Control(g).dispose = "previous" /\ g = 0
     \/ Control(g).dispose = "none" /\ Control(g).blend = "source"

(* Frame f is visible at cell c when the frames before o have been shown.  *)
VisibleAt(f, c, o) ==
  /\ c \in Control(f).rect
  /\ Control(f).dispose = "none"
  /\ \A g \in (f + 1)..(o - 1) : ~Clears(g, c)

Visible(c, o) == {f \in 0..(o - 1) : VisibleAt(f, c, o)}

VisibleIn(o, s, c) ==
  CASE s = "frameOutput" -> {f \in {o} : c \in Control(f).rect}
    [] s = "preBlend"    -> Visible(c, o)
    [] s = "postBlend"   -> IF c \notin Control(o).rect THEN Visible(c, o)
                            ELSE IF Control(o).blend = "source" THEN {o}
                            ELSE Visible(c, o) \union {o}
    [] s = "postDispose" -> Visible(c, o + 1)

(* The frames of fs, each once, a later one above an earlier one.          *)
Stacks(q, fs) ==
  /\ Range(q) = fs
  /\ \A i, j \in DOMAIN q : i < j => q[i] < q[j]

Shows(image, o, s) == \A c \in Cells : Stacks(image[c], VisibleIn(o, s, c))
=============================================================================
