-------------------------- MODULE AnimationPlayback -------------------------
(***************************************************************************)
(* The playback clock of animation_playback.cpp, as operators on its state.*)
(* The clock is abstract: the caller of Ticked says whether the duration   *)
(* of the current frame has elapsed, so speeds and durations are left out. *)
(* So is serial_, which frame_ready() compares with itself: its one caller *)
(* passes request_serial().                                                *)
(***************************************************************************)
EXTENDS Naturals

CONSTANTS
  NumFrames,  (* timeline_.entries.size()                                  *)
  NumPlays    (* timeline_.num_plays; 0 plays for ever                     *)

ASSUME PlaybackAssumption == NumFrames \in Nat \ {0} /\ NumPlays \in Nat

(* NoPlayback is the null playback_ of a document without a timeline.      *)
NoPlayback ==
  [state |-> "none", current |-> 0, completed |-> 0, ready |-> FALSE]

Fresh == [NoPlayback EXCEPT !.state = "paused"]

Played(p) ==
  CASE p.state = "paused" -> [p EXCEPT !.state = "playing"]
    [] p.state = "ended"  -> [Fresh EXCEPT !.state = "playing"]
    [] OTHER -> p

Paused(p) ==
  IF p.state \in {"playing", "waiting"}
  THEN [p EXCEPT !.state = "paused", !.ready = FALSE]
  ELSE p

Sought(p, o) ==
  IF p.state = "paused" THEN [p EXCEPT !.current = o, !.ready = FALSE] ELSE p

(* Wrong: the bound of the last frame is off by one, and the timeline has *)
(* no end.                                                                 *)
AdvancedTooFar(p) ==
  [p EXCEPT !.state = "waiting", !.ready = FALSE,
            !.current = IF @ <= NumFrames THEN @ + 1 ELSE 0]

(* completed_plays_ saturates; with no limit on the plays it is not read.  *)
Advanced(p) ==
  CASE p.current + 1 < NumFrames ->
         [p EXCEPT !.state = "waiting", !.ready = FALSE, !.current = @ + 1]
    [] p.current + 1 = NumFrames /\ NumPlays = 0 ->
         [p EXCEPT !.state = "waiting", !.ready = FALSE, !.current = 0]
    [] p.current + 1 = NumFrames /\ p.completed + 1 < NumPlays ->
         [p EXCEPT !.state = "waiting", !.ready = FALSE, !.current = 0,
                   !.completed = @ + 1]
    [] OTHER -> [p EXCEPT !.state = "ended"]

Ticked(p, elapsed) ==
  IF p.state # "playing" THEN p
  ELSE IF ~p.ready THEN [p EXCEPT !.state = "waiting"]
  ELSE IF ~elapsed THEN p
  ELSE Advanced(p)

FrameReady(p, o) ==
  IF p.state = "waiting" /\ o = p.current
  THEN [p EXCEPT !.state = "playing", !.ready = TRUE]
  ELSE p
=============================================================================
