------------------------ MODULE MCAnimationController -----------------------
EXTENDS AnimationController

(* Three frames over two cells: a full frame, one that is blended over it  *)
(* and stays, and one whose part of the canvas is restored.                *)
MCFrames ==
  << [rect |-> {1, 2}, blend |-> "source", dispose |-> "none"],
     [rect |-> {2}, blend |-> "over", dispose |-> "none"],
     [rect |-> {1}, blend |-> "source", dispose |-> "previous"] >>
=============================================================================
