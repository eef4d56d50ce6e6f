--------------------- MODULE MCFrameInspectionSession ----------------------
(* FrameInspectionSession with small documents.                            *)
EXTENDS FrameInspectionSession, TLC

CONSTANTS f0, f1

MCFrames == {f0, f1}
FrameSymmetry == Permutations(MCFrames)
AllOps == {"analysis", "statistics", "selectTarget", "clear"}
NoOps == {}
ClearOps == {"clear"}
=============================================================================
