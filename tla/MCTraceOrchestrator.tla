------------------------ MODULE MCTraceOrchestrator ------------------------
(* TraceOrchestrator with one document and one frame target.               *)
EXTENDS TraceOrchestrator

CONSTANTS idat, frame

MCStreams == {idat, frame}
MCTargets == {frame}
=============================================================================
