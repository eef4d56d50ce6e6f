------------------------------- MODULE MCGui -------------------------------
(* A behaviour follows the traces, the views or the statistics: the first  *)
(* two share what a document and its frames do to both, the third nothing. *)
EXTENDS Gui, StatisticsController, TLC

CONSTANTS f1, f2

VARIABLE follow

MCExtent == f1 :> 1 @@ f2 :> 2 @@ Static :> 2
MCFrameRow == f1 :> <<1, 0>> @@ f2 :> <<2, 1>>

(* One frame is published where the views are followed, around a choice of *)
(* the static image and a replay that throws, and before a second document *)
(* is opened.                                                              *)
MCBound ==
  /\ follow = "views" => session'.frames <= 1
  /\ restored \/ restored' => session'.frames <= 1
  /\ g'.trace.unanswered = "threw" => session'.frames <= 1
  /\ session'.gen > session.gen => session.frames <= 1

MCInit ==
  /\ follow \in {"traces", "views", "statistics"}
  /\ Init
  /\ StatisticsInit
  /\ follow # "statistics" => ~page

MCNext ==
  /\ \/ /\ \/ follow # "statistics" /\ Documents
           \/ follow = "views" /\ Views
           \/ follow = "traces" /\ Traces
        /\ MCBound
        /\ UNCHANGED statisticsVars
     \/ follow = "statistics" /\ StatisticsNext /\ UNCHANGED vars
  /\ UNCHANGED follow

MCSpec == MCInit /\ [][MCNext]_<<vars, statisticsVars, follow>>
=============================================================================
