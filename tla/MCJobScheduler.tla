--------------------------- MODULE MCJobScheduler ---------------------------
(***************************************************************************)
(* Small instances of JobScheduler: two workers, three jobs of which two   *)
(* fit the budget together and one fills it alone, two priorities.         *)
(***************************************************************************)
EXTENDS JobScheduler, TLC

CONSTANTS w1, w2, c1, c2, small, urgent, big

MCPriority == [j \in Jobs |-> IF j = small THEN 0 ELSE 1]
MCReservation == [j \in Jobs |-> IF j = big THEN 2 ELSE 1]

MCSymmetry == Permutations(Workers)
=============================================================================
