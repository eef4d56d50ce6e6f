----------------------------- MODULE JobService -----------------------------
(***************************************************************************)
(* What the job scheduler of the analysis engine promises its clients,     *)
(* with the worker threads, the mutex and the condition variable hidden    *)
(* (job_scheduler.h 23-140).                                               *)
(*                                                                         *)
(* A job is new, queued, running, and finally either delivered to the      *)
(* result sink or dropped.  The service never lets the reservations of the *)
(* running jobs exceed the budget, and it delivers a result only while it  *)
(* is open, if the job was not cancelled and belongs to the document       *)
(* generation of that moment.  The clients may take every other liberty:   *)
(* cancel at any time, submit for any generation, or close the service.    *)
(***************************************************************************)
EXTENDS Naturals, FiniteSets

CONSTANTS
  Jobs,          (* jobs; one that is settled may be submitted again       *)
  Generations,   (* document generations, a set of naturals                *)
  Reservation,   (* bytes each job reserves while it runs                  *)
  MaxReserved    (* the memory budget                                      *)

VARIABLES
  status,        (* life cycle of every job                                *)
  gen,           (* generation a job was submitted for                     *)
  cancelled,     (* jobs whose token was cancelled                         *)
  generation,    (* current document generation                            *)
  shutdown       (* the service was shut down                              *)

vars == <<status, gen, cancelled, generation, shutdown>>

Status == {"new", "queued", "running", "delivered", "dropped"}

(* The bytes the running jobs hold, one element for each byte.             *)
HeldBytes(S) == UNION {{j} \X (1..Reservation[j]) : j \in S}

Running == {j \in Jobs : status[j] = "running"}

Init ==
  /\ status = [j \in Jobs |-> "new"]
  /\ gen = [j \in Jobs |-> 0]
  /\ cancelled = {}
  /\ generation = 0
  /\ shutdown = FALSE

Submit(j, g) ==
  /\ ~shutdown
  /\ status[j] \in {"new", "delivered", "dropped"}
  /\ Reservation[j] <= MaxReserved
  /\ status' = [status EXCEPT ![j] = "queued"]
  /\ gen' = [gen EXCEPT ![j] = g]
  /\ cancelled' = cancelled \ {j}
  /\ UNCHANGED <<generation, shutdown>>

Cancel(j) ==
  /\ status[j] # "new"
  /\ cancelled' = cancelled \union {j}
  /\ UNCHANGED <<status, gen, generation, shutdown>>

(* A job starts only if the budget also holds with it running.             *)
Start(j) ==
  /\ status[j] = "queued"
  /\ Cardinality(HeldBytes(Running \union {j})) <= MaxReserved
  /\ status' = [status EXCEPT ![j] = "running"]
  /\ UNCHANGED <<gen, cancelled, generation, shutdown>>

Deliver(j) ==
  /\ status[j] = "running"
  /\ ~shutdown
  /\ j \notin cancelled
  /\ gen[j] = generation
  /\ status' = [status EXCEPT ![j] = "delivered"]
  /\ UNCHANGED <<gen, cancelled, generation, shutdown>>

Discard(j) ==
  /\ status[j] = "running"
  /\ status' = [status EXCEPT ![j] = "dropped"]
  /\ UNCHANGED <<gen, cancelled, generation, shutdown>>

(* Older queued jobs are dropped at once; running ones finish.             *)
NewGeneration(g) ==
  /\ generation' = g
  /\ status' = [j \in Jobs |->
                  IF status[j] = "queued" /\ gen[j] < g THEN "dropped"
                                                        ELSE status[j]]
  /\ UNCHANGED <<gen, cancelled, shutdown>>

Close ==
  /\ shutdown' = TRUE
  /\ status' = [j \in Jobs |->
                  IF status[j] = "queued" THEN "dropped" ELSE status[j]]
  /\ UNCHANGED <<gen, cancelled, generation>>

Next ==
  \/ \E j \in Jobs, g \in Generations : Submit(j, g)
  \/ \E j \in Jobs : Cancel(j) \/ Start(j) \/ Deliver(j) \/ Discard(j)
  \/ \E g \in Generations : NewGeneration(g)
  \/ Close

Spec == Init /\ [][Next]_vars
=============================================================================
