---------------------------- MODULE JobScheduler ----------------------------
(***************************************************************************)
(* The worker pool of the analysis engine: libs/analysis-engine            *)
(* job_scheduler.h and job_scheduler.cpp.                                  *)
(*                                                                         *)
(* Worker threads wait on one condition variable under one mutex, take the *)
(* best queued job whose reservation still fits the memory budget, run it  *)
(* with the mutex released, and take the mutex again to give the budget    *)
(* back and to hand the result to the sink.  The sink runs with the mutex  *)
(* held, so a delivery and a change of generation exclude each other.      *)
(*                                                                         *)
(* A critical section with nothing observable inside is one action whose   *)
(* guard is that the mutex is free; the section in which the sink runs is  *)
(* spread over several actions and keeps the mutex in `holder'.            *)
(***************************************************************************)
EXTENDS Naturals, FiniteSets

CONSTANTS
  Workers,       (* worker threads                                         *)
  Callers,       (* threads that call shutdown()                           *)
  Jobs,          (* jobs: each may be submitted again once it is settled   *)
  Generations,   (* document generations clients use                       *)
  Priority,      (* priority of each job, larger is more urgent            *)
  Reservation,   (* bytes each job reserves while it runs                  *)
  MaxReserved,   (* max_reserved_: the memory budget                       *)
  Word,          (* number of values of the unsigned byte counters, 2^64   *)
  NoJob, None    (* no job in a worker's hands; nobody holds the mutex     *)

(* Words wide enough for two budgets: all the code's callers pass budgets  *)
(* below 2^63 (128 MiB in the GUI), so that the sum in runnable() is exact.*)
ASSUME SchedulerAssumption ==
  /\ IsFiniteSet(Workers)
  /\ IsFiniteSet(Jobs)
  /\ Generations \subseteq Nat
  /\ 0 \in Generations
  /\ Priority \in [Jobs -> Nat]
  /\ Reservation \in [Jobs -> Nat]
  /\ MaxReserved \in Nat
  /\ Word \in Nat
  /\ 2 * MaxReserved < Word
  /\ NoJob \notin Jobs
  /\ None \notin Workers

VARIABLES
  holder,             (* thread inside mutex_ with the sink running        *)
  queue,              (* queue_: accepted jobs not yet picked              *)
  gen,                (* QueuedJob::generation                             *)
  older,              (* QueuedJob::seq: <<j, k>> if j was queued before k *)
  cancelled,          (* jobs whose token says cancelled                   *)
  generation,         (* generation_                                       *)
  running_reserved,   (* running_reserved_                                 *)
  shutdown,           (* shutdown_                                         *)
  sink,               (* sink_ is set                                      *)
  pc,                 (* where each worker is                              *)
  job,                (* the QueuedJob in each worker's hands              *)
  caller,             (* where each caller of shutdown() is                *)
  outcome             (* history: what became of each job                  *)

vars == <<holder, queue, gen, older, cancelled, generation,
          running_reserved, shutdown, sink, pc, job, caller, outcome>>

clientVars == <<gen, older, cancelled, generation, shutdown, sink,
                caller>>

(***************************************************************************)
(* Program counters of a worker.                                           *)
(*   asleep      in cv_.wait, not notified                                 *)
(*   woken       notified (or just started), wants the mutex               *)
(*   picked      owns a job, mutex released, token not looked at yet       *)
(*   working     inside job.work                                           *)
(*   finished    work returned, threw or was skipped; wants the mutex      *)
(*   delivering  inside sink_, mutex held                                  *)
(*   locked      at the top of the loop with the mutex still held          *)
(*   exited      left workerLoop                                           *)
(***************************************************************************)
HasJob == {"picked", "working", "finished"}

MutexFree == holder = None

Init ==
  /\ holder = None
  /\ queue = {}
  /\ gen = [j \in Jobs |-> 0]
  /\ older = {}
  /\ cancelled = {}
  /\ generation = 0
  /\ running_reserved = 0
  /\ shutdown = FALSE
  /\ sink = FALSE
  /\ pc = [w \in Workers |-> "woken"]
  /\ job = [w \in Workers |-> NoJob]
  /\ caller = [c \in Callers |-> "idle"]
  /\ outcome = [j \in Jobs |-> "none"]

-----------------------------------------------------------------------------
(* Wrong variants, named for their mistake, stand before the definition    *)
(* they spoil; no specification uses them (see README, mutants).           *)
BeforeLastComeFirst(a, b) ==
  \/ Priority[a] > Priority[b]
  \/ Priority[a] = Priority[b] /\ <<b, a>> \in older

(* JobOrder: higher priority first, first come first served within one.    *)
Before(a, b) ==
  \/ Priority[a] > Priority[b]
  \/ Priority[a] = Priority[b] /\ <<a, b>> \in older

(* next_seq_++: j is queued behind everything queued.                      *)
Youngest(j) == (older \intersect (queue \X queue)) \union (queue \X {j})

RunnableForgettingItself(j) == running_reserved % Word <= MaxReserved

(* The sum is taken in the counter's width.                                *)
Runnable(j) == (Reservation[j] + running_reserved) % Word <= MaxReserved

RunnableJobs == {j \in queue : Runnable(j)}

(* notify_all, for a thread that keeps or drops no program counter.        *)
NotifyAll(p) == [w \in Workers |-> IF p[w] = "asleep" THEN "woken" ELSE p[w]]

(* notify_one wakes one waiter if there is any.                            *)
NotifyOne ==
  IF \E w \in Workers : pc[w] = "asleep"
  THEN \E w \in Workers : /\ pc[w] = "asleep"
                          /\ pc' = [pc EXCEPT ![w] = "woken"]
  ELSE pc' = pc

-----------------------------------------------------------------------------
(* Client operations.                                                      *)

SetResultSink ==
  /\ MutexFree
  /\ ~sink
  /\ sink' = TRUE
  /\ UNCHANGED <<holder, queue, gen, older, cancelled, generation,
                 running_reserved, shutdown, pc, job, caller, outcome>>

SubmitUnnotified(j, g) ==
  /\ MutexFree
  /\ ~shutdown
  /\ Reservation[j] <= MaxReserved
  /\ outcome[j] # "pending"
  /\ queue' = queue \union {j}
  /\ gen' = [gen EXCEPT ![j] = g]
  /\ older' = Youngest(j)
  /\ cancelled' = cancelled \ {j}
  /\ outcome' = [outcome EXCEPT ![j] = "pending"]
  /\ UNCHANGED <<holder, generation, running_reserved, shutdown, sink, pc, job,
                 caller>>

SubmitAfterShutdown(j, g) ==
  /\ MutexFree
  /\ Reservation[j] <= MaxReserved
  /\ outcome[j] # "pending"
  /\ queue' = queue \union {j}
  /\ gen' = [gen EXCEPT ![j] = g]
  /\ older' = Youngest(j)
  /\ cancelled' = cancelled \ {j}
  /\ outcome' = [outcome EXCEPT ![j] = "pending"]
  /\ NotifyOne
  /\ UNCHANGED <<holder, generation, running_reserved, shutdown, sink, job,
                 caller>>

(* A job that is settled may come again, with a new token and a new place  *)
(* in the order: clients submit jobs like it for as long as they live.  A  *)
(* rejected submission (shutdown, or a reservation above the budget)       *)
(* changes nothing and is not a step.                                      *)
Submit(j, g) ==
  /\ MutexFree
  /\ ~shutdown
  /\ Reservation[j] <= MaxReserved
  /\ outcome[j] # "pending"
  /\ queue' = queue \union {j}
  /\ gen' = [gen EXCEPT ![j] = g]
  /\ older' = Youngest(j)
  /\ cancelled' = cancelled \ {j}
  /\ outcome' = [outcome EXCEPT ![j] = "pending"]
  /\ NotifyOne
  /\ UNCHANGED <<holder, generation, running_reserved, shutdown, sink, job,
                 caller>>

(* request_cancel() stores an atomic flag and needs no mutex.              *)
RequestCancel(j) ==
  /\ outcome[j] # "none"
  /\ j \notin cancelled
  /\ cancelled' = cancelled \union {j}
  /\ UNCHANGED <<holder, queue, gen, older, generation,
                 running_reserved, shutdown, sink, pc, job, caller, outcome>>

SetDocumentGenerationUnlocked(g) ==
  LET stale == {j \in queue : gen[j] < g} IN
  /\ generation' = g
  /\ queue' = queue \ stale
  /\ outcome' = [j \in Jobs |-> IF j \in stale THEN "dropped" ELSE outcome[j]]
  /\ pc' = NotifyAll(pc)
  /\ UNCHANGED <<holder, gen, older, cancelled, running_reserved,
                 shutdown, sink, job, caller>>

SetDocumentGeneration(g) ==
  LET stale == {j \in queue : gen[j] < g} IN
  /\ MutexFree
  /\ generation' = g
  /\ queue' = queue \ stale
  /\ outcome' = [j \in Jobs |-> IF j \in stale THEN "dropped" ELSE outcome[j]]
  /\ pc' = NotifyAll(pc)
  /\ UNCHANGED <<holder, gen, older, cancelled, running_reserved,
                 shutdown, sink, job, caller>>

ShutdownUnnotified(c) ==
  /\ MutexFree
  /\ caller[c] = "idle"
  /\ ~shutdown
  /\ shutdown' = TRUE
  /\ queue' = {}
  /\ outcome' = [j \in Jobs |-> IF j \in queue THEN "dropped" ELSE outcome[j]]
  /\ caller' = [caller EXCEPT ![c] = "joining"]
  /\ UNCHANGED <<holder, gen, older, cancelled, generation,
                 running_reserved, sink, pc, job>>

(* The first caller goes on to join the workers, a later one returns.      *)
ShutdownFirst(c) ==
  /\ MutexFree
  /\ caller[c] = "idle"
  /\ ~shutdown
  /\ shutdown' = TRUE
  /\ queue' = {}
  /\ outcome' = [j \in Jobs |-> IF j \in queue THEN "dropped" ELSE outcome[j]]
  /\ pc' = NotifyAll(pc)
  /\ caller' = [caller EXCEPT ![c] = "joining"]
  /\ UNCHANGED <<holder, gen, older, cancelled, generation,
                 running_reserved, sink, job>>

ShutdownAgain(c) ==
  /\ MutexFree
  /\ caller[c] = "idle"
  /\ shutdown
  /\ caller' = [caller EXCEPT ![c] = "returned"]
  /\ UNCHANGED <<holder, queue, gen, older, cancelled, generation,
                 running_reserved, shutdown, sink, pc, job, outcome>>

ShutdownJoined(c) ==
  /\ caller[c] = "joining"
  /\ \A w \in Workers : pc[w] = "exited"
  /\ caller' = [caller EXCEPT ![c] = "returned"]
  /\ UNCHANGED <<holder, queue, gen, older, cancelled, generation,
                 running_reserved, shutdown, sink, pc, job, outcome>>

-----------------------------------------------------------------------------
(* Steps of a worker.                                                      *)

(* The worker evaluates the wait predicate with the mutex: it either just  *)
(* woke up, or never gave the mutex back after its last job.               *)
AtTop(w) ==
  \/ pc[w] = "woken" /\ MutexFree
  \/ pc[w] = "locked" /\ holder = w

(* The wait predicate is false: back to sleep, the mutex is released.      *)
Sleep(w) ==
  /\ AtTop(w)
  /\ ~shutdown
  /\ RunnableJobs = {}
  /\ holder' = None
  /\ pc' = [pc EXCEPT ![w] = "asleep"]
  /\ UNCHANGED <<clientVars, queue, running_reserved, job, outcome>>

(* queue_ is empty whenever shutdown_ is set, see QueueClosed: the loop    *)
(* never spins on `continue' with the mutex held.                          *)
Exit(w) ==
  /\ AtTop(w)
  /\ shutdown
  /\ queue = {}
  /\ holder' = None
  /\ pc' = [pc EXCEPT ![w] = "exited"]
  /\ UNCHANGED <<clientVars, queue, running_reserved, job, outcome>>

PickKeepsQueued(w) ==
  /\ AtTop(w)
  /\ \E j \in RunnableJobs :
       /\ \A k \in RunnableJobs \ {j} : Before(j, k)
       /\ job' = [job EXCEPT ![w] = j]
       /\ running_reserved' = (running_reserved + Reservation[j]) % Word
  /\ holder' = None
  /\ pc' = [pc EXCEPT ![w] = "picked"]
  /\ UNCHANGED <<clientVars, queue, outcome>>

Pick(w) ==
  /\ AtTop(w)
  /\ \E j \in RunnableJobs :
       /\ \A k \in RunnableJobs \ {j} : Before(j, k)
       /\ queue' = queue \ {j}
       /\ older' = older \intersect (queue' \X queue')
       /\ job' = [job EXCEPT ![w] = j]
       /\ running_reserved' = (running_reserved + Reservation[j]) % Word
  /\ holder' = None
  /\ pc' = [pc EXCEPT ![w] = "picked"]
  /\ UNCHANGED <<gen, cancelled, generation, shutdown, sink, caller, outcome>>

(* A job whose token is already cancelled does not run.                    *)
StartWork(w) ==
  /\ pc[w] = "picked"
  /\ pc' = [pc EXCEPT ![w] = IF job[w] \in cancelled THEN "finished"
                                                     ELSE "working"]
  /\ UNCHANGED <<clientVars, holder, queue, running_reserved, job, outcome>>

(* Returned or threw: both end with a result to offer.                     *)
EndWork(w) ==
  /\ pc[w] = "working"
  /\ pc' = [pc EXCEPT ![w] = "finished"]
  /\ UNCHANGED <<clientVars, holder, queue, running_reserved, job, outcome>>

DeliverableUnlessOlder(j) ==
  /\ ~shutdown
  /\ j \notin cancelled
  /\ gen[j] >= generation
  /\ sink

Deliverable(j) ==
  /\ ~shutdown
  /\ j \notin cancelled
  /\ gen[j] = generation
  /\ sink

Release(w) ==
  running_reserved' = (running_reserved + Word - Reservation[job[w]]) % Word

(* The worker takes the mutex back, returns its reservation and finds the  *)
(* result wanted: it enters the sink with the mutex held.                  *)
EnterSink(w) ==
  /\ pc[w] = "finished"
  /\ MutexFree
  /\ Deliverable(job[w])
  /\ Release(w)
  /\ holder' = w
  /\ pc' = [pc EXCEPT ![w] = "delivering"]
  /\ outcome' = [outcome EXCEPT ![job[w]] = "delivered"]
  /\ UNCHANGED <<clientVars, queue, job>>

LeaveSinkKeepsJob(w) ==
  /\ pc[w] = "delivering"
  /\ holder = w
  /\ pc' = NotifyAll([pc EXCEPT ![w] = "locked"])
  /\ UNCHANGED <<clientVars, holder, queue, running_reserved, job, outcome>>

LeaveSinkUnnotified(w) ==
  /\ pc[w] = "delivering"
  /\ holder = w
  /\ pc' = [pc EXCEPT ![w] = "locked"]
  /\ job' = [job EXCEPT ![w] = NoJob]
  /\ UNCHANGED <<clientVars, holder, queue, running_reserved, outcome>>

(* The sink returned or threw.                                             *)
LeaveSink(w) ==
  /\ pc[w] = "delivering"
  /\ holder = w
  /\ pc' = NotifyAll([pc EXCEPT ![w] = "locked"])
  /\ job' = [job EXCEPT ![w] = NoJob]
  /\ UNCHANGED <<clientVars, holder, queue, running_reserved, outcome>>

SuppressLeaks(w) ==
  /\ pc[w] = "finished"
  /\ MutexFree
  /\ ~Deliverable(job[w])
  /\ holder' = w
  /\ pc' = NotifyAll([pc EXCEPT ![w] = "locked"])
  /\ job' = [job EXCEPT ![w] = NoJob]
  /\ outcome' = [outcome EXCEPT ![job[w]] = "dropped"]
  /\ UNCHANGED <<clientVars, queue, running_reserved>>

(* Nobody wants the result any more.                                       *)
Suppress(w) ==
  /\ pc[w] = "finished"
  /\ MutexFree
  /\ ~Deliverable(job[w])
  /\ Release(w)
  /\ holder' = w
  /\ pc' = NotifyAll([pc EXCEPT ![w] = "locked"])
  /\ job' = [job EXCEPT ![w] = NoJob]
  /\ outcome' = [outcome EXCEPT ![job[w]] = "dropped"]
  /\ UNCHANGED <<clientVars, queue>>

(* A condition variable may wake without a notification.                   *)
SpuriousWake(w) ==
  /\ pc[w] = "asleep"
  /\ pc' = [pc EXCEPT ![w] = "woken"]
  /\ UNCHANGED <<clientVars, holder, queue, running_reserved, job, outcome>>

-----------------------------------------------------------------------------
Worker(w) ==
  \/ Sleep(w) \/ Exit(w) \/ Pick(w) \/ StartWork(w) \/ EndWork(w)
  \/ EnterSink(w) \/ LeaveSink(w) \/ Suppress(w)

Client ==
  \/ SetResultSink
  \/ \E j \in Jobs, g \in Generations : Submit(j, g)
  \/ \E j \in Jobs : RequestCancel(j)
  \/ \E g \in Generations : SetDocumentGeneration(g)
  \/ \E c \in Callers : ShutdownFirst(c) \/ ShutdownAgain(c) \/ ShutdownJoined(c)

Next ==
  \/ Client
  \/ \E w \in Workers : Worker(w) \/ SpuriousWake(w)

Spec == Init /\ [][Next]_vars

(* The operating system schedules every thread, a job's work returns, and  *)
(* a thread waiting for the mutex gets it once it stays free.              *)
FairSpec ==
  /\ Spec
  /\ \A w \in Workers : WF_vars(Worker(w))
  /\ \A c \in Callers : WF_vars(ShutdownJoined(c))
-----------------------------------------------------------------------------
(***************************************************************************)
(* Properties.                                                             *)
(***************************************************************************)
Outcomes == {"none", "pending", "delivered", "dropped"}

(* Types, and a worker has a job exactly between picking it and returning  *)
(* from its delivery.                                                      *)
TypeOK ==
  /\ holder \in Workers \union {None}
  /\ queue \in SUBSET Jobs
  /\ gen \in [Jobs -> Generations]
  /\ older \in SUBSET (Jobs \X Jobs)
  /\ cancelled \in SUBSET Jobs
  /\ generation \in Generations
  /\ running_reserved \in 0..(Word - 1)
  /\ shutdown \in BOOLEAN
  /\ sink \in BOOLEAN
  /\ pc \in [Workers -> HasJob \union
                {"asleep", "woken", "delivering", "locked", "exited"}]
  /\ job \in [Workers -> Jobs \union {NoJob}]
  /\ caller \in [Callers -> {"idle", "joining", "returned"}]
  /\ outcome \in [Jobs -> Outcomes]
  /\ \A w \in Workers : job[w] # NoJob <=> pc[w] \in HasJob \union {"delivering"}

(* One element for each byte a running job has reserved.                   *)
BytesOf(w) == IF pc[w] \in HasJob THEN {w} \X (1..Reservation[job[w]]) ELSE {}

HeldBytes == UNION {BytesOf(w) : w \in Workers}

(* The jobs running at any moment fit the memory budget together, whatever *)
(* the order in which workers pick, finish and release (plan C5: memory    *)
(* reservation budget).                                                    *)
BudgetHeld == Cardinality(HeldBytes) <= MaxReserved

(* The counter the admission test reads is the memory really held: no path *)
(* through workerLoop (skipped job, exception, suppressed result, shutdown)*)
(* leaks a reservation or gives one back twice.                            *)
LedgerExact == running_reserved = Cardinality(HeldBytes)

(* A job is queued, in the hands of exactly one worker, or settled.        *)
OneOwner ==
  /\ \A j \in queue : outcome[j] = "pending"
  /\ \A w \in Workers : pc[w] \in HasJob =>
        outcome[job[w]] = "pending" /\ job[w] \notin queue
  /\ \A v, w \in Workers :
        pc[v] \in HasJob /\ pc[w] \in HasJob /\ job[v] = job[w] => v = w

(* While the sink is being called the document cannot change: the result   *)
(* it receives belongs to the current generation for the whole call.       *)
SinkIsCurrent ==
  \A w \in Workers : pc[w] = "delivering" =>
    holder = w /\ ~shutdown /\ gen[job[w]] = generation

(* Nothing is queued after shutdown(), so that the wait predicate of every *)
(* worker leads to its exit and never to a busy `continue'.                *)
QueueClosed == shutdown => queue = {}

(* No wake-up is lost: with the mutex free, if any worker sleeps there are *)
(* at least as many woken workers as jobs that could start, although       *)
(* submit() notifies only one waiter; and after shutdown() there is        *)
(* nothing left to wake up for.                                            *)
NoLostWakeup ==
  /\ QueueClosed
  /\ MutexFree /\ (\E w \in Workers : pc[w] = "asleep") =>
       Cardinality(RunnableJobs)
         <= Cardinality({w \in Workers : pc[w] = "woken"})

(* No job is overtaken by a later one of the same priority that needs at   *)
(* least as much memory, even though large jobs may be passed by small     *)
(* ones.                                                                   *)
NoOvertaking ==
  [][\A j, k \in Jobs :
       /\ j \in queue /\ j \in queue'
       /\ k \in queue /\ k \notin queue' /\ outcome'[k] = "pending"
       /\ Priority[j] >= Priority[k] /\ Reservation[j] <= Reservation[k]
       => <<k, j>> \in older /\ Priority[j] = Priority[k]]_vars

NothingSubmitted ==
  \A j \in Jobs : outcome'[j] = "pending" => outcome[j] = "pending"

(* No other job is more urgent than j or needs less memory than j.         *)
Unpassable(j) ==
  \A k \in Jobs \ {j} :
    Priority[k] <= Priority[j] /\ Reservation[k] >= Reservation[j]

(* What a client may wait for.  Once nothing more is submitted, every      *)
(* accepted job is delivered or dropped.  While submissions go on for      *)
(* ever, only a job that no other may pass is sure to leave the queue: a   *)
(* worker prefers a more urgent job, and it passes over a job that does    *)
(* not fit beside the running ones to take a smaller one, even a less      *)
(* urgent one (job_scheduler.cpp 119-123).  An unending stream of small    *)
(* jobs so keeps a large one waiting for ever.                             *)
JobsSettle ==
  /\ <>[][NothingSubmitted]_vars =>
       \A j \in Jobs :
         outcome[j] = "pending" ~> outcome[j] \in {"delivered", "dropped"}
  /\ \A j \in Jobs : Unpassable(j) => (j \in queue ~> j \notin queue)

(* shutdown() terminates: all workers leave, whatever they were doing.     *)
ShutdownReturns ==
  \A c \in Callers : caller[c] = "joining" ~> caller[c] = "returned"

(* The scheduler implements the service its clients rely on: it delivers   *)
(* at most once, only what is current and not cancelled, never runs a      *)
(* stale queued job, and never admits a job beyond the budget.             *)
InHands(j) == \E w \in Workers : pc[w] \in HasJob /\ job[w] = j

ServiceStatus ==
  [j \in Jobs |-> CASE outcome[j] = "none" -> "new"
                    [] outcome[j] \in {"delivered", "dropped"} -> outcome[j]
                    [] outcome[j] = "pending" /\ InHands(j) -> "running"
                    [] OTHER -> "queued"]

Service == INSTANCE JobService WITH status <- ServiceStatus

ServiceSpec == Service!Spec
=============================================================================
