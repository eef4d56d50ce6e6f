------------------------- MODULE TraceOrchestrator -------------------------
(***************************************************************************)
(* The trace coordinator of one document: trace_orchestrator.h and .cpp.   *)
(*                                                                         *)
(* One client (the GUI thread, through TraceController) opens streams,     *)
(* submits and cancels replays and changes the generation; the replays run *)
(* on the workers of the orchestrator's own JobScheduler.  A replay stores *)
(* its query in completed_ under mutex_; the scheduler's sink, which runs  *)
(* under the scheduler's mutex, takes it out and calls the callback after  *)
(* mutex_ is released.  No call into the scheduler is made under mutex_,   *)
(* so that a section under one mutex is one action and a call of the       *)
(* client that takes them in turn is several.                              *)
(***************************************************************************)
EXTENDS Naturals, FiniteSets

CONSTANTS
  Streams,      (* IDAT streams and frame streams that can be opened       *)
  Targets,      (* those that are opened as an AnalysisTarget              *)
  WorkerCount,  (* jobs that can run at once                               *)
  MaxGen,       (* bound on document generations                           *)
  MaxJobs,      (* bound on next_job_id_                                   *)
  NoStream      (* nothing opened yet                                      *)

ASSUME OrchestratorAssumption ==
  /\ Targets \subseteq Streams
  /\ NoStream \notin Streams
  /\ {WorkerCount, MaxGen, MaxJobs} \subseteq Nat

VARIABLES
  cpc,         (* where the client is inside a call                        *)
  arg,         (* the argument of that call                                *)
  stream,      (* stream_ or target_stream_, whichever open() set          *)
  generation,  (* generation_                                              *)
  completed,   (* completed_: jobs whose query is stored                   *)
  sgen,        (* the scheduler's generation                               *)
  job,         (* every job submitted: where it is, and what it captured   *)
  cancelled,   (* jobs whose token is cancelled                            *)
  reset,       (* history: jobs that met a setDocumentGeneration()         *)
  threw        (* history: jobs whose replay threw an exception            *)

members == <<stream, generation, completed>>
history == <<reset, threw>>
vars == <<cpc, arg, members, sgen, job, cancelled, history>>

JobIds == DOMAIN job
In(states) == {j \in JobIds : job[j].state \in states}

Queued == In({"queued"})
Working == In({"running"})
Returned == In({"succeeded", "failed"})
Delivering == In({"sink", "callback"})
Live == In({"queued", "running", "succeeded", "failed", "sink", "callback"})

(* The scheduler's mutex is held while its sink runs.                      *)
SchedulerFree == Delivering = {}

Move(j, s) == job' = [job EXCEPT ![j].state = s]

NoArg == [kind |-> "none"]

Init ==
  /\ cpc = "idle"
  /\ arg = NoArg
  /\ stream = NoStream
  /\ generation = 0
  /\ completed = {}
  /\ sgen = 0
  /\ job = << >>
  /\ cancelled = {}
  /\ reset = {}
  /\ threw = {}

-----------------------------------------------------------------------------
(* open(), either form: refused when a job is queued, then, with a second  *)
(* lock of the scheduler, when one holds a reservation.  The streams are   *)
(* indexed without a lock, and an index that fails changes nothing.        *)
BusySwapped(check) == IF check = 1 THEN Working \union Returned ELSE Queued

Busy(check) == IF check = 1 THEN Queued ELSE Working \union Returned

OpenCheckQueue ==
  /\ cpc = "idle"
  /\ SchedulerFree
  /\ Busy(1) = {}
  /\ \E s \in Streams, g \in 1..MaxGen :
       /\ s \notin Targets => g = generation + 1
       /\ arg' = [kind |-> "open", of |-> s, generation |-> g]
  /\ cpc' = "openReserved"
  /\ UNCHANGED <<members, sgen, job, cancelled, history>>

OpenCheckReserved ==
  /\ cpc = "openReserved"
  /\ SchedulerFree
  /\ cpc' \in IF Busy(2) = {} THEN {"openReplace", "idle"} ELSE {"idle"}
  /\ UNCHANGED <<arg, members, sgen, job, cancelled, history>>

OpenReplace ==
  /\ cpc = "openReplace"
  /\ stream' = arg.of
  /\ generation' = arg.generation
  /\ completed' = {}
  /\ cpc' = "generationScheduler"
  /\ UNCHANGED <<arg, sgen, job, cancelled, history>>

(* setDocumentGeneration(): generation_ and completed_ under mutex_, then  *)
(* the scheduler, whose lock waits for a delivery in progress.  The one    *)
(* caller, TraceController, gives the document's generation, which never   *)
(* decreases; generation_ is above it only just after a static open(),     *)
(* when nothing is in flight.                                              *)
NextGenerations == {g \in 1..MaxGen : g >= generation \/ Live = {}}

SetDocumentGeneration ==
  /\ cpc = "idle"
  /\ \E g \in NextGenerations :
       generation' = g /\ arg' = [kind |-> "generation", generation |-> g]
  /\ completed' = {}
  /\ reset' = reset \union Live
  /\ cpc' = "generationScheduler"
  /\ UNCHANGED <<stream, sgen, job, cancelled, threw>>

GenerationSchedulerUnlocked ==
  /\ cpc = "generationScheduler"
  /\ sgen' = arg.generation
  /\ job' = [j \in JobIds |->
               IF job[j].state = "queued" /\ job[j].generation < sgen'
               THEN [job[j] EXCEPT !.state = "dropped"] ELSE job[j]]
  /\ cpc' = "idle"
  /\ UNCHANGED <<arg, members, cancelled, history>>

GenerationScheduler ==
  /\ cpc = "generationScheduler"
  /\ SchedulerFree
  /\ sgen' = arg.generation
  /\ job' = [j \in JobIds |->
               IF job[j].state = "queued" /\ job[j].generation < sgen'
               THEN [job[j] EXCEPT !.state = "dropped"] ELSE job[j]]
  /\ cpc' = "idle"
  /\ UNCHANGED <<arg, members, cancelled, history>>

-----------------------------------------------------------------------------
(* submit(): the checks, the job number and what the job captures under    *)
(* mutex_; then the scheduler, which may refuse the reservation.  A        *)
(* request of another generation, of another identity or out of bounds is  *)
(* answered in the first section and changes nothing.                      *)
SubmitNotIndexed ==
  /\ cpc = "idle"
  /\ Cardinality(JobIds) < MaxJobs
  /\ arg' = [kind |-> "submit", of |-> stream, generation |-> generation]
  /\ cpc' = "submitScheduler"
  /\ UNCHANGED <<members, sgen, job, cancelled, history>>

Submit ==
  /\ cpc = "idle"
  /\ stream # NoStream
  /\ Cardinality(JobIds) < MaxJobs
  /\ arg' = [kind |-> "submit", of |-> stream, generation |-> generation]
  /\ cpc' = "submitScheduler"
  /\ UNCHANGED <<members, sgen, job, cancelled, history>>

SubmitScheduler ==
  /\ cpc = "submitScheduler"
  /\ SchedulerFree
  /\ \E s \in {"queued", "rejected"} :
       job' = [j \in 1..Cardinality(JobIds) + 1 |->
                 IF j \in JobIds THEN job[j]
                 ELSE [state |-> s, stream |-> arg.of,
                       generation |-> arg.generation]]
  /\ cpc' = "idle"
  /\ UNCHANGED <<arg, members, sgen, cancelled, history>>

(* cancel(): the handle must be of the current generation; the token is    *)
(* an atomic flag; the stored query is erased under mutex_.                *)
CancelRequest(j) ==
  /\ cpc = "idle"
  /\ job[j].state # "rejected"
  /\ job[j].generation = generation
  /\ cancelled' = cancelled \union {j}
  /\ arg' = [kind |-> "cancel", of |-> j]
  /\ cpc' = "cancelErase"
  /\ UNCHANGED <<members, sgen, job, history>>

CancelEraseSkipped ==
  /\ cpc = "cancelErase"
  /\ UNCHANGED completed
  /\ cpc' = "idle"
  /\ UNCHANGED <<arg, stream, generation, sgen, job, cancelled, history>>

CancelErase ==
  /\ cpc = "cancelErase"
  /\ completed' = completed \ {arg.of}
  /\ cpc' = "idle"
  /\ UNCHANGED <<arg, stream, generation, sgen, job, cancelled, history>>

-----------------------------------------------------------------------------
(* The worker side.  The scheduler starts a job unless its token is        *)
(* cancelled; the replay looks at the token between its stages.            *)
Client == <<cpc, arg, stream, generation, sgen, cancelled, reset>>

Start(j) ==
  /\ job[j].state = "queued"
  /\ SchedulerFree
  /\ Cardinality(Working \union Returned) < WorkerCount
  /\ Move(j, "running")
  /\ UNCHANGED <<Client, completed, threw>>

(* A replay that saw its token cancelled.                                 *)
ReplayGivesUp(j) ==
  /\ job[j].state = "running"
  /\ j \in cancelled
  /\ Move(j, "failed")
  /\ UNCHANGED <<Client, completed, threw>>

(* Decoding or composing throws, cancelled or not: workerLoop() catches it *)
(* and offers a failed result.                                             *)
ReplayThrows(j) ==
  /\ job[j].state = "running"
  /\ Move(j, "failed")
  /\ threw' = threw \union {j}
  /\ UNCHANGED <<Client, completed>>

(* The last section of the work function, under mutex_.                    *)
Store(j) ==
  /\ job[j].state = "running"
  /\ j \notin cancelled
  /\ IF job[j].generation = generation
     THEN completed' = completed \union {j} /\ Move(j, "succeeded")
     ELSE completed' = completed /\ Move(j, "failed")
  /\ UNCHANGED <<Client, threw>>

EnterSink(j) ==
  /\ j \in Returned
  /\ SchedulerFree
  /\ j \notin cancelled
  /\ job[j].generation = sgen
  /\ Move(j, "sink")
  /\ UNCHANGED <<Client, completed, threw>>

Suppress(j) ==
  /\ j \in Returned
  /\ SchedulerFree
  /\ j \in cancelled \/ job[j].generation # sgen
  /\ Move(j, "suppressed")
  /\ UNCHANGED <<Client, completed, threw>>

(* onJobResult(): the query leaves completed_ under mutex_ ...             *)
OnJobResultLosingOthers(j) ==
  /\ job[j].state = "sink"
  /\ IF j \in completed /\ job[j].generation = generation
     THEN completed' = {} /\ Move(j, "callback")
     ELSE completed' = completed /\ Move(j, "unpublished")
  /\ UNCHANGED <<Client, threw>>

OnJobResult(j) ==
  /\ job[j].state = "sink"
  /\ IF j \in completed /\ job[j].generation = generation
     THEN completed' = completed \ {j} /\ Move(j, "callback")
     ELSE completed' = completed /\ Move(j, "unpublished")
  /\ UNCHANGED <<Client, threw>>

(* ... and the callback runs without it, under the scheduler's mutex.      *)
Callback(j) ==
  /\ job[j].state = "callback"
  /\ Move(j, "published")
  /\ UNCHANGED <<Client, completed, threw>>

-----------------------------------------------------------------------------
Calls ==
  \/ OpenCheckQueue \/ OpenCheckReserved \/ OpenReplace
  \/ SetDocumentGeneration \/ GenerationScheduler
  \/ Submit \/ SubmitScheduler
  \/ \E j \in JobIds : CancelRequest(j)
  \/ CancelErase

Pool ==
  \E j \in JobIds :
    \/ Start(j) \/ ReplayGivesUp(j) \/ ReplayThrows(j) \/ Store(j)
    \/ EnterSink(j) \/ Suppress(j) \/ OnJobResult(j) \/ Callback(j)

Next == Calls \/ Pool

Spec == Init /\ [][Next]_vars

-----------------------------------------------------------------------------
JobState ==
  {"queued", "dropped", "rejected", "running", "succeeded", "failed", "sink",
   "callback", "suppressed", "unpublished", "published"}

(* Types; a job always captured an open stream.                            *)
TypeOK ==
  /\ cpc \in {"idle", "openReserved", "openReplace", "generationScheduler",
              "submitScheduler", "cancelErase"}
  /\ stream \in Streams \union {NoStream}
  /\ generation \in 0..MaxGen
  /\ sgen \in 0..MaxGen
  /\ JobIds = 1..Cardinality(JobIds)
  /\ \A j \in JobIds : job[j] \in [state : JobState, stream : Streams,
                                   generation : 0..MaxGen]
  /\ completed \union cancelled \union reset \union threw \subseteq JobIds

(* A static replay reads stream_ through a raw pointer: open() never       *)
(* replaces the stream under a replay that is queued or running, nor under *)
(* a result on its way to the callback, although it looks at the queue and *)
(* at the reservations under separate locks (open, submit's work).         *)
StreamOutlivesReplay ==
  \A j \in Live : job[j].stream = stream

(* "In-flight work from older generations is discarded before publication" *)
(* (trace_orchestrator.h 92): between calls, a callback that runs is of    *)
(* the current generation.                                                 *)
CallbackIsCurrent ==
  cpc = "idle" =>
    \A j \in JobIds : job[j].state = "callback" => job[j].generation = generation

(* Nothing is left behind in completed_: a stored query belongs to a       *)
(* replay of the current generation that the sink will still fetch or that *)
(* cancel() is about to erase (submit's work, cancel,                      *)
(* setDocumentGeneration, onJobResult), and no callback of an older        *)
(* generation runs.                                                        *)
NothingLeftBehind ==
  /\ TypeOK
  /\ CallbackIsCurrent
  /\ \A j \in completed :
       /\ job[j].generation = generation
       /\ \/ job[j].state \in {"succeeded", "sink"}
          \/ cpc = "cancelErase" /\ arg.of = j

(* A replay that nobody cancelled, that met no change of generation and    *)
(* that did not throw is published, whatever happened to the replays       *)
(* beside it.  The exception is real: the scheduler catches what a replay  *)
(* throws (job_scheduler.cpp 135-140) and onJobResult() finds no query and *)
(* returns (trace_orchestrator.cpp 353-356), so that the callback is not   *)
(* called and whoever asked is never told; nothing is published then.      *)
ResultNotLost ==
  \A j \in JobIds :
    /\ job[j].state \in {"suppressed", "unpublished", "dropped"} =>
         j \in cancelled \union reset \union threw
    /\ j \in threw => j \notin completed /\ job[j].state # "published"
=============================================================================
