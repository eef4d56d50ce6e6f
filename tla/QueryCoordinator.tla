-------------------------- MODULE QueryCoordinator --------------------------
(***************************************************************************)
(* The scanline query coordinator: query_coordinator.h and .cpp, with the  *)
(* replay of one row from scanline_anchor.cpp.                             *)
(*                                                                         *)
(* One client thread (the GUI's) opens a document or a frame target, asks  *)
(* for rows and changes the generation; replay jobs run on the workers of  *)
(* a JobScheduler, reading the coordinator's members when they run, and    *)
(* hand their result to the sink, which updates the row under rows_mutex_  *)
(* while the scheduler's mutex is held.  The scheduler appears here as the *)
(* service of module JobService: queued and running jobs and a generation. *)
(*                                                                         *)
(* Every section under rows_mutex_ takes no other lock, so that each is a  *)
(* single action; a call of the client that takes several locks in turn is *)
(* several actions, and the workers run in between.                        *)
(***************************************************************************)
EXTENDS Naturals, FiniteSets

CONSTANTS
  Rows,         (* scanlines a client may ask for                          *)
  BigRows,      (* rows whose reservation exceeds the replay budget        *)
  Statics,      (* documents for the static open()                         *)
  Targets,      (* frame targets for the AnalysisTarget open()             *)
  WorkerCount,  (* jobs that can run at once                               *)
  MaxGen,       (* bound on document generations                           *)
  MaxJobs,      (* bound on submitted replay jobs                          *)
  NoStream,     (* null stream, no bytes                                   *)
  Mixed         (* bytes of one stream cut with the anchors of another     *)

ASSUME CoordinatorAssumption ==
  /\ BigRows \subseteq Rows
  /\ Statics \intersect Targets = {}
  /\ NoStream \notin Statics \union Targets
  /\ Mixed \notin Statics \union Targets \union {NoStream}
  /\ {WorkerCount, MaxGen, MaxJobs} \subseteq Nat

Streams == Statics \union Targets

VARIABLES
  cpc,            (* where the client is inside a call                     *)
  arg,            (* the argument of that call                             *)
  stream,         (* stream_ over source_: the static IDAT stream          *)
  target_stream,  (* target_stream_                                        *)
  anchors,        (* anchors_: the stream they index, NoStream if failed   *)
  has_index,      (* has_index_                                            *)
  generation,     (* generation_                                           *)
  rows,           (* rows_: status of each row, "indexed" when absent      *)
  unfiltered,     (* rows_: the bytes of a ready row, by their stream      *)
  sgen,           (* the scheduler's generation                            *)
  queued,         (* the scheduler's queue: <<number, row, generation>>    *)
  running,        (* jobs in workers' hands                                *)
  results,        (* running jobs whose work returned, with its outcome    *)
  delivering,     (* the job whose result is in the sink, scheduler locked *)
  jobs,           (* number of jobs submitted so far                       *)
  opened,         (* history: stream of the last successful open()         *)
  over_target     (* history: that open() was static and found a target's  *)
                  (* stream in target_stream_                              *)

members == <<stream, target_stream, anchors, has_index>>
service == <<sgen, queued, running, results, delivering, jobs>>
history == <<opened, over_target>>
vars == <<cpc, arg, members, generation, rows, unfiltered, service, history>>

NoArg == [kind |-> "none"]

Init ==
  /\ cpc = "idle"
  /\ arg = NoArg
  /\ stream = NoStream
  /\ target_stream = NoStream
  /\ anchors = NoStream
  /\ has_index = FALSE
  /\ generation = 0
  /\ rows = [r \in Rows |-> "indexed"]
  /\ unfiltered = [r \in Rows |-> NoStream]
  /\ sgen = 0
  /\ queued = {}
  /\ running = {}
  /\ results = {}
  /\ delivering = {}
  /\ jobs = 0
  /\ opened = NoStream
  /\ over_target = FALSE

SchedulerFree == delivering = {}

ClearRows ==
  /\ rows' = [r \in Rows |-> "indexed"]
  /\ unfiltered' = [r \in Rows |-> NoStream]

-----------------------------------------------------------------------------
(* open(): refuse while a row is replaying (first lock) or a job is queued *)
(* (second lock), then replace the members, clear the rows and start a     *)
(* generation.  The client opens documents and targets in any order.       *)
OpenRowsUnchecked ==
  /\ cpc = "idle"
  /\ \/ \E d \in Statics : arg' = [kind |-> "openStatic", of |-> d]
     \/ \E t \in Targets : arg' = [kind |-> "openTarget", of |-> t]
  /\ generation < MaxGen
  /\ cpc' = "openQueue"
  /\ UNCHANGED <<members, generation, rows, unfiltered, service, history>>

OpenRows ==
  /\ cpc = "idle"
  /\ \/ \E d \in Statics : arg' = [kind |-> "openStatic", of |-> d]
     \/ \E t \in Targets : arg' = [kind |-> "openTarget", of |-> t]
  /\ generation < MaxGen
  /\ \A r \in Rows : rows[r] # "replaying"
  /\ cpc' = "openQueue"
  /\ UNCHANGED <<members, generation, rows, unfiltered, service, history>>

OpenQueue ==
  /\ cpc = "openQueue"
  /\ SchedulerFree
  /\ cpc' = IF queued = {} THEN "openReplace" ELSE "idle"
  /\ UNCHANGED <<arg, members, generation, rows, unfiltered, service, history>>

(* The static open() leaves target_stream_ as it is.                       *)
ReplaceMembers(ok) ==
  /\ anchors' = IF ok THEN arg.of ELSE NoStream
  /\ IF arg.kind = "openStatic"
     THEN stream' = arg.of /\ target_stream' = target_stream
     ELSE /\ stream' = NoStream
          /\ target_stream' = IF ok THEN arg.of ELSE NoStream

OpenReplace ==
  /\ cpc = "openReplace"
  /\ \E ok \in BOOLEAN :
       /\ ReplaceMembers(ok)
       /\ cpc' = IF ok THEN "openClear" ELSE "idle"
  /\ UNCHANGED <<arg, has_index, generation, rows, unfiltered, service, history>>

OpenClearSkipped ==
  /\ cpc = "openClear"
  /\ cpc' = "openGeneration"
  /\ UNCHANGED <<rows, unfiltered>>
  /\ UNCHANGED <<arg, members, generation, service, history>>

OpenClear ==
  /\ cpc = "openClear"
  /\ ClearRows
  /\ cpc' = "openGeneration"
  /\ UNCHANGED <<arg, members, generation, service, history>>

(* The scheduler drops queued jobs of an older generation.                 *)
SchedulerGeneration(g) ==
  /\ sgen' = g
  /\ queued' = {j \in queued : j[3] >= g}
  /\ UNCHANGED <<running, results, delivering, jobs>>

OpenGeneration ==
  /\ cpc = "openGeneration"
  /\ SchedulerFree
  /\ \E g \in IF arg.kind = "openStatic" THEN {generation + 1}
            ELSE {h \in 1..MaxGen : h >= generation} :
       generation' = g /\ SchedulerGeneration(g)
  /\ has_index' = TRUE
  /\ opened' = arg.of
  /\ over_target' = (arg.kind = "openStatic" /\ target_stream # NoStream)
  /\ cpc' = "idle"
  /\ UNCHANGED <<arg, stream, target_stream, anchors, rows, unfiltered>>

-----------------------------------------------------------------------------
(* query_scanline(): mark the row under rows_mutex_, then submit without   *)
(* it.  A row that is ready or replaying is answered at once.              *)
QueryMark(r) ==
  /\ cpc = "idle"
  /\ has_index
  /\ rows[r] \in {"indexed", "error"}
  /\ jobs < MaxJobs
  /\ rows' = [rows EXCEPT ![r] = "replaying"]
  /\ arg' = [kind |-> "query", of |-> r]
  /\ cpc' = "querySubmit"
  /\ UNCHANGED <<members, generation, unfiltered, service, history>>

QuerySubmit ==
  /\ cpc = "querySubmit"
  /\ SchedulerFree
  /\ IF arg.of \in BigRows
     THEN /\ cpc' = "queryReject"
          /\ UNCHANGED <<queued, jobs>>
     ELSE /\ cpc' = "idle"
          /\ queued' = queued \union {<<jobs + 1, arg.of, generation>>}
          /\ jobs' = jobs + 1
  /\ UNCHANGED <<arg, members, generation, rows, unfiltered, sgen, running,
                 results, delivering, history>>

QueryRejectForgotten ==
  /\ cpc = "queryReject"
  /\ cpc' = "idle"
  /\ UNCHANGED rows
  /\ UNCHANGED <<arg, members, generation, unfiltered, service, history>>

QueryReject ==
  /\ cpc = "queryReject"
  /\ rows' = [rows EXCEPT ![arg.of] = "error"]
  /\ cpc' = "idle"
  /\ UNCHANGED <<arg, members, generation, unfiltered, service, history>>

-----------------------------------------------------------------------------
(* setDocumentGeneration(): the member, then the scheduler, then the rows. *)
(* Generations are those of a document session and never fall.             *)
SetGeneration ==
  /\ cpc = "idle"
  /\ \E g \in (generation + 1)..MaxGen :
       generation' = g /\ arg' = [kind |-> "setGeneration", of |-> g]
  /\ cpc' = "generationScheduler"
  /\ UNCHANGED <<members, rows, unfiltered, service, history>>

GenerationSchedulerForgotten ==
  /\ cpc = "generationScheduler"
  /\ cpc' = "generationRows"
  /\ UNCHANGED service
  /\ UNCHANGED <<arg, members, generation, rows, unfiltered, history>>

GenerationScheduler ==
  /\ cpc = "generationScheduler"
  /\ SchedulerFree
  /\ SchedulerGeneration(arg.of)
  /\ cpc' = "generationRows"
  /\ UNCHANGED <<arg, members, generation, rows, unfiltered, history>>

GenerationRowsKept ==
  /\ cpc = "generationRows"
  /\ cpc' = "idle"
  /\ UNCHANGED <<rows, unfiltered>>
  /\ UNCHANGED <<arg, members, generation, service, history>>

GenerationRows ==
  /\ cpc = "generationRows"
  /\ ClearRows
  /\ cpc' = "idle"
  /\ UNCHANGED <<arg, members, generation, service, history>>

-----------------------------------------------------------------------------
(* The worker side.                                                        *)
StartReplay(j) ==
  /\ j \in queued
  /\ SchedulerFree
  /\ Cardinality(running) < WorkerCount
  /\ queued' = queued \ {j}
  /\ running' = running \union {j}
  /\ UNCHANGED <<cpc, arg, members, generation, rows, unfiltered, sgen,
                 results, delivering, jobs, history>>

(* restore_scanline() over whatever the members are now: target_stream_    *)
(* wins over stream_, failed anchors are an error, and anchors of another  *)
(* stream cut the wrong bytes.  Any replay may also fail or throw.         *)
Restored ==
  LET s == IF target_stream # NoStream THEN target_stream ELSE stream IN
  IF anchors = NoStream THEN {NoStream}
  ELSE {NoStream, IF s = anchors THEN s ELSE Mixed}

Finished == {p[1] : p \in results}

Replay(j) ==
  /\ j \in running \ Finished
  /\ \E b \in Restored : results' = results \union {<<j, b>>}
  /\ UNCHANGED <<cpc, arg, members, generation, rows, unfiltered, sgen,
                 queued, running, delivering, jobs, history>>

(* The worker takes the scheduler's mutex: it enters the sink with the     *)
(* result of a current job and forgets that of a stale one.                *)
EnterSink(j) ==
  /\ j \in Finished
  /\ SchedulerFree
  /\ j[3] = sgen
  /\ running' = running \ {j}
  /\ delivering' = {p \in results : p[1] = j}
  /\ results' = results \ delivering'
  /\ UNCHANGED <<cpc, arg, members, generation, rows, unfiltered, sgen,
                 queued, jobs, history>>

Suppress(j) ==
  /\ j \in Finished
  /\ SchedulerFree
  /\ j[3] # sgen
  /\ running' = running \ {j}
  /\ results' = {p \in results : p[1] # j}
  /\ UNCHANGED <<cpc, arg, members, generation, rows, unfiltered, sgen,
                 queued, delivering, jobs, history>>

(* The sink updates the row and calls the status callback, all with the    *)
(* scheduler's mutex held.                                                 *)
SinkForgetsBytes(p) ==
  /\ p \in delivering
  /\ rows' = [rows EXCEPT ![p[1][2]] = IF p[2] = NoStream THEN "error" ELSE "ready"]
  /\ UNCHANGED unfiltered
  /\ delivering' = {}
  /\ UNCHANGED <<cpc, arg, members, generation, sgen, queued, running,
                 results, jobs, history>>

Sink(p) ==
  /\ p \in delivering
  /\ rows' = [rows EXCEPT ![p[1][2]] = IF p[2] = NoStream THEN "error" ELSE "ready"]
  /\ unfiltered' = [unfiltered EXCEPT ![p[1][2]] = p[2]]
  /\ delivering' = {}
  /\ UNCHANGED <<cpc, arg, members, generation, sgen, queued, running,
                 results, jobs, history>>

-----------------------------------------------------------------------------
Client ==
  \/ OpenRows \/ OpenQueue \/ OpenReplace \/ OpenClear \/ OpenGeneration
  \/ \E r \in Rows : QueryMark(r)
  \/ QuerySubmit \/ QueryReject
  \/ SetGeneration \/ GenerationScheduler \/ GenerationRows

Pool ==
  \/ \E j \in queued : StartReplay(j)
  \/ \E j \in running : Replay(j) \/ EnterSink(j) \/ Suppress(j)
  \/ \E p \in delivering : Sink(p)

Next == Client \/ Pool

Spec == Init /\ [][Next]_vars

(* A call in progress goes on; the workers of the pool are scheduled.  The *)
(* client need not start another call.                                     *)
ClientGoesOn == Client /\ cpc # "idle"

FairSpec ==
  /\ Spec
  /\ WF_vars(ClientGoesOn)
  /\ WF_vars(Pool)

-----------------------------------------------------------------------------
Status == {"indexed", "replaying", "ready", "error"}

Jobs == (1..MaxJobs) \X Rows \X (0..MaxGen)

(* Types, and exactly the ready rows carry bytes.                          *)
TypeOK ==
  /\ cpc \in {"idle", "openQueue", "openReplace", "openClear",
              "openGeneration", "querySubmit", "queryReject",
              "generationScheduler", "generationRows"}
  /\ stream \in Statics \union {NoStream}
  /\ target_stream \in Targets \union {NoStream}
  /\ {anchors, opened} \subseteq Streams \union {NoStream}
  /\ {has_index, over_target} \subseteq BOOLEAN
  /\ {generation, sgen} \subseteq 0..MaxGen
  /\ rows \in [Rows -> Status]
  /\ unfiltered \in [Rows -> Streams \union {NoStream, Mixed}]
  /\ queued \union running \subseteq Jobs
  /\ jobs \in 0..MaxJobs
  /\ \A r \in Rows : rows[r] = "ready" => unfiltered[r] # NoStream

(* What a ready row holds after the last open().                           *)
Served == IF over_target THEN Mixed ELSE opened

(* "a ready row returns kReady with its unfiltered bytes"                  *)
(* (query_coordinator.h 69-71): between calls, the bytes of a ready row    *)
(* are those of the document that was opened last, however replays of      *)
(* earlier documents ended, with one exception.  A static open() leaves    *)
(* target_stream_ as it finds it, and replays prefer it                    *)
(* (query_coordinator.cpp 71-79, 166-169): if the last open() was a static *)
(* one over a target's stream, every ready row holds bytes of the target   *)
(* cut with the anchors of the document, although the header says that     *)
(* "the static open() semantics are unchanged" (65-66).                    *)
ReadyFromOpened ==
  /\ TypeOK
  /\ cpc = "idle" => \A r \in Rows : rows[r] = "ready" => unfiltered[r] = Served

(* Between calls no row is stuck: a row shown as replaying has a job of    *)
(* the current generation queued, running or being delivered.              *)
LiveJobs == queued \union running \union {p[1] : p \in delivering}

ReplayingHasJob ==
  cpc = "idle" =>
    \A r \in Rows : rows[r] = "replaying" =>
      \E j \in LiveJobs : j[2] = r /\ j[3] = generation

(* Once setDocumentGeneration() has returned, no replay of an older        *)
(* generation changes a row, although the generation is stored in two      *)
(* places that are updated one after the other.                            *)
StaleReplayIgnored ==
  [][cpc = "idle" => \A p \in delivering : p[1][3] # generation => rows' = rows]_vars

(* Every row a client waits for is answered, or reset by a new generation. *)
QueriesAnswered ==
  \A r \in Rows : rows[r] = "replaying" ~> rows[r] # "replaying"
=============================================================================
