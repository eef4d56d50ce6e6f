---------------------- MODULE TraceOrchestrator_proofs ----------------------
(***************************************************************************)
(* For any streams, workers, generations and replays: no stream is         *)
(* replaced under a replay, nothing is left behind in completed_, and no   *)
(* result is lost but by a cancellation, a change of generation or an      *)
(* exception that the replay throws.                                       *)
(***************************************************************************)
EXTENDS TraceOrchestrator, FiniteSetTheorems, TLAPS

LiveStates == {"queued", "running", "succeeded", "failed", "sink", "callback"}

Record == [state : JobState, stream : Streams, generation : 0..MaxGen]

(* The domains, but for what is known of each job.                         *)
Typed ==
  /\ cpc \in {"idle", "openReserved", "openReplace", "generationScheduler",
              "submitScheduler", "cancelErase"}
  /\ stream \in Streams \union {NoStream}
  /\ generation \in 0..MaxGen
  /\ sgen \in 0..MaxGen
  /\ IsFiniteSet(JobIds) /\ JobIds = 1..Cardinality(JobIds)
  /\ completed \union cancelled \union reset \union threw \subseteq JobIds

(* What the client, which makes one call at a time, knows in a call.       *)
CallFine ==
  /\ cpc \in {"openReserved", "openReplace"} =>
       arg.of \in Streams /\ arg.generation \in 0..MaxGen
  /\ cpc = "openReserved" => Queued = {}
  /\ cpc = "openReplace" => Live = {}
  /\ cpc = "generationScheduler" => arg.generation = generation
  /\ cpc = "submitScheduler" =>
       arg.of = stream /\ stream \in Streams /\ arg.generation = generation
  /\ cpc = "cancelErase" => arg.of \in cancelled
  /\ cpc # "generationScheduler" => sgen = generation

(* What a replay that is not settled can rely on.                          *)
LiveFine(j) ==
  job[j].state \in LiveStates =>
    /\ job[j].stream = stream
    /\ job[j].generation <= generation
    /\ j \notin reset => job[j].generation = generation
    /\ cpc = "generationScheduler" /\ sgen # generation =>
         job[j].generation # generation

(* Where a replay is and whether its query is kept.                        *)
ResultFine(j) ==
  /\ job[j].state \in {"failed", "suppressed", "unpublished", "dropped"} =>
       j \in cancelled \union reset \union threw
  /\ job[j].state \in {"succeeded", "sink"}
       /\ j \notin cancelled \union reset \union threw => j \in completed
  /\ j \in threw =>
       /\ j \notin completed
       /\ job[j].state \in {"failed", "sink", "suppressed", "unpublished"}
  /\ job[j].state = "callback" /\ cpc # "generationScheduler" =>
       job[j].generation = generation

KeptFine(j) ==
  j \in completed =>
    /\ job[j].generation = generation
    /\ job[j].state \in {"succeeded", "sink", "suppressed"}
    /\ job[j].state = "suppressed" => j \in cancelled
    /\ j \in cancelled => cpc = "cancelErase" /\ arg.of = j

JobFine(j) == job[j] \in Record /\ LiveFine(j) /\ ResultFine(j) /\ KeptFine(j)

IInv == Typed /\ CallFine /\ \A j \in JobIds : JobFine(j)

-----------------------------------------------------------------------------
LEMMA LiveIs ==
  /\ Live = {j \in JobIds : job[j].state \in LiveStates}
  /\ Queued = {j \in JobIds : job[j].state = "queued"}
BY DEF Live, Queued, In, LiveStates

LEMMA InitLemma == Init => IInv
<1> SUFFICES ASSUME Init PROVE IInv
  OBVIOUS
<1>1. JobIds = {} /\ Cardinality({}) = 0 /\ IsFiniteSet({})
  BY FS_EmptySet DEF Init, JobIds
<1>2. Typed
  BY <1>1, OrchestratorAssumption DEF Init, Typed
<1>3. CallFine
  BY <1>1 DEF Init, CallFine
<1> QED  BY <1>1, <1>2, <1>3 DEF IInv

-----------------------------------------------------------------------------
(* A call of the client that changes no job and keeps every query: what    *)
(* must be seen is what it knows afterwards.                               *)
LEMMA ClientLemma ==
  ASSUME IInv, job' = job, UNCHANGED <<stream, generation, sgen>>,
         UNCHANGED <<reset, threw>>,
         completed' = completed, cancelled' = cancelled,
         cpc # "cancelErase", cpc' # "cancelErase",
         cpc # "generationScheduler", cpc' # "generationScheduler",
         Typed', CallFine'
  PROVE  IInv'
<1>1. JobIds' = JobIds
  BY DEF JobIds
<1>2. ASSUME NEW j \in JobIds PROVE JobFine(j)'
  BY DEF IInv, JobFine, LiveFine, ResultFine, KeptFine
<1> QED  BY <1>1, <1>2 DEF IInv

LEMMA OpenCheckQueueLemma == IInv /\ OpenCheckQueue => IInv'
<1> SUFFICES ASSUME IInv, OpenCheckQueue PROVE IInv'
  OBVIOUS
<1>1. /\ cpc = "idle" /\ cpc' = "openReserved" /\ Queued = {}
      /\ UNCHANGED <<stream, generation, completed, sgen, job, cancelled,
                     reset, threw>>
  BY DEF OpenCheckQueue, Busy, members, history
<1>2. Typed' /\ Queued' = Queued
  BY <1>1 DEF IInv, Typed, JobIds, Queued, In
<1>3. PICK s \in Streams, g \in 1..MaxGen :
        arg' = [kind |-> "open", of |-> s, generation |-> g]
  BY DEF OpenCheckQueue
<1>4. arg'.of \in Streams /\ arg'.generation \in 0..MaxGen
  BY <1>3, OrchestratorAssumption
<1>5. CallFine'
  BY <1>1, <1>2, <1>4 DEF IInv, CallFine
<1> QED  BY <1>1, <1>2, <1>5, ClientLemma

(* No job is queued since the first look; none holds a reservation now and *)
(* none is delivered: there is none.                                       *)
LEMMA OpenCheckReservedLemma == IInv /\ OpenCheckReserved => IInv'
<1> SUFFICES ASSUME IInv, OpenCheckReserved PROVE IInv'
  OBVIOUS
<1>1. /\ cpc = "openReserved" /\ cpc' \in {"openReplace", "idle"}
      /\ UNCHANGED <<arg, stream, generation, completed, sgen, job,
                     cancelled, reset, threw>>
  BY DEF OpenCheckReserved, members, history
<1>2. Typed' /\ Live' = Live
  BY <1>1 DEF IInv, Typed, JobIds, Live, In
<1>3. cpc' = "openReplace" => Live = {}
  <2> SUFFICES ASSUME cpc' = "openReplace" PROVE Live = {}
    OBVIOUS
  <2>1. Working \union Returned = {} /\ Delivering = {}
    BY DEF OpenCheckReserved, Busy, SchedulerFree
  <2>2. Queued = {}
    BY <1>1 DEF IInv, CallFine
  <2> QED  BY <2>1, <2>2 DEF Live, Working, Returned, Delivering, Queued, In
<1>4. CallFine'
  BY <1>1, <1>2, <1>3 DEF IInv, CallFine
<1> QED  BY <1>1, <1>2, <1>4, ClientLemma

(* The streams are replaced: no replay is there to read the one before.    *)
LEMMA OpenReplaceLemma == IInv /\ OpenReplace => IInv'
<1> SUFFICES ASSUME IInv, OpenReplace PROVE IInv'
  OBVIOUS
<1>1. /\ cpc = "openReplace" /\ cpc' = "generationScheduler"
      /\ stream' = arg.of /\ generation' = arg.generation
      /\ completed' = {}
      /\ UNCHANGED <<arg, sgen, job, cancelled, reset, threw>>
  BY DEF OpenReplace, history
<1>2. Live = {} /\ arg.of \in Streams /\ arg.generation \in 0..MaxGen
  BY <1>1 DEF IInv, CallFine
<1>3. Typed' /\ JobIds' = JobIds
  BY <1>1, <1>2 DEF IInv, Typed, JobIds
<1>4. CallFine'
  BY <1>1 DEF CallFine
<1>5. ASSUME NEW j \in JobIds PROVE JobFine(j)'
  <2>1. job[j].state \notin LiveStates
    BY <1>2, LiveIs
  <2>2. JobFine(j)
    BY DEF IInv
  <2> QED  BY <1>1, <2>1, <2>2 DEF JobFine, LiveFine, ResultFine, KeptFine,
                                  LiveStates
<1> QED  BY <1>3, <1>4, <1>5 DEF IInv

(* Every replay that is not settled has met the change.                    *)
LEMMA SetGenerationLemma == IInv /\ SetDocumentGeneration => IInv'
<1> SUFFICES ASSUME IInv, SetDocumentGeneration PROVE IInv'
  OBVIOUS
<1>1. /\ cpc = "idle" /\ cpc' = "generationScheduler" /\ completed' = {}
      /\ reset' = reset \union Live
      /\ UNCHANGED <<stream, sgen, job, cancelled, threw>>
  BY DEF SetDocumentGeneration
<1>2. PICK g \in NextGenerations :
        generation' = g /\ arg' = [kind |-> "generation", generation |-> g]
  BY DEF SetDocumentGeneration
<1>3. g \in 0..MaxGen /\ (g >= generation \/ Live = {}) /\ sgen = generation
  BY <1>1, OrchestratorAssumption DEF NextGenerations, IInv, CallFine
<1>4. Typed' /\ JobIds' = JobIds
  BY <1>1, <1>2, <1>3, LiveIs DEF IInv, Typed, JobIds
<1>5. CallFine'
  BY <1>1, <1>2 DEF CallFine
<1>6. ASSUME NEW j \in JobIds PROVE JobFine(j)'
  <2>1. JobFine(j) /\ job[j].generation \in 0..MaxGen
    BY DEF IInv, JobFine, Record
  <2>2. job[j] \in Record /\ KeptFine(j)'
    BY <1>1, <2>1 DEF JobFine, KeptFine
  <2>3. ResultFine(j)'
    BY <1>1, <2>1, LiveIs DEF JobFine, ResultFine, LiveStates
  <2>4. LiveFine(j)'
    <3> SUFFICES ASSUME job[j].state \in LiveStates
                 PROVE  /\ job[j].stream = stream
                        /\ job[j].generation <= g
                        /\ j \in reset'
                        /\ sgen # g => job[j].generation # g
      BY <1>1, <1>2 DEF LiveFine
    <3>1. j \in Live
      BY LiveIs
    <3>2. g >= generation /\ job[j].generation <= generation
          /\ job[j].stream = stream
      BY <1>3, <2>1, <3>1 DEF JobFine, LiveFine
    <3>3. generation \in 0..MaxGen
      BY DEF IInv, Typed
    <3> QED  BY <1>1, <1>3, <2>1, <3>1, <3>2, <3>3, OrchestratorAssumption
  <2> QED  BY <1>1, <2>2, <2>3, <2>4 DEF JobFine
<1> QED  BY <1>4, <1>5, <1>6 DEF IInv

(* The scheduler drops what is queued of an older generation, and waits    *)
(* for a delivery.                                                         *)
LEMMA GenerationSchedulerLemma == IInv /\ GenerationScheduler => IInv'
<1> SUFFICES ASSUME IInv, GenerationScheduler PROVE IInv'
  OBVIOUS
<1> DEFINE drops(j) == /\ job[j].state = "queued"
                       /\ job[j].generation < arg.generation
<1>1. /\ cpc = "generationScheduler" /\ cpc' = "idle"
      /\ sgen' = arg.generation /\ arg.generation = generation
      /\ UNCHANGED <<arg, stream, generation, completed, cancelled, reset,
                     threw>>
  BY DEF GenerationScheduler, members, history, IInv, CallFine
<1>2. /\ JobIds' = JobIds
      /\ \A j \in JobIds :
           job'[j] = IF drops(j) THEN [job[j] EXCEPT !.state = "dropped"]
                     ELSE job[j]
  BY <1>1 DEF GenerationScheduler, JobIds
<1>3. Typed'
  BY <1>1, <1>2 DEF IInv, Typed
<1>4. CallFine'
  BY <1>1 DEF CallFine
<1>5. ASSUME NEW j \in JobIds PROVE JobFine(j)'
  <2>1. JobFine(j) /\ job[j] \in Record
    BY DEF IInv, JobFine
  <2>2. job[j].state # "callback"
    BY DEF GenerationScheduler, SchedulerFree, Delivering, In
  <2>3. CASE drops(j)
    <3>1. /\ job'[j] \in Record /\ job'[j].state = "dropped"
      BY <1>2, <2>1, <2>3 DEF Record, JobState
    <3>2. j \in reset
      BY <1>1, <2>1, <2>3 DEF JobFine, LiveFine, LiveStates, Record, IInv,
                              Typed
    <3>3. j \notin completed /\ j \notin threw
      BY <2>1, <2>3 DEF JobFine, KeptFine, ResultFine
    <3> QED  BY <1>1, <3>1, <3>2, <3>3 DEF JobFine, LiveFine, ResultFine,
                                          KeptFine, LiveStates
  <2>4. CASE ~drops(j)
    <3>1. job'[j] = job[j]
      BY <1>2, <2>4
    <3> QED  BY <1>1, <2>1, <2>2, <3>1 DEF JobFine, LiveFine, ResultFine,
                                          KeptFine
  <2> QED  BY <2>3, <2>4
<1> QED  BY <1>2, <1>3, <1>4, <1>5 DEF IInv

LEMMA SubmitLemma == IInv /\ Submit => IInv'
<1> SUFFICES ASSUME IInv, Submit PROVE IInv'
  OBVIOUS
<1>1. /\ cpc = "idle" /\ cpc' = "submitScheduler" /\ stream # NoStream
      /\ arg' = [kind |-> "submit", of |-> stream, generation |-> generation]
      /\ UNCHANGED <<stream, generation, completed, sgen, job, cancelled,
                     reset, threw>>
  BY DEF Submit, members, history
<1>2. Typed'
  BY <1>1 DEF IInv, Typed, JobIds
<1>3. CallFine'
  BY <1>1 DEF IInv, CallFine, Typed
<1> QED  BY <1>1, <1>2, <1>3, ClientLemma

LEMMA SubmitSchedulerLemma == IInv /\ SubmitScheduler => IInv'
<1> SUFFICES ASSUME IInv, SubmitScheduler PROVE IInv'
  OBVIOUS
<1> DEFINE n == Cardinality(JobIds)
<1>1. /\ cpc = "submitScheduler" /\ cpc' = "idle"
      /\ arg.of = stream /\ stream \in Streams /\ arg.generation = generation
      /\ sgen = generation
      /\ UNCHANGED <<arg, stream, generation, completed, sgen, cancelled,
                     reset, threw>>
  BY DEF SubmitScheduler, members, history, IInv, CallFine
<1>2. PICK s \in {"queued", "rejected"} :
        job' = [j \in 1..n + 1 |->
                  IF j \in JobIds THEN job[j]
                  ELSE [state |-> s, stream |-> arg.of,
                        generation |-> arg.generation]]
  BY DEF SubmitScheduler
<1>3. n \in Nat /\ JobIds = 1..n
  BY FS_CardinalityType DEF IInv, Typed
<1>4. /\ JobIds' = 1..(n + 1) /\ JobIds \subseteq JobIds'
      /\ IsFiniteSet(JobIds') /\ Cardinality(JobIds') = n + 1
  <2>1. JobIds' = 1..(n + 1)
    BY <1>2 DEF JobIds
  <2>2. IsFiniteSet(1..(n + 1)) /\ Cardinality(1..(n + 1)) = n + 1
    BY <1>3, FS_Interval
  <2> QED  BY <1>3, <2>1, <2>2
<1>5. Typed'
  BY <1>1, <1>4 DEF IInv, Typed
<1>6. CallFine'
  BY <1>1 DEF CallFine
<1>7. ASSUME NEW j \in JobIds' PROVE JobFine(j)'
  <2>1. CASE j \in JobIds
    <3>1. job'[j] = job[j]
      BY <1>2, <1>4, <2>1
    <3> QED  BY <1>1, <2>1, <3>1 DEF IInv, JobFine, LiveFine, ResultFine,
                                    KeptFine
  <2>2. CASE j \notin JobIds
    <3>1. job'[j] = [state |-> s, stream |-> stream,
                     generation |-> generation]
      BY <1>1, <1>2, <1>4, <2>2
    <3>2. job'[j] \in Record /\ generation <= generation
      BY <1>1, <3>1 DEF IInv, Typed, Record, JobState
    <3>3. j \notin completed /\ j \notin threw
      BY <2>2 DEF IInv, Typed
    <3> QED  BY <1>1, <3>1, <3>2, <3>3 DEF JobFine, LiveFine, ResultFine,
                                          KeptFine
  <2> QED  BY <2>1, <2>2
<1> QED  BY <1>5, <1>6, <1>7 DEF IInv

LEMMA CancelRequestLemma ==
  ASSUME IInv, NEW k \in JobIds, CancelRequest(k)
  PROVE  IInv'
<1>1. /\ cpc = "idle" /\ cpc' = "cancelErase"
      /\ cancelled' = cancelled \union {k}
      /\ arg' = [kind |-> "cancel", of |-> k]
      /\ UNCHANGED <<stream, generation, completed, sgen, job, reset, threw>>
  BY DEF CancelRequest, members, history
<1>2. Typed' /\ JobIds' = JobIds
  BY <1>1 DEF IInv, Typed, JobIds
<1>3. CallFine'
  BY <1>1 DEF IInv, CallFine
<1>4. ASSUME NEW j \in JobIds PROVE JobFine(j)'
  BY <1>1 DEF IInv, JobFine, LiveFine, ResultFine, KeptFine
<1> QED  BY <1>2, <1>3, <1>4 DEF IInv

LEMMA CancelEraseLemma == IInv /\ CancelErase => IInv'
<1> SUFFICES ASSUME IInv, CancelErase PROVE IInv'
  OBVIOUS
<1>1. /\ cpc = "cancelErase" /\ cpc' = "idle" /\ arg.of \in cancelled
      /\ completed' = completed \ {arg.of}
      /\ UNCHANGED <<arg, stream, generation, sgen, job, cancelled, reset,
                     threw>>
  BY DEF CancelErase, history, IInv, CallFine
<1>2. Typed' /\ JobIds' = JobIds
  BY <1>1 DEF IInv, Typed, JobIds
<1>3. CallFine'
  BY <1>1 DEF IInv, CallFine
<1>4. ASSUME NEW j \in JobIds PROVE JobFine(j)'
  BY <1>1 DEF IInv, JobFine, LiveFine, ResultFine, KeptFine
<1> QED  BY <1>2, <1>3, <1>4 DEF IInv

-----------------------------------------------------------------------------
(* A step of a worker moves one job on, among those that are not settled,  *)
(* and touches the queries of no other.                                    *)
LEMMA WorkerLemma ==
  ASSUME IInv, NEW j \in JobIds, NEW s \in JobState \ {"queued"},
         job[j].state \in LiveStates,
         Move(j, s), UNCHANGED Client,
         completed' \in {completed, completed \union {j}, completed \ {j}},
         threw' \in {threw, threw \union {j}},
         LiveFine(j)', ResultFine(j)', KeptFine(j)'
  PROVE  IInv'
<1>1. /\ JobIds' = JobIds /\ job'[j] = [job[j] EXCEPT !.state = s]
      /\ \A k \in JobIds : k # j => job'[k] = job[k]
  BY DEF Move, JobIds
<1>2. UNCHANGED <<cpc, arg, stream, generation, sgen, cancelled, reset>>
  BY DEF Client
<1>3. Typed'
  BY <1>1, <1>2 DEF IInv, Typed
<1>4. job'[j] \in Record /\ job'[j].state = s
  BY <1>1 DEF IInv, JobFine, Record
<1>5. CallFine'
  <2>1. Queued' \subseteq Queued /\ Live' \subseteq Live
    <3>1. Queued' \subseteq Queued
      BY <1>1, <1>4 DEF Queued, In
    <3>2. Live' \subseteq Live
      BY <1>1 DEF Live, In, LiveStates
    <3> QED  BY <3>1, <3>2
  <2>2. cpc = "openReserved" => Queued' = {}
    BY <2>1 DEF IInv, CallFine
  <2>3. cpc = "openReplace" => Live' = {}
    BY <2>1 DEF IInv, CallFine
  <2> QED  BY <1>2, <2>2, <2>3 DEF IInv, CallFine
<1>6. ASSUME NEW k \in JobIds, k # j PROVE JobFine(k)'
  <2>1. JobFine(k) /\ job'[k] = job[k] 
        /\ (k \in completed' <=> k \in completed)
        /\ (k \in threw' <=> k \in threw)
    BY <1>1, <1>6 DEF IInv
  <2> QED  BY <1>2, <2>1 DEF JobFine, LiveFine, ResultFine, KeptFine
<1>7. JobFine(j)'
  BY <1>4 DEF JobFine
<1> QED  BY <1>1, <1>3, <1>5, <1>6, <1>7 DEF IInv

(* What a step leaves of the job that moves but its state.                 *)
LEMMA MovedLemma ==
  ASSUME IInv, NEW j \in JobIds, NEW s \in JobState, Move(j, s)
  PROVE  /\ job'[j].state = s /\ job'[j].stream = job[j].stream
         /\ job'[j].generation = job[j].generation
<1>1. job'[j] = [job[j] EXCEPT !.state = s]
  BY DEF Move, JobIds
<1>2. job[j] \in Record
  BY DEF IInv, JobFine
<1> QED  BY <1>1, <1>2 DEF Record

LEMMA StartLemma ==
  ASSUME IInv, NEW j \in JobIds, Start(j)
  PROVE  IInv'
<1>1. /\ job[j].state = "queued" /\ Move(j, "running") /\ UNCHANGED Client
      /\ completed' = completed /\ threw' = threw
  BY DEF Start
<1>2. "running" \in JobState \ {"queued"} /\ JobFine(j)
  BY DEF JobState, IInv
<1>3. LiveFine(j)' /\ ResultFine(j)' /\ KeptFine(j)'
  BY <1>1, <1>2, MovedLemma DEF JobFine, LiveFine, ResultFine, KeptFine,
                                LiveStates, Client
<1> QED  BY <1>1, <1>2, <1>3, WorkerLemma DEF LiveStates

LEMMA ReplayGivesUpLemma ==
  ASSUME IInv, NEW j \in JobIds, ReplayGivesUp(j)
  PROVE  IInv'
<1>1. /\ job[j].state = "running" /\ Move(j, "failed") /\ UNCHANGED Client
      /\ completed' = completed /\ threw' = threw /\ j \in cancelled
  BY DEF ReplayGivesUp
<1>2. "failed" \in JobState \ {"queued"} /\ JobFine(j)
  BY DEF JobState, IInv
<1>3. LiveFine(j)' /\ ResultFine(j)' /\ KeptFine(j)'
  BY <1>1, <1>2, MovedLemma DEF JobFine, LiveFine, ResultFine, KeptFine,
                                LiveStates, Client
<1> QED  BY <1>1, <1>2, <1>3, WorkerLemma DEF LiveStates

LEMMA ReplayThrowsLemma ==
  ASSUME IInv, NEW j \in JobIds, ReplayThrows(j)
  PROVE  IInv'
<1>1. /\ job[j].state = "running" /\ Move(j, "failed") /\ UNCHANGED Client
      /\ completed' = completed /\ threw' = threw \union {j}
  BY DEF ReplayThrows
<1>2. "failed" \in JobState \ {"queued"} /\ JobFine(j)
  BY DEF JobState, IInv
<1>3. LiveFine(j)' /\ ResultFine(j)' /\ KeptFine(j)'
  BY <1>1, <1>2, MovedLemma DEF JobFine, LiveFine, ResultFine, KeptFine,
                                LiveStates, Client
<1> QED  BY <1>1, <1>2, <1>3, WorkerLemma DEF LiveStates

(* A query is kept only under the present generation.                      *)
LEMMA StoreLemma ==
  ASSUME IInv, NEW j \in JobIds, Store(j)
  PROVE  IInv'
<1>1. job[j].state = "running" /\ j \notin cancelled /\ UNCHANGED Client
      /\ threw' = threw
  BY DEF Store
<1>2. {"succeeded", "failed"} \subseteq JobState \ {"queued"} /\ JobFine(j)
  BY DEF JobState, IInv
<1>3. CASE job[j].generation = generation
  <2>1. completed' = completed \union {j} /\ Move(j, "succeeded")
    BY <1>3 DEF Store
  <2>2. LiveFine(j)' /\ ResultFine(j)' /\ KeptFine(j)'
    BY <1>1, <1>2, <1>3, <2>1, MovedLemma
       DEF JobFine, LiveFine, ResultFine, KeptFine, LiveStates, Client
  <2> QED  BY <1>1, <1>2, <2>1, <2>2, WorkerLemma DEF LiveStates
<1>4. CASE job[j].generation # generation
  <2>1. completed' = completed /\ Move(j, "failed")
    BY <1>4 DEF Store
  <2>2. LiveFine(j)' /\ ResultFine(j)' /\ KeptFine(j)'
    BY <1>1, <1>2, <1>4, <2>1, MovedLemma
       DEF JobFine, LiveFine, ResultFine, KeptFine, LiveStates, Client
  <2> QED  BY <1>1, <1>2, <2>1, <2>2, WorkerLemma DEF LiveStates
<1> QED  BY <1>3, <1>4

LEMMA ReturnedIs ==
  ASSUME NEW j \in Returned
  PROVE  j \in JobIds /\ job[j].state \in {"succeeded", "failed"}
BY DEF Returned, In

LEMMA EnterSinkLemma ==
  ASSUME IInv, NEW j \in JobIds, EnterSink(j)
  PROVE  IInv'
<1>1. /\ j \in Returned /\ Move(j, "sink") /\ UNCHANGED Client
      /\ completed' = completed /\ threw' = threw
  BY DEF EnterSink
<1>2. "sink" \in JobState \ {"queued"} /\ JobFine(j)
  BY DEF JobState, IInv
<1>3. job[j].state \in {"succeeded", "failed"}
  BY <1>1, ReturnedIs
<1>4. LiveFine(j)' /\ ResultFine(j)' /\ KeptFine(j)'
  BY <1>1, <1>2, <1>3, MovedLemma DEF JobFine, LiveFine, ResultFine,
                                      KeptFine, LiveStates, Client
<1> QED  BY <1>1, <1>2, <1>3, <1>4, WorkerLemma DEF LiveStates

(* A result of another generation than the scheduler's is of another than  *)
(* the orchestrator's too, although the two are written one after the      *)
(* other: it has no query that is kept.                                    *)
LEMMA SuppressLemma ==
  ASSUME IInv, NEW j \in JobIds, Suppress(j)
  PROVE  IInv'
<1>1. /\ j \in Returned /\ Move(j, "suppressed") /\ UNCHANGED Client
      /\ completed' = completed /\ threw' = threw
      /\ j \in cancelled \/ job[j].generation # sgen
  BY DEF Suppress
<1>2. "suppressed" \in JobState \ {"queued"} /\ JobFine(j)
  BY DEF JobState, IInv
<1>3. job[j].state \in {"succeeded", "failed"}
  BY <1>1, ReturnedIs
<1>4. j \in cancelled \/ (j \in reset /\ j \notin completed)
  <2> SUFFICES ASSUME job[j].generation # sgen
               PROVE  job[j].generation # generation
    BY <1>1, <1>2, <1>3 DEF JobFine, LiveFine, KeptFine, LiveStates
  <2> QED  BY <1>2, <1>3 DEF IInv, CallFine, JobFine, LiveFine, LiveStates
<1>5. LiveFine(j)' /\ ResultFine(j)' /\ KeptFine(j)'
  BY <1>1, <1>2, <1>3, <1>4, MovedLemma DEF JobFine, LiveFine, ResultFine,
                                            KeptFine, LiveStates, Client
<1> QED  BY <1>1, <1>2, <1>3, <1>5, WorkerLemma DEF LiveStates

LEMMA OnJobResultLemma ==
  ASSUME IInv, NEW j \in JobIds, OnJobResult(j)
  PROVE  IInv'
<1>1. job[j].state = "sink" /\ UNCHANGED Client /\ threw' = threw
  BY DEF OnJobResult
<1>2. /\ {"callback", "unpublished"} \subseteq JobState \ {"queued"}
      /\ JobFine(j)
  BY DEF JobState, IInv
<1>3. CASE j \in completed /\ job[j].generation = generation
  <2>1. completed' = completed \ {j} /\ Move(j, "callback")
    BY <1>3 DEF OnJobResult
  <2>2. LiveFine(j)' /\ ResultFine(j)' /\ KeptFine(j)'
    BY <1>1, <1>2, <1>3, <2>1, MovedLemma
       DEF JobFine, LiveFine, ResultFine, KeptFine, LiveStates, Client
  <2> QED  BY <1>1, <1>2, <2>1, <2>2, WorkerLemma DEF LiveStates
<1>4. CASE ~(j \in completed /\ job[j].generation = generation)
  <2>1. completed' = completed /\ Move(j, "unpublished")
    BY <1>4 DEF OnJobResult
  <2>2. j \in cancelled \union reset \union threw /\ j \notin completed
    BY <1>1, <1>2, <1>4 DEF JobFine, LiveFine, ResultFine, KeptFine,
                            LiveStates
  <2>3. LiveFine(j)' /\ ResultFine(j)' /\ KeptFine(j)'
    BY <1>1, <1>2, <2>1, <2>2, MovedLemma
       DEF JobFine, LiveFine, ResultFine, KeptFine, LiveStates, Client
  <2> QED  BY <1>1, <1>2, <2>1, <2>3, WorkerLemma DEF LiveStates
<1> QED  BY <1>3, <1>4

LEMMA CallbackLemma ==
  ASSUME IInv, NEW j \in JobIds, Callback(j)
  PROVE  IInv'
<1>1. /\ job[j].state = "callback" /\ Move(j, "published")
      /\ UNCHANGED Client /\ completed' = completed /\ threw' = threw
  BY DEF Callback
<1>2. "published" \in JobState \ {"queued"} /\ JobFine(j)
  BY DEF JobState, IInv
<1>3. LiveFine(j)' /\ ResultFine(j)' /\ KeptFine(j)'
  BY <1>1, <1>2, MovedLemma DEF JobFine, LiveFine, ResultFine, KeptFine,
                                LiveStates, Client
<1> QED  BY <1>1, <1>2, <1>3, WorkerLemma DEF LiveStates

-----------------------------------------------------------------------------
LEMMA NextLemma == IInv /\ [Next]_vars => IInv'
<1> SUFFICES ASSUME IInv, [Next]_vars PROVE IInv'
  OBVIOUS
<1>1. CASE Calls
  BY <1>1, OpenCheckQueueLemma, OpenCheckReservedLemma, OpenReplaceLemma,
     SetGenerationLemma, GenerationSchedulerLemma, SubmitLemma,
     SubmitSchedulerLemma, CancelRequestLemma, CancelEraseLemma DEF Calls
<1>2. CASE Pool
  BY <1>2, StartLemma, ReplayGivesUpLemma, ReplayThrowsLemma, StoreLemma,
     EnterSinkLemma, SuppressLemma, OnJobResultLemma, CallbackLemma DEF Pool
<1>3. CASE UNCHANGED vars
  BY <1>3
     DEF vars, members, history, IInv, Typed, CallFine, JobFine, LiveFine,
         ResultFine, KeptFine, JobIds, Queued, Live, In
<1> QED  BY <1>1, <1>2, <1>3 DEF Next

LEMMA InvLemma == Spec => []IInv
BY InitLemma, NextLemma, PTL DEF Spec

(* A replay reads the stream through a raw pointer: no open() replaces it  *)
(* before the replay is settled, although the queue and the reservations   *)
(* are looked at under separate locks (open(), submit()'s work).           *)
THEOREM StreamTheorem == Spec => []StreamOutlivesReplay
<1>1. IInv => StreamOutlivesReplay
  BY LiveIs DEF IInv, JobFine, LiveFine, StreamOutlivesReplay
<1> QED  BY <1>1, InvLemma, PTL

(* A query is kept only for a replay of the present generation that the    *)
(* sink will fetch or cancel() is about to erase, and between calls no     *)
(* callback of an older generation runs (completed_, onJobResult()).       *)
THEOREM KeptTheorem == Spec => []NothingLeftBehind
<1>1. IInv => NothingLeftBehind
  <2> SUFFICES ASSUME IInv PROVE NothingLeftBehind
    OBVIOUS
  <2>1. TypeOK
    BY DEF IInv, Typed, JobFine, Record, TypeOK
  <2>2. CallbackIsCurrent
    BY DEF IInv, JobFine, ResultFine, CallbackIsCurrent
  <2>3. ASSUME NEW j \in completed
        PROVE  /\ job[j].generation = generation
               /\ \/ job[j].state \in {"succeeded", "sink"}
                  \/ cpc = "cancelErase" /\ arg.of = j
    <3>1. j \in JobIds
      BY DEF IInv, Typed
    <3> QED  BY <3>1 DEF IInv, JobFine, KeptFine
  <2> QED  BY <2>1, <2>2, <2>3 DEF NothingLeftBehind
<1> QED  BY <1>1, InvLemma, PTL

(* Nobody's result is lost to what happens beside it: a replay that is not *)
(* published was cancelled, met a change of generation or threw, and what  *)
(* a replay that threw asked for is never published (onJobResult()).       *)
THEOREM ResultTheorem == Spec => []ResultNotLost
<1>1. IInv => ResultNotLost
  BY DEF IInv, JobFine, ResultFine, ResultNotLost
<1> QED  BY <1>1, InvLemma, PTL
=============================================================================
