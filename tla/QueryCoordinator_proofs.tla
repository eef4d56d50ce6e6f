---------------------- MODULE QueryCoordinator_proofs -----------------------
(***************************************************************************)
(* Proofs about QueryCoordinator, for any rows, documents and frame        *)
(* targets, any number of workers and any bounds.                          *)
(*                                                                         *)
(* The argument follows the current jobs, those of the scheduler's         *)
(* generation: at most one for each row, that row is shown as replaying,   *)
(* and there is none while open() replaces the members.  What a current    *)
(* job restores is therefore cut from the document opened last; what any   *)
(* other job restores is thrown away.                                      *)
(***************************************************************************)
EXTENDS QueryCoordinator, TLAPS

Opening == {"openQueue", "openReplace", "openClear", "openGeneration"}

Asking == {"querySubmit", "queryReject"}

Bytes == Streams \union {NoStream, Mixed}

(* What the argument of the call in progress is.                           *)
ArgKnown ==
  /\ cpc \in Opening =>
       /\ generation < MaxGen
       /\ \/ arg.kind = "openStatic" /\ arg.of \in Statics
          \/ arg.kind = "openTarget" /\ arg.of \in Targets
  /\ cpc \in Asking => arg.of \in Rows
  /\ cpc = "querySubmit" => jobs < MaxJobs
  /\ cpc = "generationScheduler" => arg.of = generation /\ sgen < generation

(* The two copies of the generation.                                       *)
Generations == cpc # "generationScheduler" => sgen = generation

(* Results belong to running jobs; a delivery hands over one job, which    *)
(* is in nobody's hands any more, and its generation is the scheduler's.   *)
JobsApart ==
  /\ results \union delivering \subseteq Jobs \X Bytes
  /\ queued \intersect running = {}
  /\ \A j \in queued \union running : j[3] <= sgen
  /\ \A p \in results : p[1] \in running
  /\ \A p \in delivering : p[1] \notin queued \union running /\ p[1][3] = sgen
  /\ \A p, q \in delivering : p[1] = q[1]

CurrentJobs == {j \in LiveJobs : j[3] = sgen}

(* The rows shown as replaying are those of the current jobs and the one   *)
(* being asked for.                                                        *)
RowsFollowJobs ==
  /\ \A j, k \in CurrentJobs : j[2] = k[2] => j = k
  /\ \A j \in CurrentJobs : rows[j[2]] = "replaying"
  /\ cpc \in Opening => \A r \in Rows : rows[r] # "replaying"
  /\ cpc = "generationRows" => CurrentJobs = {}
  /\ cpc \in Asking => /\ rows[arg.of] = "replaying"
                       /\ \A j \in CurrentJobs : j[2] # arg.of
  /\ cpc # "generationRows" =>
       \A r \in Rows : rows[r] = "replaying" =>
         \/ cpc \in Asking /\ arg.of = r
         \/ \E j \in CurrentJobs : j[2] = r

(* The stream restore_scanline() reads, and the stream of its anchors.     *)
Source == IF target_stream # NoStream THEN target_stream ELSE stream

(* With good anchors, what a replay cuts is what the last open() promises, *)
(* or will promise once its generation has begun.                          *)
Cut == IF Source = anchors THEN Source ELSE Mixed

MembersAgree ==
  IF cpc \in {"openClear", "openGeneration"}
  THEN /\ anchors = arg.of
       /\ arg.kind = "openStatic" => stream = arg.of
       /\ arg.kind = "openTarget" => target_stream = arg.of
  ELSE anchors # NoStream => anchors = opened /\ Cut = Served

(* Bytes on their way to a row, and bytes shown, are those the last open() *)
(* promises; between the clearing of the rows and the new generation    *)
(* there are none.                                                         *)
BytesFromOpened ==
  /\ \A p \in results \union delivering :
       p[1][3] = sgen => p[2] \in {NoStream, Served}
  /\ \A r \in Rows : rows[r] = "ready" => unfiltered[r] = Served
  /\ cpc = "openGeneration" => \A r \in Rows : rows[r] # "ready"

CoordinatorInv ==
  /\ TypeOK
  /\ ArgKnown
  /\ Generations
  /\ JobsApart
  /\ RowsFollowJobs
  /\ MembersAgree
  /\ BytesFromOpened

(***************************************************************************)
(* The current jobs.                                                       *)
(***************************************************************************)
LEMMA LiveTyped ==
  ASSUME CoordinatorInv
  PROVE  LiveJobs \subseteq Jobs
BY DEF CoordinatorInv, TypeOK, JobsApart, LiveJobs

(* open() has found no row replaying, so that no result is under way.      *)
LEMMA NoneWhileOpening ==
  ASSUME CoordinatorInv, cpc \in Opening
  PROVE  CurrentJobs = {}
BY LiveTyped DEF CoordinatorInv, RowsFollowJobs, CurrentJobs, Jobs

LEMMA CoordinatorInit == Init => CoordinatorInv
<1> SUFFICES ASSUME Init PROVE CoordinatorInv
  OBVIOUS
<1>1. TypeOK
  <2>1. MaxGen \in Nat /\ MaxJobs \in Nat
    BY CoordinatorAssumption
  <2>2. /\ stream \in Statics \union {NoStream}
        /\ target_stream \in Targets \union {NoStream}
        /\ {anchors, opened} \subseteq Streams \union {NoStream}
    BY DEF Init
  <2>3. {generation, sgen} \subseteq 0..MaxGen /\ jobs \in 0..MaxJobs
    BY <2>1 DEF Init
  <2>4. QED
    BY <2>2, <2>3 DEF Init, TypeOK, Status
<1>2. LiveJobs = {}
  BY DEF Init, LiveJobs
<1>3. RowsFollowJobs
  BY <1>2 DEF Init, RowsFollowJobs, CurrentJobs, Asking
<1>4. JobsApart /\ MembersAgree /\ BytesFromOpened
  BY DEF Init, JobsApart, MembersAgree, BytesFromOpened, Served
<1>5. ArgKnown /\ Generations
  BY DEF Init, ArgKnown, Generations, Opening, Asking
<1>6. QED
  BY <1>1, <1>3, <1>4, <1>5 DEF CoordinatorInv


LEMMA OpenRowsKeeps ==
  ASSUME CoordinatorInv, OpenRows
  PROVE  CoordinatorInv'
<1> USE CoordinatorAssumption
<1>1. TypeOK'
  BY DEF TypeOK, history, CoordinatorInv, OpenRows, members, service
<1>2. ArgKnown' /\ Generations'
  BY DEF ArgKnown, Asking, Generations, CoordinatorInv, OpenRows,
         members, service
<1>3. JobsApart'
  BY DEF JobsApart, CoordinatorInv, OpenRows, service
<1>4. RowsFollowJobs'
  BY DEF RowsFollowJobs, CurrentJobs, LiveJobs, Asking, CoordinatorInv,
         OpenRows, service
<1>5. MembersAgree'
  BY DEF MembersAgree, Cut, Source, Served, history, CoordinatorInv, OpenRows,
         members
<1>6. BytesFromOpened'
  BY DEF BytesFromOpened, Served, history, CoordinatorInv, OpenRows, service
<1>7. QED
  BY <1>1, <1>2, <1>3, <1>4, <1>5, <1>6 DEF CoordinatorInv

LEMMA OpenQueueKeeps ==
  ASSUME CoordinatorInv, OpenQueue
  PROVE  CoordinatorInv'
<1> USE CoordinatorAssumption
<1>1. TypeOK'
  BY DEF TypeOK, history, CoordinatorInv, OpenQueue, members, service
<1>2. ArgKnown' /\ Generations'
  BY DEF ArgKnown, Opening, Asking, Generations, CoordinatorInv, OpenQueue,
         members, service
<1>3. JobsApart'
  BY DEF JobsApart, CoordinatorInv, OpenQueue, service
<1>4. RowsFollowJobs'
  BY DEF RowsFollowJobs, CurrentJobs, LiveJobs, Opening, Asking,
         CoordinatorInv, OpenQueue, service
<1>5. MembersAgree'
  BY DEF MembersAgree, Cut, Source, Served, history, CoordinatorInv,
         OpenQueue, members
<1>6. BytesFromOpened'
  BY DEF BytesFromOpened, Served, history, CoordinatorInv, OpenQueue, service
<1>7. QED
  BY <1>1, <1>2, <1>3, <1>4, <1>5, <1>6 DEF CoordinatorInv

LEMMA OpenReplaceKeeps ==
  ASSUME CoordinatorInv, OpenReplace
  PROVE  CoordinatorInv'
<1> USE CoordinatorAssumption
<1>1. TypeOK'
  BY DEF TypeOK, history, Streams, CoordinatorInv, OpenReplace,
         ReplaceMembers, service, ArgKnown, Opening
<1>2. ArgKnown' /\ Generations'
  BY DEF ArgKnown, Opening, Asking, Generations, CoordinatorInv, OpenReplace,
         ReplaceMembers, service
<1>3. JobsApart'
  BY DEF JobsApart, CoordinatorInv, OpenReplace, service
<1>4. RowsFollowJobs'
  BY DEF RowsFollowJobs, CurrentJobs, LiveJobs, Opening, Asking,
         CoordinatorInv, OpenReplace, service
<1>5. MembersAgree'
  BY DEF MembersAgree, Cut, Source, Served, history, ArgKnown, Opening,
         CoordinatorInv, OpenReplace, ReplaceMembers
<1>6. BytesFromOpened'
  BY DEF BytesFromOpened, Served, history, CoordinatorInv, OpenReplace,
         service
<1>7. QED
  BY <1>1, <1>2, <1>3, <1>4, <1>5, <1>6 DEF CoordinatorInv

LEMMA OpenClearKeeps ==
  ASSUME CoordinatorInv, OpenClear
  PROVE  CoordinatorInv'
<1> USE CoordinatorAssumption
<1>1. TypeOK'
  BY DEF TypeOK, history, Status, CoordinatorInv, OpenClear, ClearRows,
         members, service
<1>2. ArgKnown' /\ Generations'
  BY DEF ArgKnown, Opening, Asking, Generations, CoordinatorInv, OpenClear,
         members, service
<1>3. JobsApart'
  BY DEF JobsApart, CoordinatorInv, OpenClear, service
<1>4. RowsFollowJobs'
  <2>1. cpc \in Opening /\ CurrentJobs' = CurrentJobs /\ cpc' = "openGeneration"
    BY DEF OpenClear, Opening, CurrentJobs, LiveJobs, service
  <2>2. CurrentJobs' = {}
    BY <2>1, NoneWhileOpening
  <2>3. QED
    BY <2>1, <2>2 DEF OpenClear, ClearRows, RowsFollowJobs, Asking
<1>5. MembersAgree'
  BY DEF MembersAgree, Cut, Source, Served, history, CoordinatorInv,
         OpenClear, members
<1>6. BytesFromOpened'
  BY DEF BytesFromOpened, Served, history, CoordinatorInv, OpenClear,
         ClearRows, service
<1>7. QED
  BY <1>1, <1>2, <1>3, <1>4, <1>5, <1>6 DEF CoordinatorInv

LEMMA OpenGenerationKeeps ==
  ASSUME CoordinatorInv, OpenGeneration
  PROVE  CoordinatorInv'
<1> USE CoordinatorAssumption
<1>1. TypeOK'
  BY DEF TypeOK, history, Streams, CoordinatorInv, OpenGeneration,
         SchedulerGeneration, ArgKnown, Opening
<1>2. ArgKnown' /\ Generations'
  BY DEF ArgKnown, Opening, Asking, Generations, OpenGeneration,
         SchedulerGeneration
<1>3. JobsApart'
  BY DEF JobsApart, Generations, TypeOK, Jobs, CoordinatorInv, OpenGeneration,
         SchedulerGeneration, SchedulerFree
<1>4. RowsFollowJobs'
  BY DEF RowsFollowJobs, TypeOK, JobsApart, CurrentJobs, LiveJobs, Opening,
         Asking, Generations, CoordinatorInv, OpenGeneration,
         SchedulerGeneration
<1>5. MembersAgree'
  <2>1. /\ \/ arg.kind = "openStatic" /\ arg.of \in Statics
              /\ stream = arg.of
           \/ arg.kind = "openTarget" /\ arg.of \in Targets
              /\ target_stream = arg.of
        /\ anchors = arg.of /\ target_stream \in Targets \union {NoStream}
    BY DEF CoordinatorInv, TypeOK, ArgKnown, MembersAgree, Opening,
           OpenGeneration
  <2>2. /\ UNCHANGED <<stream, target_stream, anchors>>
        /\ opened' = arg.of /\ cpc' = "idle"
        /\ over_target' = (arg.kind = "openStatic" /\ target_stream # NoStream)
    BY DEF OpenGeneration
  <2>3. CASE arg.kind = "openTarget"
    BY <2>1, <2>2, <2>3 DEF MembersAgree, Cut, Source, Served
  <2>4. CASE arg.kind = "openStatic" /\ target_stream = NoStream
    BY <2>1, <2>2, <2>4 DEF MembersAgree, Cut, Source, Served
  <2>5. CASE arg.kind = "openStatic" /\ target_stream # NoStream
    <3>1. Source # anchors
      BY <2>1, <2>5 DEF Source
    <3>2. Cut' = Mixed /\ Served' = Mixed
      BY <2>2, <2>5, <3>1 DEF Cut, Source, Served
    <3>3. QED
      BY <2>1, <2>2, <3>2 DEF MembersAgree
  <2>6. QED
    BY <2>1, <2>3, <2>4, <2>5
<1>6. BytesFromOpened'
  <2>1. /\ CurrentJobs = {} /\ delivering = {} /\ delivering' = {}
        /\ results' = results /\ rows' = rows /\ cpc = "openGeneration"
        /\ cpc' = "idle" /\ sgen <= sgen'
    BY NoneWhileOpening
       DEF OpenGeneration, SchedulerGeneration, SchedulerFree, Opening,
           CoordinatorInv, TypeOK, Generations
  <2>2. ASSUME NEW p \in results, p[1][3] = sgen'
        PROVE  FALSE
    <3>1. p[1] \in running /\ p[1][3] <= sgen /\ p[1][3] \in Nat /\ sgen \in Nat
      BY <2>2 DEF CoordinatorInv, JobsApart, TypeOK, Jobs
    <3>2. p[1] \in CurrentJobs
      BY <2>1, <2>2, <3>1 DEF CurrentJobs, LiveJobs
    <3>3. QED
      BY <2>1, <3>2
  <2>3. QED
    BY <2>1, <2>2 DEF CoordinatorInv, BytesFromOpened
<1>7. QED
  BY <1>1, <1>2, <1>3, <1>4, <1>5, <1>6 DEF CoordinatorInv

LEMMA QueryMarkKeeps ==
  ASSUME CoordinatorInv, NEW r \in Rows, QueryMark(r)
  PROVE  CoordinatorInv'
<1> USE CoordinatorAssumption
<1>1. TypeOK'
  BY DEF TypeOK, history, Status, CoordinatorInv, QueryMark, members, service
<1>2. ArgKnown' /\ Generations'
  BY DEF ArgKnown, Opening, Generations, CoordinatorInv, QueryMark, service
<1>3. JobsApart'
  BY DEF JobsApart, CoordinatorInv, QueryMark, service
<1>4. RowsFollowJobs'
  BY DEF RowsFollowJobs, TypeOK, CurrentJobs, LiveJobs, Opening, Asking,
         CoordinatorInv, QueryMark, service
<1>5. MembersAgree'
  BY DEF MembersAgree, Cut, Source, Served, history, CoordinatorInv,
         QueryMark, members
<1>6. BytesFromOpened'
  BY DEF BytesFromOpened, Served, history, CoordinatorInv, QueryMark, service
<1>7. QED
  BY <1>1, <1>2, <1>3, <1>4, <1>5, <1>6 DEF CoordinatorInv

LEMMA QuerySubmitKeeps ==
  ASSUME CoordinatorInv, QuerySubmit
  PROVE  CoordinatorInv'
<1> USE CoordinatorAssumption
<1>1. TypeOK'
  BY DEF TypeOK, history, Jobs, CoordinatorInv, QuerySubmit, members,
         ArgKnown, Asking
<1>2. ArgKnown' /\ Generations'
  BY DEF ArgKnown, Opening, Asking, Generations, CoordinatorInv, QuerySubmit
<1>3. JobsApart'
  BY DEF JobsApart, Generations, TypeOK, RowsFollowJobs, CurrentJobs,
         LiveJobs, Asking, CoordinatorInv, QuerySubmit
<1>4. RowsFollowJobs'
  <2>1. CASE arg.of \in BigRows
    BY <2>1
       DEF QuerySubmit, CoordinatorInv, RowsFollowJobs, CurrentJobs, LiveJobs,
           Opening, Asking
  <2>2. CASE arg.of \notin BigRows
    <3>1. PICK new : CurrentJobs' = CurrentJobs \union {new} /\ new[2] = arg.of
      <4> DEFINE n == <<jobs + 1, arg.of, generation>>
      <4>1. CurrentJobs' = CurrentJobs \union {n} /\ n[2] = arg.of
        BY <2>2
           DEF QuerySubmit, CurrentJobs, LiveJobs, CoordinatorInv, Generations
      <4>2. QED
        BY <4>1
    <3>2. cpc \in Asking /\ cpc' = "idle" /\ rows' = rows
      BY <2>2 DEF QuerySubmit, Asking
    <3>3. QED
      BY <3>1, <3>2 DEF CoordinatorInv, RowsFollowJobs, Opening, Asking
  <2>3. QED
    BY <2>1, <2>2
<1>5. MembersAgree'
  BY DEF MembersAgree, Cut, Source, Served, history, CoordinatorInv,
         QuerySubmit, members
<1>6. BytesFromOpened'
  BY DEF BytesFromOpened, Served, history, CoordinatorInv, QuerySubmit
<1>7. QED
  BY <1>1, <1>2, <1>3, <1>4, <1>5, <1>6 DEF CoordinatorInv

LEMMA QueryRejectKeeps ==
  ASSUME CoordinatorInv, QueryReject
  PROVE  CoordinatorInv'
<1> USE CoordinatorAssumption
<1>1. TypeOK'
  BY DEF TypeOK, history, Streams, Status, Jobs, Bytes, CoordinatorInv,
         QueryReject, SchedulerFree, members, service
<1>2. ArgKnown' /\ Generations'
  BY DEF ArgKnown, Opening, Asking, Generations, CoordinatorInv, QueryReject,
         service
<1>3. JobsApart'
  BY DEF JobsApart, CoordinatorInv, QueryReject, service
<1>4. RowsFollowJobs'
  BY DEF RowsFollowJobs, TypeOK, CurrentJobs, LiveJobs, Opening, Asking,
         CoordinatorInv, QueryReject, service
<1>5. MembersAgree'
  BY DEF MembersAgree, Cut, Source, Served, history, CoordinatorInv,
         QueryReject, members
<1>6. BytesFromOpened'
  BY DEF BytesFromOpened, Served, history, CoordinatorInv, QueryReject,
         service
<1>7. QED
  BY <1>1, <1>2, <1>3, <1>4, <1>5, <1>6 DEF CoordinatorInv

LEMMA SetGenerationKeeps ==
  ASSUME CoordinatorInv, SetGeneration
  PROVE  CoordinatorInv'
<1> USE CoordinatorAssumption
<1>1. TypeOK'
  BY DEF TypeOK, history, CoordinatorInv, SetGeneration, members, service
<1>2. ArgKnown' /\ Generations'
  BY CoordinatorAssumption
     DEF SetGeneration, CoordinatorInv, ArgKnown, Generations, TypeOK,
         Opening, Asking, service
<1>3. JobsApart'
  BY DEF JobsApart, CoordinatorInv, SetGeneration, service
<1>4. RowsFollowJobs'
  BY DEF RowsFollowJobs, CurrentJobs, LiveJobs, Opening, Asking,
         CoordinatorInv, SetGeneration, service
<1>5. MembersAgree'
  BY DEF MembersAgree, Cut, Source, Served, history, CoordinatorInv,
         SetGeneration, members
<1>6. BytesFromOpened'
  BY DEF BytesFromOpened, Served, history, CoordinatorInv, SetGeneration,
         service
<1>7. QED
  BY <1>1, <1>2, <1>3, <1>4, <1>5, <1>6 DEF CoordinatorInv

LEMMA GenerationSchedulerKeeps ==
  ASSUME CoordinatorInv, GenerationScheduler
  PROVE  CoordinatorInv'
<1> USE CoordinatorAssumption
<1>1. TypeOK'
  BY DEF TypeOK, history, CoordinatorInv, GenerationScheduler,
         SchedulerGeneration, members, ArgKnown
<1>2. ArgKnown' /\ Generations'
  BY DEF ArgKnown, Opening, Asking, Generations, CoordinatorInv,
         GenerationScheduler, SchedulerGeneration
<1>3. JobsApart'
  BY DEF JobsApart, TypeOK, ArgKnown, Jobs, CoordinatorInv,
         GenerationScheduler, SchedulerGeneration, SchedulerFree
<1>4. RowsFollowJobs'
  BY DEF RowsFollowJobs, TypeOK, JobsApart, CurrentJobs, LiveJobs, Opening,
         Asking, ArgKnown, CoordinatorInv, GenerationScheduler,
         SchedulerGeneration
<1>5. MembersAgree'
  BY DEF MembersAgree, Cut, Source, Served, history, CoordinatorInv,
         GenerationScheduler, members
<1>6. BytesFromOpened'
  BY DEF BytesFromOpened, Served, history, JobsApart, ArgKnown, TypeOK,
         CoordinatorInv, GenerationScheduler, SchedulerGeneration
<1>7. QED
  BY <1>1, <1>2, <1>3, <1>4, <1>5, <1>6 DEF CoordinatorInv

LEMMA GenerationRowsKeeps ==
  ASSUME CoordinatorInv, GenerationRows
  PROVE  CoordinatorInv'
<1> USE CoordinatorAssumption
<1>1. TypeOK'
  BY DEF TypeOK, history, Status, CoordinatorInv, GenerationRows, ClearRows,
         members, service
<1>2. ArgKnown' /\ Generations'
  BY DEF ArgKnown, Opening, Asking, Generations, CoordinatorInv,
         GenerationRows, service
<1>3. JobsApart'
  BY DEF JobsApart, CoordinatorInv, GenerationRows, service
<1>4. RowsFollowJobs'
  BY DEF RowsFollowJobs, CurrentJobs, LiveJobs, Asking, CoordinatorInv,
         GenerationRows, ClearRows, service
<1>5. MembersAgree'
  BY DEF MembersAgree, Cut, Source, Served, history, CoordinatorInv,
         GenerationRows, members
<1>6. BytesFromOpened'
  BY DEF BytesFromOpened, Served, history, CoordinatorInv, GenerationRows,
         ClearRows, service
<1>7. QED
  BY <1>1, <1>2, <1>3, <1>4, <1>5, <1>6 DEF CoordinatorInv

LEMMA StartReplayKeeps ==
  ASSUME CoordinatorInv, NEW j \in queued, StartReplay(j)
  PROVE  CoordinatorInv'
<1> USE CoordinatorAssumption
<1>1. TypeOK'
  BY DEF TypeOK, history, CoordinatorInv, StartReplay, members
<1>2. ArgKnown' /\ Generations'
  BY DEF ArgKnown, Generations, CoordinatorInv, StartReplay, members
<1>3. JobsApart'
  BY DEF JobsApart, CoordinatorInv, StartReplay
<1>4. RowsFollowJobs'
  BY DEF RowsFollowJobs, CurrentJobs, LiveJobs, CoordinatorInv, StartReplay
<1>5. MembersAgree'
  BY DEF MembersAgree, Cut, Source, Served, history, CoordinatorInv,
         StartReplay, members
<1>6. BytesFromOpened'
  BY DEF BytesFromOpened, Served, history, CoordinatorInv, StartReplay
<1>7. QED
  BY <1>1, <1>2, <1>3, <1>4, <1>5, <1>6 DEF CoordinatorInv

LEMMA ReplayKeeps ==
  ASSUME CoordinatorInv, NEW j \in running, Replay(j)
  PROVE  CoordinatorInv'
<1> USE CoordinatorAssumption
<1>1. TypeOK'
  BY DEF TypeOK, history, CoordinatorInv, Replay, members
<1>2. ArgKnown' /\ Generations'
  BY DEF ArgKnown, Generations, CoordinatorInv, Replay, members
<1>3. JobsApart'
  BY DEF JobsApart, TypeOK, CoordinatorInv, Replay, Restored, Bytes
<1>4. RowsFollowJobs'
  BY DEF RowsFollowJobs, CurrentJobs, LiveJobs, CoordinatorInv, Replay
<1>5. MembersAgree'
  BY DEF MembersAgree, Cut, Source, Served, history, CoordinatorInv, Replay,
         members
<1>6. BytesFromOpened'
  <2>1. PICK b \in Restored : results' = results \union {<<j, b>>}
    BY DEF Replay
  <2>2. UNCHANGED <<delivering, sgen, history, rows, unfiltered, cpc>>
    BY DEF Replay
  <2>3. ASSUME j[3] = sgen
        PROVE  b \in {NoStream, Served}
    <3>1. j \in CurrentJobs
      BY <2>3 DEF CurrentJobs, LiveJobs
    <3>2. cpc \notin Opening
      BY <3>1, NoneWhileOpening
    <3>3. anchors # NoStream => Cut = Served
      BY <3>2 DEF CoordinatorInv, MembersAgree, Opening
    <3>4. QED
      BY <2>1, <3>3 DEF Restored, Source, Cut
  <2>4. QED
    BY <2>1, <2>2, <2>3 DEF CoordinatorInv, BytesFromOpened, Served, history
<1>7. QED
  BY <1>1, <1>2, <1>3, <1>4, <1>5, <1>6 DEF CoordinatorInv

LEMMA EnterSinkKeeps ==
  ASSUME CoordinatorInv, NEW j \in running, EnterSink(j)
  PROVE  CoordinatorInv'
<1> USE CoordinatorAssumption
<1>1. TypeOK'
  BY DEF TypeOK, history, CoordinatorInv, EnterSink, members
<1>2. ArgKnown' /\ Generations'
  BY DEF ArgKnown, Generations, CoordinatorInv, EnterSink, members
<1>3. JobsApart'
  BY DEF JobsApart, CoordinatorInv, EnterSink
<1>4. RowsFollowJobs'
  BY DEF RowsFollowJobs, CurrentJobs, LiveJobs, CoordinatorInv, EnterSink,
         Finished, SchedulerFree
<1>5. MembersAgree'
  BY DEF MembersAgree, Cut, Source, Served, history, CoordinatorInv,
         EnterSink, members
<1>6. BytesFromOpened'
  <2>1. /\ results' \union delivering' \subseteq results
        /\ UNCHANGED <<sgen, history, rows, unfiltered, cpc>>
    BY DEF EnterSink
  <2>2. QED
    BY <2>1 DEF CoordinatorInv, BytesFromOpened, Served, history
<1>7. QED
  BY <1>1, <1>2, <1>3, <1>4, <1>5, <1>6 DEF CoordinatorInv

LEMMA SuppressKeeps ==
  ASSUME CoordinatorInv, NEW j \in running, Suppress(j)
  PROVE  CoordinatorInv'
<1> USE CoordinatorAssumption
<1>1. TypeOK'
  BY DEF TypeOK, history, CoordinatorInv, Suppress, members
<1>2. ArgKnown' /\ Generations'
  BY DEF ArgKnown, Generations, CoordinatorInv, Suppress, members
<1>3. JobsApart'
  BY DEF JobsApart, CoordinatorInv, Suppress
<1>4. RowsFollowJobs'
  BY DEF RowsFollowJobs, CurrentJobs, LiveJobs, CoordinatorInv, Suppress
<1>5. MembersAgree'
  BY DEF MembersAgree, Cut, Source, Served, history, CoordinatorInv, Suppress,
         members
<1>6. BytesFromOpened'
  BY DEF BytesFromOpened, Served, history, CoordinatorInv, Suppress
<1>7. QED
  BY <1>1, <1>2, <1>3, <1>4, <1>5, <1>6 DEF CoordinatorInv

LEMMA SinkKeeps ==
  ASSUME CoordinatorInv, NEW p \in delivering, Sink(p)
  PROVE  CoordinatorInv'
<1> USE CoordinatorAssumption
<1>1. TypeOK'
  BY DEF TypeOK, history, Status, Jobs, Bytes, CoordinatorInv, Sink, members,
         JobsApart
<1>2. ArgKnown' /\ Generations'
  BY DEF ArgKnown, Generations, CoordinatorInv, Sink, members
<1>3. JobsApart'
  BY DEF JobsApart, CoordinatorInv, Sink
<1>4. RowsFollowJobs'
  BY DEF RowsFollowJobs, TypeOK, JobsApart, CurrentJobs, LiveJobs,
         CoordinatorInv, Sink
<1>5. MembersAgree'
  BY DEF MembersAgree, Cut, Source, Served, history, CoordinatorInv, Sink,
         members
<1>6. BytesFromOpened'
  BY DEF BytesFromOpened, Served, history, JobsApart, RowsFollowJobs,
         CurrentJobs, LiveJobs, Opening, TypeOK, CoordinatorInv, Sink
<1>7. QED
  BY <1>1, <1>2, <1>3, <1>4, <1>5, <1>6 DEF CoordinatorInv

LEMMA CoordinatorNext == CoordinatorInv /\ [Next]_vars => CoordinatorInv'
<1> SUFFICES ASSUME CoordinatorInv, [Next]_vars PROVE CoordinatorInv'
  OBVIOUS
<1>1. CASE UNCHANGED vars
  BY <1>1
     DEF vars, members, service, CoordinatorInv, TypeOK, ArgKnown,
         Generations, JobsApart, RowsFollowJobs, CurrentJobs, LiveJobs,
         MembersAgree, Cut, Source, Served, BytesFromOpened, history
<1>2. CASE Client
  BY <1>2, OpenRowsKeeps, OpenQueueKeeps, OpenReplaceKeeps, OpenClearKeeps,
     OpenGenerationKeeps, QueryMarkKeeps, QuerySubmitKeeps, QueryRejectKeeps,
     SetGenerationKeeps, GenerationSchedulerKeeps, GenerationRowsKeeps
     DEF Client
<1>3. CASE Pool
  BY <1>3, StartReplayKeeps, ReplayKeeps, EnterSinkKeeps, SuppressKeeps,
     SinkKeeps
     DEF Pool
<1>4. QED
  BY <1>1, <1>2, <1>3 DEF Next

LEMMA CoordinatorInductive == Spec => []CoordinatorInv
BY CoordinatorInit, CoordinatorNext, PTL DEF Spec

(***************************************************************************)
(* The theorems.                                                           *)
(***************************************************************************)

(* Between calls a ready row carries the bytes of the document opened last *)
(* however earlier replays ended, unless the last open() was a static one  *)
(* that found a target's stream: then it carries bytes of that target cut  *)
(* with the anchors of the document, always.                               *)
THEOREM ReadyTheorem == Spec => []ReadyFromOpened
<1>1. CoordinatorInv => ReadyFromOpened
  BY DEF CoordinatorInv, BytesFromOpened, ReadyFromOpened
<1>2. QED
  BY CoordinatorInductive, <1>1, PTL

(* Between calls a row shown as replaying has a live job of the current    *)
(* generation: the two locks of query_scanline() and of the sink never     *)
(* leave a row waiting for nobody.                                         *)
THEOREM ReplayingTheorem == Spec => []ReplayingHasJob
<1>1. CoordinatorInv => ReplayingHasJob
  BY DEF CoordinatorInv, RowsFollowJobs, Generations, Asking, CurrentJobs,
         ReplayingHasJob
<1>2. QED
  BY CoordinatorInductive, <1>1, PTL

IgnoresStale ==
  cpc = "idle" => \A p \in delivering : p[1][3] # generation => rows' = rows

(* Between calls the scheduler's generation is the coordinator's, and what *)
(* is in the sink has it: no step lets an older replay change a row.       *)
THEOREM StaleTheorem == Spec => StaleReplayIgnored
<1>1. CoordinatorInv => IgnoresStale
  BY DEF CoordinatorInv, Generations, JobsApart, IgnoresStale
<1>2. QED
  BY CoordinatorInductive, <1>1, PTL
     DEF Spec, StaleReplayIgnored, IgnoresStale
=============================================================================
