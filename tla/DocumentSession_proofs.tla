----------------------- MODULE DocumentSession_proofs -----------------------
(***************************************************************************)
(* Proofs about DocumentSession, for any plain tasks and any bounds.       *)
(*                                                                         *)
(* The argument is about the pointers of the session.  The handlers read   *)
(* the worker a pointer names, not the one that reported, so the pointer   *)
(* of a kind must be to the worker whose signal is handled: a document     *)
(* has one worker of each primary kind, its detail workers differ in their *)
(* serial, and its only statistics worker that exists is the one pointed   *)
(* to.  A result is what a pointer was to before it was cleared, and what  *)
(* is not there yet has a pointer to the worker that will bring it.        *)
(***************************************************************************)
EXTENDS DocumentSession, TLAPS

(* Where the number of a worker of this document comes from.               *)
Bounded(w) ==
  IF w.kind \in Primary THEN w.number = 0
  ELSE IF w.kind = "detail" THEN w.number <= serial
       ELSE w.number <= collections

(* The workers of this document.                                           *)
Mine == {w \in Threads : w.generation = generation}

(* Only the open document has workers of the current generation.           *)
WorkersOrdered ==
  /\ slot \in [Kinds -> Workers \union {None}]
  /\ \A w \in Threads : w.generation <= generation
  /\ \A w \in Mine : source /\ Bounded(w)

ResultsBounded ==
  \A k \in Kinds : result[k] # None =>
    result[k].kind = k /\ Bounded(result[k])

(* A primary result is there or its worker has yet to report.              *)
PrimaryPending ==
  \A k \in Primary :
    /\ source => (slot[k] = None <=> result[k] # None)
    /\ slot[k] # None => workers[slot[k]] # "reported"

(* The statistics worker of this document is the one pointed to, those of  *)
(* earlier ones were told to stop; none starts before the stages arrive.   *)
CollectionOwned ==
  /\ \A w \in Threads : w.kind = "statistics" =>
       /\ w.generation = generation => slot["statistics"] = w
       /\ w.generation # generation /\ workers[w] = "running" => w \in cancelled
  /\ result["stage"] = None => collections = 0

(* A request that could start has its worker or its result.                *)
CollectionPending ==
  /\ slot["statistics"] # None /\ workers[slot["statistics"]] = "reported" =>
       result["statistics"] # None
  /\ requested /\ result["stage"] # None =>
       slot["statistics"] # None \/ result["statistics"] # None

OpenDocument == source => generation > 0

DetailPending == pane = Loading => asked = serial

(* The inductive invariant.                                                *)
DocumentInv ==
  /\ DetailIsNewest
  /\ WorkersOrdered
  /\ ResultsAreWhole
  /\ ResultsBounded
  /\ PrimaryPending
  /\ AnimationPublishedOnce
  /\ CollectionOwned
  /\ CollectionPending
  /\ DetailPending
  /\ OpenDocument

LEMMA KindsAre ==
  /\ Kinds = Primary \union {"detail", "statistics"}
  /\ "detail" \notin Primary /\ "statistics" \notin Primary
  /\ {"stage", "animation"} \subseteq Primary
  /\ PlainKinds = Primary \ {"stage", "animation"}
BY SessionAssumption DEF Kinds, Primary

LEMMA WorkerIs ==
  /\ None \notin Workers
  /\ \A w \in Workers : w.generation \in Nat /\ w.number \in Nat
<1>b. MaxGen \in Nat /\ MaxSerial + MaxStats \in Nat
  BY SessionAssumption
<1>1. Workers \subseteq [kind : Kinds, generation : Nat, number : Nat]
  BY <1>b DEF Workers
<1>2. QED
  BY <1>1, SessionAssumption

LEMMA OpenFileKeeps ==
  ASSUME DocumentInv, OpenFile
  PROVE  DocumentInv'
<1> DEFINE new == {Worker(k, generation + 1, 0) : k \in Primary} \union
                  {Worker("detail", generation + 1, serial + 2)}
<1>1. /\ generation \in 0..MaxGen /\ serial \in 0..MaxSerial
      /\ generation + 1 \in 1..MaxGen /\ serial + 2 \in 0..MaxSerial
      /\ generation' = generation + 1 /\ serial' = serial + 2
  BY SessionAssumption
     DEF OpenFile, Reset, DocumentInv, DetailIsNewest, TypeOK
<1>2. /\ new \subseteq Workers
      /\ \A w \in new : /\ w.generation = generation + 1
                        /\ \/ w.kind \in Primary /\ w.number = 0
                           \/ w.kind = "detail" /\ w.number = serial + 2
      /\ \A k \in Kinds \ {"statistics"} : \E w \in new : w.kind = k
      /\ \A w \in new : w.kind # "statistics"
  <2>1. \A k \in Kinds, n \in {0, serial + 2} :
          /\ Worker(k, generation + 1, n) \in Workers
          /\ Worker(k, generation + 1, n).kind = k
          /\ Worker(k, generation + 1, n).generation = generation + 1
          /\ Worker(k, generation + 1, n).number = n
    BY <1>1, SessionAssumption DEF Worker, Workers
  <2>2. /\ \A k \in Primary : Worker(k, generation + 1, 0) \in new
        /\ Worker("detail", generation + 1, serial + 2) \in new
        /\ \A w \in new : \/ \E k \in Primary : w = Worker(k, generation + 1, 0)
                          \/ w = Worker("detail", generation + 1, serial + 2)
    OBVIOUS
  <2> HIDE DEF new
  <2>3. QED
    BY <2>1, <2>2, KindsAre
<1>3. /\ Threads' = new \union Threads
      /\ \A w \in new : workers'[w] = "running"
      /\ \A w \in Threads : w \notin new
      /\ \A w \in Threads : workers'[w] = Joined[w]
      /\ workers' = [w \in Threads' |-> workers'[w]]
  <2>1. DOMAIN Joined = Threads
    BY DEF Joined
  <2>2. \A w \in Threads : w \notin new
    BY <1>1, <1>2 DEF DocumentInv, WorkersOrdered
  <2>3. workers' = Add(new, Joined)
    BY DEF OpenFile, Reset
  <2> HIDE DEF new
  <2>4. QED
    BY <2>1, <2>2, <2>3 DEF Add, Threads
<1>4. /\ \A w \in Threads : workers'[w] \in {"running", "posted", "reported"}
      /\ \A w \in Threads : workers'[w] = "running" => workers[w] = "running"
  BY <1>3 DEF Joined, DocumentInv, DetailIsNewest, TypeOK
<1>5. /\ slot' \in [Kinds -> Workers \union {None}]
      /\ slot'["statistics"] = None
      /\ \A k \in Kinds \ {"statistics"} : slot'[k] \in new /\ slot'[k].kind = k
  <2>1. slot' = [k \in Kinds |->
                IF \E w \in new : w.kind = k
                THEN CHOOSE w \in new : w.kind = k ELSE None]
    BY DEF OpenFile, Reset
  <2>2. \A k \in Kinds : (\E w \in new : w.kind = k) =>
          /\ (CHOOSE w \in new : w.kind = k) \in new
          /\ (CHOOSE w \in new : w.kind = k).kind = k
    OBVIOUS
  <2> HIDE DEF new
  <2>3. "statistics" \in Kinds
    BY DEF Kinds
  <2>4. QED
    BY <2>1, <2>2, <2>3, <1>2
<1> HIDE DEF new
<1>6. /\ source' = TRUE /\ asked' = serial' /\ pane' = Loading
      /\ result' = [k \in Kinds |-> None]
      /\ cancelled' = cancelled \union
           {w \in Threads : w = slot["statistics"] /\ workers[w] = "running"}
      /\ requested' = FALSE /\ published' = 0 /\ collections' = 0
  BY DEF OpenFile, Reset, Idle
<1>7. \A k \in Kinds \ {"statistics"} :
        slot'[k] \in Threads' /\ workers'[slot'[k]] = "running" /\ slot'[k] # None
  BY <1>2, <1>3, <1>5, WorkerIs
<1>8. TypeOK'
  <2>1. (Threads \union cancelled \subseteq Workers)'
    BY <1>2, <1>3, <1>6 DEF DocumentInv, DetailIsNewest, TypeOK
  <2>2. (workers \in [Threads -> {"running", "posted", "reported"}])'
    BY <1>3, <1>4
  <2>3. (result \in [Kinds -> Workers \union {None}])'
    BY <1>6
  <2>4. (\A k \in Kinds : slot[k] # None =>
           /\ slot[k] \in Threads /\ slot[k].kind = k
           /\ slot[k].generation = generation)'
    BY <1>1, <1>2, <1>5, <1>7
  <2>5. source' \in BOOLEAN /\ requested' \in BOOLEAN /\ collections' \in 0..MaxStats
    <3>1. source' \in BOOLEAN /\ requested' \in BOOLEAN
      BY <1>6
    <3>2. collections' \in 0..MaxStats
      BY <1>6, SessionAssumption
    <3>3. QED
      BY <3>1, <3>2
  <2>6. /\ ({serial, asked} \subseteq 0..MaxSerial)'
        /\ pane' \in 0..MaxSerial \union {Loading}
    BY <1>1, <1>6
  <2>7. generation' \in 0..MaxGen
    BY <1>1
  <2>8. QED
    BY <2>1, <2>2, <2>3, <2>4, <2>5, <2>6, <2>7 DEF TypeOK
<1>9. DetailIsNewest'
  <2>1. slot'["detail"].number = serial + 2
    BY <1>2, <1>5, KindsAre
  <2>2. "detail" \in Kinds \ {"statistics"}
    BY KindsAre
  <2>3. QED
    BY <1>8, <1>1, <1>2, <1>5, <1>6, <1>7, <2>1, <2>2 DEF DetailIsNewest
<1>10. WorkersOrdered'
  <2>1. \A w \in Threads : w.generation \in Nat /\ w.generation <= generation
    BY WorkerIs DEF DocumentInv, DetailIsNewest, TypeOK, WorkersOrdered
  <2>2. QED
    BY <1>1, <1>2, <1>3, <1>5, <1>6, <2>1, KindsAre
       DEF WorkersOrdered, Mine, Bounded
<1>11. ResultsAreWhole'
  BY <1>6 DEF ResultsAreWhole
<1>12. ResultsBounded'
  BY <1>6 DEF ResultsBounded
<1>13. PrimaryPending'
  BY <1>6, <1>7, KindsAre DEF PrimaryPending
<1>14. AnimationPublishedOnce'
  BY <1>6, KindsAre DEF AnimationPublishedOnce
<1>15. CollectionOwned'
  <2>1. \A w \in Threads : w.generation # generation + 1
    BY <1>1, WorkerIs DEF DocumentInv, DetailIsNewest, TypeOK, WorkersOrdered
  <2>2. QED
    BY <1>1, <1>2, <1>3, <1>4, <1>6, <2>1, KindsAre
       DEF DocumentInv, CollectionOwned
<1>16. CollectionPending'
  BY <1>5, <1>6 DEF CollectionPending
<1>17. DetailPending'
  BY <1>6 DEF DetailPending
<1>18. OpenDocument'
  BY <1>1 DEF OpenDocument
<1>19. QED
  BY <1>8, <1>9, <1>10, <1>11, <1>12, <1>13, <1>14, <1>15, <1>16, <1>17, <1>18
     DEF DocumentInv

LEMMA CloseKeeps ==
  ASSUME DocumentInv, Close
  PROVE  DocumentInv'
<1>1. /\ generation \in 0..MaxGen /\ serial \in 0..MaxSerial
      /\ generation + 1 \in 1..MaxGen /\ serial + 1 \in 0..MaxSerial
      /\ generation' = generation + 1 /\ serial' = serial + 1
  BY SessionAssumption
     DEF Close, Reset, DocumentInv, DetailIsNewest, TypeOK
<1>2. /\ source' = FALSE /\ pane' = 0 /\ asked' = asked
      /\ result' = [k \in Kinds |-> None] /\ slot' = [k \in Kinds |-> None]
      /\ cancelled' = cancelled \union
           {w \in Threads : w = slot["statistics"] /\ workers[w] = "running"}
      /\ requested' = FALSE /\ published' = 0 /\ collections' = 0
  BY DEF Close, Reset, Idle
<1>3. /\ Threads' = Threads
      /\ \A w \in Threads : workers'[w] = Joined[w]
      /\ workers' = [w \in Threads' |-> workers'[w]]
  <2>1. DOMAIN Joined = Threads
    BY DEF Joined
  <2>2. workers' = Add({}, Joined)
    BY DEF Close, Reset
  <2>3. QED
    BY <2>1, <2>2 DEF Add, Threads
<1>4. /\ workers' \in [Threads' -> {"running", "posted", "reported"}]
      /\ \A w \in Threads : workers'[w] = "running" => workers[w] = "running"
  BY <1>3 DEF Joined, DocumentInv, DetailIsNewest, TypeOK
<1>5. TypeOK'
  <2>1. (Threads \union cancelled \subseteq Workers)'
    BY <1>2, <1>3 DEF DocumentInv, DetailIsNewest, TypeOK
  <2>2. source' \in BOOLEAN /\ requested' \in BOOLEAN
    BY <1>2
  <2>3. /\ collections' \in 0..MaxStats /\ serial' \in 0..MaxSerial
        /\ asked' \in 0..MaxSerial
    BY <1>1, <1>2, SessionAssumption DEF DocumentInv, DetailIsNewest, TypeOK
  <2>4. generation' \in 0..MaxGen /\ pane' \in 0..MaxSerial
    BY <1>1, <1>2, SessionAssumption
  <2>5. QED
    BY <1>2, <1>4, <2>1, <2>2, <2>3, <2>4 DEF TypeOK
<1>6. DetailIsNewest' /\ DetailPending' /\ OpenDocument'
  BY <1>1, <1>2, <1>5, SessionAssumption
     DEF DetailIsNewest, DetailPending, OpenDocument
<1>7. \A w \in Threads : w.generation # generation + 1 /\ w.generation < generation + 1
  BY <1>1, WorkerIs DEF DocumentInv, DetailIsNewest, TypeOK, WorkersOrdered
<1>8. WorkersOrdered'
  BY <1>1, <1>2, <1>3, <1>7, WorkerIs
     DEF DocumentInv, DetailIsNewest, TypeOK, WorkersOrdered, Mine
<1>9. ResultsAreWhole' /\ ResultsBounded'
  BY <1>2 DEF ResultsAreWhole, ResultsBounded
<1>10. PrimaryPending' /\ AnimationPublishedOnce'
  BY <1>2, KindsAre DEF PrimaryPending, AnimationPublishedOnce
<1>11. CollectionOwned'
  BY <1>1, <1>2, <1>3, <1>4, <1>7 DEF DocumentInv, CollectionOwned
<1>12. CollectionPending'
  BY <1>2, KindsAre DEF CollectionPending
<1>13. QED
  BY <1>5, <1>6, <1>8, <1>9, <1>10, <1>11, <1>12 DEF DocumentInv

LEMMA SelectChunkKeeps ==
  ASSUME DocumentInv, SelectChunk
  PROVE  DocumentInv'
<1> DEFINE new == Worker("detail", generation, serial + 1)
<1>1. /\ UNCHANGED <<generation, source, result, cancelled>>
      /\ UNCHANGED <<requested, collections, published>>
      /\ source /\ serial' = serial + 1 /\ asked' = serial + 1
      /\ pane' = Loading /\ generation \in 1..MaxGen
      /\ serial \in Nat /\ serial + 1 \in 0..MaxSerial
  BY SessionAssumption
     DEF SelectChunk, document, DocumentInv, DetailIsNewest, TypeOK,
         OpenDocument
<1>2. /\ new \in Workers /\ new.generation = generation
      /\ new.kind = "detail" /\ new.number = serial + 1
  BY <1>1, SessionAssumption, KindsAre DEF Worker, Workers
<1>3. new \notin Threads
  BY <1>1, <1>2, KindsAre DEF DocumentInv, WorkersOrdered, Mine, Bounded
<1>4. \A k \in Kinds : result[k] # None => result[k] # new
  BY <1>1, <1>2, KindsAre DEF DocumentInv, ResultsBounded, Bounded
<1>5. slot' = [slot EXCEPT !["detail"] = new] /\ workers' = Add({new}, workers)
  BY DEF SelectChunk
<1> HIDE DEF new
<1>6. /\ Threads' = {new} \union Threads
      /\ workers'[new] = "running"
      /\ \A w \in Threads : workers'[w] = workers[w]
      /\ workers' = [w \in Threads' |-> workers'[w]]
  BY <1>3, <1>5 DEF Add, Threads
<1>7. /\ slot' \in [Kinds -> Workers \union {None}]
      /\ slot'["detail"] = new
      /\ \A k \in Kinds \ {"detail"} : slot'[k] = slot[k]
  BY <1>2, <1>5, KindsAre DEF DocumentInv, WorkersOrdered
<1>8. TypeOK'
  <2>1. (Threads \union cancelled \subseteq Workers)'
    BY <1>1, <1>2, <1>6 DEF DocumentInv, DetailIsNewest, TypeOK
  <2>2. (workers \in [Threads -> {"running", "posted", "reported"}])'
    BY <1>6 DEF DocumentInv, DetailIsNewest, TypeOK
  <2>3. (\A k \in Kinds : slot[k] # None =>
           /\ slot[k] \in Threads /\ slot[k].kind = k
           /\ slot[k].generation = generation)'
    BY <1>1, <1>2, <1>6, <1>7 DEF DocumentInv, DetailIsNewest, TypeOK
  <2>4. QED
    BY <1>1, <2>1, <2>2, <2>3 DEF DocumentInv, DetailIsNewest, TypeOK
<1>9. DetailIsNewest'
  BY <1>1, <1>2, <1>6, <1>7, <1>8 DEF DetailIsNewest
<1>10. WorkersOrdered'
  BY <1>1, <1>2, <1>6, <1>7, KindsAre, WorkerIs
     DEF DocumentInv, DetailIsNewest, TypeOK, WorkersOrdered, Mine, Bounded
<1>11. ResultsAreWhole'
  BY <1>1, <1>4, <1>6 DEF DocumentInv, ResultsAreWhole
<1>12. ResultsBounded'
  BY <1>1, WorkerIs
     DEF DocumentInv, DetailIsNewest, TypeOK, ResultsBounded, Bounded
<1>13. PrimaryPending'
  BY <1>1, <1>6, <1>7, KindsAre
     DEF DocumentInv, DetailIsNewest, TypeOK, PrimaryPending
<1>14. CollectionOwned' /\ CollectionPending'
  BY <1>1, <1>2, <1>6, <1>7, KindsAre
     DEF DocumentInv, DetailIsNewest, TypeOK, CollectionOwned,
         CollectionPending
<1>15. AnimationPublishedOnce' /\ DetailPending' /\ OpenDocument'
  BY <1>1 DEF DocumentInv, AnimationPublishedOnce, DetailPending, OpenDocument
<1>16. QED
  BY <1>9, <1>10, <1>11, <1>12, <1>13, <1>14, <1>15 DEF DocumentInv

LEMMA DeselectChunkKeeps ==
  ASSUME DocumentInv, DeselectChunk
  PROVE  DocumentInv'
<1>1. /\ UNCHANGED <<generation, source, slot, result, workers, cancelled>>
      /\ UNCHANGED <<requested, collections, published, asked>>
      /\ serial' = serial + 1 /\ pane' = 0
      /\ serial \in Nat /\ serial + 1 \in 0..MaxSerial
  BY SessionAssumption
     DEF DeselectChunk, document, tasks, DocumentInv, DetailIsNewest, TypeOK
<1>2. DetailIsNewest'
  BY <1>1, SessionAssumption DEF DocumentInv, DetailIsNewest, TypeOK, Threads
<1>3. WorkersOrdered' /\ ResultsBounded'
  BY <1>1, WorkerIs
     DEF DocumentInv, DetailIsNewest, TypeOK, WorkersOrdered, ResultsBounded,
         Bounded, Mine, Threads
<1>4. ResultsAreWhole' /\ PrimaryPending' /\ AnimationPublishedOnce'
  BY <1>1 DEF DocumentInv, ResultsAreWhole, PrimaryPending,
              AnimationPublishedOnce, Threads
<1>5. CollectionOwned' /\ CollectionPending'
  BY <1>1 DEF DocumentInv, CollectionOwned, CollectionPending, Threads
<1>6. DetailPending' /\ OpenDocument'
  BY <1>1, SessionAssumption DEF DocumentInv, DetailPending, OpenDocument
<1>7. QED
  BY <1>2, <1>3, <1>4, <1>5, <1>6 DEF DocumentInv

LEMMA CancelStatisticsKeeps ==
  ASSUME DocumentInv, CancelStatistics
  PROVE  DocumentInv'
<1>1. /\ UNCHANGED <<generation, source, slot, result, workers, requested>>
      /\ UNCHANGED <<collections, published, serial, asked, pane>>
      /\ cancelled' = cancelled \union {slot["statistics"]}
      /\ slot["statistics"] # None
  BY DEF CancelStatistics, document, selection
<1>2. slot["statistics"] \in Workers
  BY <1>1, KindsAre DEF DocumentInv, DetailIsNewest, TypeOK
<1>3. DetailIsNewest'
  BY <1>1, <1>2 DEF DocumentInv, DetailIsNewest, TypeOK, Threads
<1>4. WorkersOrdered' /\ ResultsBounded'
  BY <1>1 DEF DocumentInv, WorkersOrdered, ResultsBounded, Bounded, Mine,
              Threads
<1>5. ResultsAreWhole' /\ PrimaryPending' /\ AnimationPublishedOnce'
  BY <1>1 DEF DocumentInv, ResultsAreWhole, PrimaryPending,
              AnimationPublishedOnce, Threads
<1>6. CollectionOwned' /\ CollectionPending' /\ DetailPending' /\ OpenDocument'
  BY <1>1 DEF DocumentInv, CollectionOwned, CollectionPending, Threads,
              DetailPending, OpenDocument
<1>7. QED
  BY <1>3, <1>4, <1>5, <1>6 DEF DocumentInv

LEMMA RequestStatisticsKeeps ==
  ASSUME DocumentInv, RequestStatistics
  PROVE  DocumentInv'
<1>1. CASE ~MayStart
  <2>1. /\ UNCHANGED <<generation, source, result, cancelled, published>>
        /\ UNCHANGED <<serial, asked, pane>>
        /\ UNCHANGED <<collections, slot, workers>>
        /\ requested' = TRUE
    BY <1>1 DEF RequestStatistics, document, selection
  <2>2. DetailIsNewest'
    BY <2>1 DEF DocumentInv, DetailIsNewest, TypeOK, Threads
  <2>3. WorkersOrdered' /\ ResultsBounded' /\ CollectionOwned'
    BY <2>1
       DEF DocumentInv, WorkersOrdered, ResultsBounded, CollectionOwned,
           Threads, Mine, Bounded
  <2>4. ResultsAreWhole' /\ PrimaryPending' /\ AnimationPublishedOnce'
    BY <2>1
       DEF DocumentInv, ResultsAreWhole, PrimaryPending,
           AnimationPublishedOnce, Threads
  <2>5. CollectionPending'
    BY <1>1, <2>1 DEF MayStart, DocumentInv, CollectionPending
  <2>6. DetailPending' /\ OpenDocument'
    BY <2>1 DEF DocumentInv, DetailPending, OpenDocument
  <2>7. QED
    BY <2>2, <2>3, <2>4, <2>5, <2>6 DEF DocumentInv
<1>2. CASE MayStart
  <2> DEFINE new == Worker("statistics", generation, collections + 1)
  <2>1. /\ UNCHANGED <<generation, source, result, cancelled, published>>
        /\ UNCHANGED <<serial, asked, pane>>
        /\ source /\ requested' = TRUE
        /\ collections \in Nat /\ collections + 1 \in 0..MaxStats
        /\ collections' = collections + 1
        /\ slot["statistics"] = None /\ result["stage"] # None
    BY <1>2, SessionAssumption
       DEF RequestStatistics, StartStatistics, MayStart, document, selection,
           DocumentInv, DetailIsNewest, TypeOK
  <2>2. /\ new \in Workers /\ new.kind = "statistics"
        /\ new.generation = generation /\ new.number = collections + 1
    <3>1. generation \in 1..MaxGen /\ collections + 1 \in 0..(MaxSerial + MaxStats)
      BY <2>1, SessionAssumption
         DEF DocumentInv, DetailIsNewest, TypeOK, OpenDocument
    <3>2. QED
      BY <3>1, KindsAre DEF Workers, Worker
  <2>3. new \notin Threads
    BY <2>1, <2>2, WorkerIs DEF DocumentInv, CollectionOwned
  <2>4. /\ slot' = [slot EXCEPT !["statistics"] = new]
        /\ workers' = Add({new}, workers)
    BY <1>2 DEF RequestStatistics, StartStatistics
  <2>5. \A k \in Kinds : result[k] # None => result[k] # new
    BY <2>1, <2>2, KindsAre DEF DocumentInv, ResultsBounded, Bounded
  <2> HIDE DEF new
  <2>6. /\ Threads' = {new} \union Threads
        /\ workers'[new] = "running"
        /\ \A w \in Threads : workers'[w] = workers[w]
        /\ workers' = [w \in Threads' |-> workers'[w]]
    BY <2>3, <2>4 DEF Add, Threads
  <2>7. /\ slot' \in [Kinds -> Workers \union {None}]
        /\ slot'["statistics"] = new
        /\ \A k \in Kinds \ {"statistics"} : slot'[k] = slot[k]
    BY <2>2, <2>4, KindsAre DEF DocumentInv, WorkersOrdered
  <2>8. TypeOK'
    <3>1. (Threads \union cancelled \subseteq Workers)'
      BY <2>1, <2>2, <2>6 DEF DocumentInv, DetailIsNewest, TypeOK
    <3>2. (workers \in [Threads -> {"running", "posted", "reported"}])'
      BY <2>6 DEF DocumentInv, DetailIsNewest, TypeOK
    <3>3. (\A k \in Kinds : slot[k] # None =>
             /\ slot[k] \in Threads /\ slot[k].kind = k
             /\ slot[k].generation = generation)'
      BY <2>1, <2>2, <2>6, <2>7 DEF DocumentInv, DetailIsNewest, TypeOK
    <3>4. QED
      BY <2>1, <3>1, <3>2, <3>3 DEF DocumentInv, DetailIsNewest, TypeOK
  <2>9. DetailIsNewest'
    BY <2>1, <2>6, <2>7, <2>8, KindsAre DEF DocumentInv, DetailIsNewest
  <2>10. WorkersOrdered'
    BY <2>1, <2>2, <2>6, <2>7, KindsAre, WorkerIs
       DEF DocumentInv, DetailIsNewest, TypeOK, WorkersOrdered, Mine, Bounded
  <2>11. ResultsAreWhole'
    BY <2>1, <2>5, <2>6 DEF DocumentInv, ResultsAreWhole
  <2>12. ResultsBounded'
    BY <2>1, WorkerIs
       DEF DocumentInv, DetailIsNewest, TypeOK, ResultsBounded, Bounded
  <2>13. PrimaryPending'
    BY <2>1, <2>6, <2>7, KindsAre
       DEF DocumentInv, DetailIsNewest, TypeOK, PrimaryPending
  <2>14. CollectionOwned'
    <3>1. \A w \in Threads : w.kind = "statistics" => w.generation # generation
      BY <2>1, WorkerIs
         DEF DocumentInv, DetailIsNewest, TypeOK, CollectionOwned
    <3>2. QED
      BY <2>1, <2>2, <2>6, <2>7, <3>1 DEF DocumentInv, CollectionOwned
  <2>15. CollectionPending'
    BY <2>2, <2>6, <2>7, WorkerIs DEF CollectionPending
  <2>16. AnimationPublishedOnce' /\ DetailPending' /\ OpenDocument'
    BY <2>1
       DEF DocumentInv, AnimationPublishedOnce, DetailPending, OpenDocument
  <2>17. QED
    BY <2>9, <2>10, <2>11, <2>12, <2>13, <2>14, <2>15, <2>16 DEF DocumentInv
<1>3. QED
  BY <1>1, <1>2

LEMMA PostKeeps ==
  ASSUME DocumentInv, NEW w \in Threads, Post(w)
  PROVE  DocumentInv'
<1>1. /\ UNCHANGED <<generation, source, slot, result, requested, collections>>
      /\ UNCHANGED <<published, serial, asked, pane>>
      /\ cancelled' = cancelled \ {w} /\ workers[w] = "running"
      /\ workers' = [workers EXCEPT ![w] = "posted"]
  BY DEF Post, document, selection
<1>2. /\ Threads' = Threads
      /\ workers' \in [Threads -> {"running", "posted", "reported"}]
      /\ workers'[w] = "posted"
      /\ \A v \in Threads \ {w} : workers'[v] = workers[v]
  BY <1>1 DEF DocumentInv, DetailIsNewest, TypeOK, Threads
<1>3. TypeOK'
  BY <1>1, <1>2 DEF DocumentInv, DetailIsNewest, TypeOK
<1>4. DetailIsNewest'
  BY <1>1, <1>2, <1>3 DEF DocumentInv, DetailIsNewest
<1>5. WorkersOrdered' /\ ResultsBounded'
  BY <1>1, <1>2 DEF DocumentInv, WorkersOrdered, ResultsBounded, Bounded, Mine
<1>6. ResultsAreWhole' /\ AnimationPublishedOnce'
  BY <1>1, <1>2 DEF DocumentInv, ResultsAreWhole, AnimationPublishedOnce
<1>7. PrimaryPending'
  BY <1>1, <1>2, KindsAre
     DEF DocumentInv, DetailIsNewest, TypeOK, PrimaryPending
<1>8. CollectionOwned' /\ CollectionPending'
  BY <1>1, <1>2, KindsAre
     DEF DocumentInv, DetailIsNewest, TypeOK, CollectionOwned,
         CollectionPending
<1>9. DetailPending' /\ OpenDocument'
  BY <1>1 DEF DocumentInv, DetailPending, OpenDocument
<1>10. QED
  BY <1>4, <1>5, <1>6, <1>7, <1>8, <1>9 DEF DocumentInv

LEMMA DropIs ==
  ASSUME DocumentInv, NEW w \in Threads, workers' = Drop(w)
  PROVE  /\ Threads' = Threads \ {w}
         /\ \A v \in Threads \ {w} : workers'[v] = workers[v]
         /\ workers' \in [Threads' -> {"running", "posted", "reported"}]
BY DEF Drop, Threads, DocumentInv, DetailIsNewest, TypeOK

LEMMA ReportIs ==
  ASSUME DocumentInv, NEW w \in Threads,
         workers' = [workers EXCEPT ![w] = "reported"]
  PROVE  /\ Threads' = Threads /\ workers'[w] = "reported"
         /\ \A v \in Threads \ {w} : workers'[v] = workers[v]
         /\ workers' \in [Threads' -> {"running", "posted", "reported"}]
BY DEF Threads, DocumentInv, DetailIsNewest, TypeOK

(* A worker no pointer is to ends, and nothing else happens.               *)
LEMMA StaleKeeps ==
  ASSUME DocumentInv, NEW w \in Threads, \A k \in Kinds : slot[k] # w,
         workers' = Drop(w) \/ workers' = [workers EXCEPT ![w] = "reported"],
         UNCHANGED <<generation, source, slot, result, cancelled, requested>>,
         UNCHANGED <<collections, published, serial, asked, pane>>
  PROVE  DocumentInv'
<1>1. /\ Threads' \subseteq Threads
      /\ w \in Threads' => workers'[w] = "reported"
      /\ \A v \in Threads \ {w} : v \in Threads' /\ workers'[v] = workers[v]
      /\ workers' \in [Threads' -> {"running", "posted", "reported"}]
  BY DropIs, ReportIs
<1>2. TypeOK'
  BY <1>1 DEF DocumentInv, DetailIsNewest, TypeOK
<1>3. DetailIsNewest'
  BY <1>1, <1>2, KindsAre DEF DocumentInv, DetailIsNewest
<1>4. WorkersOrdered' /\ ResultsBounded'
  BY <1>1 DEF DocumentInv, WorkersOrdered, ResultsBounded, Bounded, Mine
<1>5. ResultsAreWhole' /\ AnimationPublishedOnce'
  BY <1>1 DEF DocumentInv, ResultsAreWhole, AnimationPublishedOnce
<1>6. PrimaryPending'
  BY <1>1, KindsAre DEF DocumentInv, DetailIsNewest, TypeOK, PrimaryPending
<1>7. CollectionOwned' /\ CollectionPending'
  BY <1>1, KindsAre
     DEF DocumentInv, DetailIsNewest, TypeOK, CollectionOwned,
         CollectionPending
<1>8. DetailPending' /\ OpenDocument'
  BY DEF DocumentInv, DetailPending, OpenDocument
<1>9. QED
  BY <1>3, <1>4, <1>5, <1>6, <1>7, <1>8 DEF DocumentInv

(* A pointer is to a worker of its kind and document.                      *)
LEMMA StaleIs ==
  ASSUME DocumentInv, NEW w \in Threads,
         w.generation # generation \/ slot[w.kind] # w
  PROVE  \A k \in Kinds : slot[k] # w
BY WorkerIs DEF DocumentInv, DetailIsNewest, TypeOK

(* The pointer a handler finds is to the worker that reported: a document  *)
(* has one worker of each primary kind.                                    *)
LEMMA PointerIs ==
  ASSUME DocumentInv, NEW w \in Threads, w.kind \in Primary, Current(w)
  PROVE  /\ slot[w.kind] = w /\ source /\ w.generation = generation
         /\ result[w.kind] = None /\ w.number = 0
<1>1. /\ w \in Workers /\ slot[w.kind] \in Workers
      /\ slot[w.kind] # None /\ slot[w.kind] \in Threads
      /\ slot[w.kind].kind = w.kind /\ w.generation = generation
      /\ slot[w.kind].generation = generation
  BY KindsAre DEF Current, DocumentInv, DetailIsNewest, TypeOK
<1>2. slot[w.kind].number = 0 /\ w.number = 0 /\ source
  BY <1>1, KindsAre DEF DocumentInv, WorkersOrdered, Mine, Bounded
<1>3. slot[w.kind] = w
  BY <1>1, <1>2 DEF Workers
<1>4. QED
  BY <1>1, <1>2, <1>3, KindsAre DEF DocumentInv, PrimaryPending

LEMMA StageDoneKeeps ==
  ASSUME DocumentInv, NEW w \in Threads, StageDone(w)
  PROVE  DocumentInv'
<1>1. /\ w \in Workers /\ w.kind = "stage" /\ workers[w] = "posted"
      /\ UNCHANGED <<generation, source, cancelled, serial, asked, pane>>
      /\ w # None
  BY WorkerIs
     DEF StageDone, Reports, document, selection, DocumentInv, DetailIsNewest,
         TypeOK
<1>2. ASSUME workers' = Drop(w)
      PROVE  /\ Threads' = Threads \ {w}
             /\ \A v \in Threads \ {w} : workers'[v] = workers[v]
             /\ workers' = [v \in Threads' |-> workers'[v]]
  BY <1>2 DEF Drop, Threads
<1>3. CASE ~Current(w)
  <2>1. /\ workers' = Drop(w)
        /\ UNCHANGED <<result, slot, requested, collections, published>>
    BY <1>1, <1>3, KindsAre DEF StageDone, Reported, Watched
  <2>2. \A k \in Kinds : slot[k] # w
    BY <1>1, <1>3, StaleIs DEF Current
  <2>3. QED
    BY <1>1, <2>1, <2>2, StaleKeeps
<1>4. CASE Current(w)
  <2> DEFINE new == Worker("statistics", generation, collections + 1)
             starts == requested' /\ slot["statistics"] = None
  <2>1. /\ result' = [result EXCEPT !["stage"] = slot["stage"]]
        /\ published' = IF result["animation"] # None THEN published + 1 ELSE published
        /\ requested' \in {requested, TRUE}
    BY <1>4 DEF StageDone, Taken
  <2>2. /\ slot["stage"] = w /\ source /\ w.generation = generation
        /\ result["stage"] = None /\ collections = 0
    <3>1. /\ slot[w.kind] = w /\ source /\ w.generation = generation
          /\ result[w.kind] = None
      BY <1>1, <1>4, PointerIs, KindsAre
    <3>2. QED
      BY <1>1, <3>1 DEF DocumentInv, CollectionOwned
  <2>3. /\ ~starts => slot' = [slot EXCEPT !["stage"] = None] /\ workers' = Drop(w)
                      /\ collections' = 0
        /\ starts => /\ slot' = [slot EXCEPT !["stage"] = None, !["statistics"] = new]
                     /\ workers' = Add({new}, Drop(w))
                     /\ collections' = 1
    BY <1>1, <1>4, <2>2 DEF StageDone, StartStatistics, Reported, Watched
  <2>4. /\ new \in Workers /\ new.kind = "statistics"
        /\ new.generation = generation /\ new.number = 1
    <3>1. generation \in 1..MaxGen /\ 1 \in 0..(MaxSerial + MaxStats)
      BY <2>2, SessionAssumption
         DEF DocumentInv, DetailIsNewest, TypeOK, OpenDocument
    <3>2. QED
      BY <2>2, <3>1, KindsAre DEF Workers, Worker
  <2>5. starts => \A v \in Threads : v.kind = "statistics" => v.generation # generation
    BY WorkerIs DEF DocumentInv, DetailIsNewest, TypeOK, CollectionOwned
  <2>6. \A k \in Kinds : result[k] # None => result[k] # new
    BY <2>2, <2>4, KindsAre DEF DocumentInv, ResultsBounded, Bounded
  <2> HIDE DEF new
  <2>7. /\ Threads' = IF starts THEN {new} \union (Threads \ {w}) ELSE Threads \ {w}
        /\ \A v \in Threads \ {w} : workers'[v] = workers[v]
        /\ starts => workers'[new] = "running"
        /\ workers' = [v \in Threads' |-> workers'[v]]
    <3>1. CASE starts
      BY <2>3, <2>4, <2>5, <3>1 DEF Add, Drop, Threads
    <3>2. CASE ~starts
      BY <1>2, <2>3, <3>2
    <3>3. QED
      BY <3>1, <3>2
  <2>8. /\ slot' \in [Kinds -> Workers \union {None}]
        /\ slot'["stage"] = None
        /\ slot'["statistics"] = IF starts THEN new ELSE slot["statistics"]
        /\ \A k \in Kinds \ {"stage", "statistics"} : slot'[k] = slot[k]
    BY <2>3, <2>4, KindsAre DEF DocumentInv, WorkersOrdered
  <2>9. /\ result' \in [Kinds -> Workers \union {None}]
        /\ result'["stage"] = w
        /\ \A k \in Kinds \ {"stage"} : result'[k] = result[k]
    BY <1>1, <2>1, <2>2, KindsAre DEF DocumentInv, DetailIsNewest, TypeOK
  <2>10. \A k \in Kinds \ {"stage"} : slot[k] # w
    BY <1>1 DEF DocumentInv, DetailIsNewest, TypeOK
  <2>11. TypeOK'
    <3>1. (Threads \union cancelled \subseteq Workers)'
      BY <1>1, <2>4, <2>7 DEF DocumentInv, DetailIsNewest, TypeOK
    <3>2. (workers \in [Threads -> {"running", "posted", "reported"}])'
      BY <2>7 DEF DocumentInv, DetailIsNewest, TypeOK
    <3>3. (\A k \in Kinds : slot[k] # None =>
             /\ slot[k] \in Threads /\ slot[k].kind = k
             /\ slot[k].generation = generation)'
      BY <1>1, <2>4, <2>7, <2>8, <2>10 DEF DocumentInv, DetailIsNewest, TypeOK
    <3>4. collections' \in 0..MaxStats
      BY <2>3, SessionAssumption
    <3>5. requested' \in BOOLEAN
      BY <2>1 DEF DocumentInv, DetailIsNewest, TypeOK
    <3>6. QED
      BY <1>1, <2>9, <3>1, <3>2, <3>3, <3>4, <3>5
         DEF DocumentInv, DetailIsNewest, TypeOK
  <2> HIDE DEF starts
  <2>12. DetailIsNewest'
    BY <1>1, <2>7, <2>8, <2>10, <2>11, KindsAre
       DEF DocumentInv, DetailIsNewest
  <2>13. WorkersOrdered'
    BY <1>1, <2>2, <2>3, <2>4, <2>7, <2>8, KindsAre, WorkerIs
       DEF DocumentInv, DetailIsNewest, TypeOK, WorkersOrdered, Mine, Bounded
  <2>14. ResultsAreWhole'
    BY <1>1, <2>2, <2>4, <2>6, <2>7, <2>9 DEF DocumentInv, ResultsAreWhole
  <2>15. ResultsBounded'
    <3>1. w.number = 0
      BY <1>1, <2>2, KindsAre DEF DocumentInv, WorkersOrdered, Mine, Bounded
    <3>2. QED
      BY <1>1, <2>2, <2>3, <2>9, <3>1, WorkerIs, KindsAre
         DEF DocumentInv, DetailIsNewest, TypeOK, ResultsBounded, Bounded
  <2>16. PrimaryPending'
    BY <1>1, <2>7, <2>8, <2>9, <2>10, KindsAre
       DEF DocumentInv, DetailIsNewest, TypeOK, PrimaryPending
  <2>17. CollectionOwned'
    BY <1>1, <2>4, <2>5, <2>7, <2>8, <2>9
       DEF starts, DocumentInv, CollectionOwned
  <2>18. CollectionPending'
    BY <1>1, <2>4, <2>7, <2>8, <2>9, <2>10, KindsAre, WorkerIs
       DEF starts, DocumentInv, DetailIsNewest, TypeOK, CollectionPending
  <2>19. AnimationPublishedOnce'
    BY <1>1, <2>1, <2>2, <2>9, KindsAre
       DEF DocumentInv, AnimationPublishedOnce
  <2>20. DetailPending' /\ OpenDocument'
    BY <1>1 DEF DocumentInv, DetailPending, OpenDocument
  <2>21. QED
    BY <2>12, <2>13, <2>14, <2>15, <2>16, <2>17, <2>18, <2>19, <2>20
       DEF DocumentInv
<1>5. QED
  BY <1>3, <1>4

LEMMA PlainDoneKeeps ==
  ASSUME DocumentInv, NEW w \in Threads, PlainDone(w)
  PROVE  DocumentInv'
<1>1. /\ UNCHANGED <<generation, source, cancelled, requested, collections>>
      /\ UNCHANGED <<published, serial, asked, pane>>
      /\ workers' = Drop(w) /\ workers[w] = "posted"
      /\ w.kind \in Primary \ {"stage", "animation"}
      /\ w \in Workers /\ w # None
  BY KindsAre, WorkerIs
     DEF PlainDone, Reports, Reported, Watched, document, selection,
         DocumentInv, DetailIsNewest, TypeOK
<1>2. CASE ~Current(w)
  <2>1. UNCHANGED <<result, slot>>
    BY <1>2 DEF PlainDone
  <2>2. \A k \in Kinds : slot[k] # w
    BY <1>1, <1>2, StaleIs DEF Current
  <2>3. QED
    BY <1>1, <2>1, <2>2, StaleKeeps
<1>3. CASE Current(w)
  <2>1. /\ slot[w.kind] = w /\ source /\ w.generation = generation
        /\ result[w.kind] = None /\ w.number = 0
    BY <1>1, <1>3, PointerIs
  <2>2. /\ result' \in [Kinds -> Workers \union {None}]
        /\ result'[w.kind] = w
        /\ \A k \in Kinds \ {w.kind} : result'[k] = result[k]
    BY <1>1, <1>3, <2>1, KindsAre
       DEF PlainDone, Taken, DocumentInv, DetailIsNewest, TypeOK
  <2>3. /\ slot' \in [Kinds -> Workers \union {None}]
        /\ slot'[w.kind] = None
        /\ \A k \in Kinds \ {w.kind} : slot'[k] = slot[k] /\ slot[k] # w
    BY <1>1, <1>3, <2>1, KindsAre
       DEF PlainDone, DocumentInv, DetailIsNewest, TypeOK, WorkersOrdered
  <2>4. /\ Threads' = Threads \ {w}
        /\ \A v \in Threads \ {w} : workers'[v] = workers[v]
        /\ workers' \in [Threads' -> {"running", "posted", "reported"}]
    BY <1>1, DropIs
  <2>5. TypeOK'
    BY <1>1, <2>2, <2>3, <2>4 DEF DocumentInv, DetailIsNewest, TypeOK
  <2>6. DetailIsNewest'
    BY <1>1, <2>3, <2>4, <2>5, KindsAre DEF DocumentInv, DetailIsNewest
  <2>7. WorkersOrdered'
    BY <1>1, <2>3, <2>4 DEF DocumentInv, WorkersOrdered, Bounded, Mine
  <2>8. ResultsBounded'
    BY <1>1, <2>1, <2>2 DEF DocumentInv, ResultsBounded, Bounded
  <2>9. ResultsAreWhole' /\ AnimationPublishedOnce'
    BY <1>1, <2>1, <2>2, <2>4, KindsAre
       DEF DocumentInv, ResultsAreWhole, AnimationPublishedOnce
  <2>10. PrimaryPending'
    BY <1>1, <2>2, <2>3, <2>4, KindsAre
       DEF DocumentInv, DetailIsNewest, TypeOK, PrimaryPending
  <2>11. CollectionOwned' /\ CollectionPending'
    BY <1>1, <2>2, <2>3, <2>4, KindsAre
       DEF DocumentInv, DetailIsNewest, TypeOK, CollectionOwned,
           CollectionPending
  <2>12. DetailPending' /\ OpenDocument'
    BY <1>1 DEF DocumentInv, DetailPending, OpenDocument
  <2>13. QED
    BY <2>6, <2>7, <2>8, <2>9, <2>10, <2>11, <2>12 DEF DocumentInv
<1>4. QED
  BY <1>2, <1>3

LEMMA AnimationDoneKeeps ==
  ASSUME DocumentInv, NEW w \in Threads, AnimationDone(w)
  PROVE  DocumentInv'
<1>1. /\ UNCHANGED <<generation, source, cancelled, requested, collections>>
      /\ UNCHANGED <<serial, asked, pane>>
      /\ workers' = [workers EXCEPT ![w] = "reported"] /\ workers[w] = "posted"
      /\ w.kind = "animation" /\ w \in Workers /\ w # None
  BY WorkerIs
     DEF AnimationDone, Reports, Reported, Watched, document, selection,
         DocumentInv, DetailIsNewest, TypeOK
<1>2. CASE ~Current(w)
  <2>1. UNCHANGED <<result, slot, published>>
    BY <1>2 DEF AnimationDone
  <2>2. \A k \in Kinds : slot[k] # w
    BY <1>1, <1>2, StaleIs DEF Current
  <2>3. QED
    BY <1>1, <2>1, <2>2, StaleKeeps
<1>3. CASE Current(w)
  <2>1. /\ slot["animation"] = w /\ source /\ w.generation = generation
        /\ result["animation"] = None /\ w.number = 0
    BY <1>1, <1>3, PointerIs, KindsAre
  <2>2. /\ result' \in [Kinds -> Workers \union {None}]
        /\ result'["animation"] = w
        /\ \A k \in Kinds \ {"animation"} : result'[k] = result[k]
        /\ published' = IF result["stage"] # None THEN published + 1
                        ELSE published
    BY <1>1, <1>3, <2>1, KindsAre
       DEF AnimationDone, Taken, DocumentInv, DetailIsNewest, TypeOK
  <2>3. /\ slot' \in [Kinds -> Workers \union {None}]
        /\ slot'["animation"] = None
        /\ \A k \in Kinds \ {"animation"} : slot'[k] = slot[k] /\ slot[k] # w
    BY <1>1, <1>3, <2>1, KindsAre
       DEF AnimationDone, DocumentInv, DetailIsNewest, TypeOK, WorkersOrdered
  <2>4. /\ Threads' = Threads /\ workers'[w] = "reported"
        /\ \A v \in Threads \ {w} : workers'[v] = workers[v]
        /\ workers' \in [Threads' -> {"running", "posted", "reported"}]
    BY <1>1, ReportIs
  <2>5. TypeOK'
    BY <1>1, <2>2, <2>3, <2>4 DEF DocumentInv, DetailIsNewest, TypeOK
  <2>6. DetailIsNewest'
    BY <1>1, <2>3, <2>4, <2>5, KindsAre DEF DocumentInv, DetailIsNewest
  <2>7. WorkersOrdered'
    BY <1>1, <2>3, <2>4 DEF DocumentInv, WorkersOrdered, Bounded, Mine
  <2>8. ResultsBounded'
    BY <1>1, <2>1, <2>2, KindsAre DEF DocumentInv, ResultsBounded, Bounded
  <2>9. ResultsAreWhole' /\ AnimationPublishedOnce'
    BY <1>1, <2>1, <2>2, <2>4, KindsAre
       DEF DocumentInv, ResultsAreWhole, AnimationPublishedOnce
  <2>10. PrimaryPending'
    BY <1>1, <2>2, <2>3, <2>4, KindsAre
       DEF DocumentInv, DetailIsNewest, TypeOK, PrimaryPending
  <2>11. CollectionOwned' /\ CollectionPending'
    BY <1>1, <2>2, <2>3, <2>4, KindsAre
       DEF DocumentInv, DetailIsNewest, TypeOK, CollectionOwned,
           CollectionPending
  <2>12. DetailPending' /\ OpenDocument'
    BY <1>1 DEF DocumentInv, DetailPending, OpenDocument
  <2>13. QED
    BY <2>6, <2>7, <2>8, <2>9, <2>10, <2>11, <2>12 DEF DocumentInv
<1>4. QED
  BY <1>2, <1>3


LEMMA DetailDoneKeeps ==
  ASSUME DocumentInv, NEW w \in Threads, DetailDone(w)
  PROVE  DocumentInv'
<1> DEFINE taken == Current(w) /\ slot["detail"].number = w.number
                      /\ w.number = asked
<1>1. /\ UNCHANGED <<generation, source, slot, cancelled, requested>>
      /\ UNCHANGED <<collections, published, serial, asked>>
      /\ workers' = [workers EXCEPT ![w] = "reported"] /\ workers[w] = "posted"
      /\ w.kind = "detail" /\ w \in Workers /\ w # None
  BY WorkerIs
     DEF DetailDone, Reports, Reported, Watched, document,
         DocumentInv, DetailIsNewest, TypeOK
<1>2. /\ Threads' = Threads /\ workers'[w] = "reported"
      /\ \A v \in Threads \ {w} : workers'[v] = workers[v]
      /\ workers' \in [Threads' -> {"running", "posted", "reported"}]
  BY <1>1, ReportIs
<1>3. taken => slot["detail"] = w /\ w.generation = generation
  <2>1. taken => /\ slot["detail"] \in Workers /\ slot["detail"].kind = "detail"
                 /\ slot["detail"].generation = w.generation
                 /\ slot["detail"].number = w.number
                 /\ w.generation = generation
    BY <1>1, KindsAre DEF Current, DocumentInv, DetailIsNewest, TypeOK
  <2>2. QED
    BY <1>1, <2>1 DEF Workers
<1>4. pane = Loading /\ slot["detail"] = w => taken
  BY <1>1 DEF Current, DocumentInv, DetailIsNewest, DetailPending
<1>5. /\ taken => /\ result' = [result EXCEPT !["detail"] = w]
                  /\ pane' = IF w.number = serial THEN w.number ELSE pane
      /\ ~taken => UNCHANGED <<result, pane>>
  BY <1>1, <1>3 DEF DetailDone, Taken
<1>6. taken => source /\ w.number <= serial
  BY <1>1, <1>3, KindsAre DEF DocumentInv, WorkersOrdered, Mine, Bounded
<1>7. /\ result' \in [Kinds -> Workers \union {None}]
      /\ \A k \in Kinds \ {"detail"} : result'[k] = result[k]
      /\ result'["detail"] \in {w, result["detail"]}
      /\ result'["detail"] # result["detail"] => taken
  BY <1>1, <1>5, KindsAre DEF DocumentInv, DetailIsNewest, TypeOK
<1>8. /\ pane' \in {pane, serial}
      /\ pane = Loading /\ taken => pane' = serial
  BY <1>3, <1>5 DEF DocumentInv, DetailPending
<1>9. \A k \in Kinds \ {"detail"} : slot[k] # w
  BY <1>1 DEF DocumentInv, DetailIsNewest, TypeOK
<1> HIDE DEF taken
<1>10. TypeOK'
  BY <1>1, <1>2, <1>7, <1>8 DEF DocumentInv, DetailIsNewest, TypeOK
<1>11. DetailIsNewest'
  <2>1. serial \in Nat /\ Loading \notin Nat
    BY SessionAssumption DEF DocumentInv, DetailIsNewest, TypeOK
  <2>2. CASE pane' = Loading
    BY <1>1, <1>2, <1>4, <1>8, <1>10, <2>1, <2>2
       DEF DocumentInv, DetailIsNewest
  <2>3. CASE pane' # Loading
    BY <1>1, <1>8, <1>10, <2>3 DEF DocumentInv, DetailIsNewest
  <2>4. QED
    BY <2>2, <2>3
<1>12. WorkersOrdered'
  BY <1>1, <1>2 DEF DocumentInv, WorkersOrdered, Bounded, Mine
<1>13. ResultsBounded'
  BY <1>1, <1>6, <1>7, KindsAre DEF DocumentInv, ResultsBounded, Bounded
<1>14. ResultsAreWhole'
  BY <1>1, <1>2, <1>3, <1>6, <1>7 DEF DocumentInv, ResultsAreWhole
<1>15. AnimationPublishedOnce'
  BY <1>1, <1>7, KindsAre DEF DocumentInv, AnimationPublishedOnce
<1>16. PrimaryPending'
  BY <1>1, <1>2, <1>7, <1>9, KindsAre
     DEF DocumentInv, DetailIsNewest, TypeOK, PrimaryPending
<1>17. CollectionOwned' /\ CollectionPending'
  BY <1>1, <1>2, <1>7, <1>9, KindsAre
     DEF DocumentInv, DetailIsNewest, TypeOK, CollectionOwned,
         CollectionPending
<1>18. DetailPending' /\ OpenDocument'
  <2>1. serial \in Nat /\ Loading \notin Nat
    BY SessionAssumption DEF DocumentInv, DetailIsNewest, TypeOK
  <2>2. QED
    BY <1>1, <1>8, <2>1 DEF DocumentInv, DetailPending, OpenDocument
<1>19. QED
  BY <1>11, <1>12, <1>13, <1>14, <1>15, <1>16, <1>17, <1>18 DEF DocumentInv

LEMMA StatisticsDoneKeeps ==
  ASSUME DocumentInv, NEW w \in Threads, StatisticsDone(w)
  PROVE  DocumentInv'
<1>1. /\ UNCHANGED <<generation, source, slot, cancelled, requested>>
      /\ UNCHANGED <<collections, published, serial, asked, pane>>
      /\ workers' = [workers EXCEPT ![w] = "reported"] /\ workers[w] = "posted"
      /\ w.kind = "statistics" /\ w \in Workers /\ w # None
  BY WorkerIs
     DEF StatisticsDone, Reports, Reported, Watched, document, selection,
         DocumentInv, DetailIsNewest, TypeOK
<1>2. CASE w.generation # generation
  <2>1. result' = result
    BY <1>2 DEF StatisticsDone
  <2>2. QED
    BY <1>1, <1>2, <2>1, StaleIs, StaleKeeps
<1>3. CASE w.generation = generation
  <2>1. /\ slot["statistics"] = w /\ source /\ w.number <= collections
    BY <1>1, <1>3, KindsAre
       DEF DocumentInv, CollectionOwned, WorkersOrdered, Mine, Bounded
  <2>2. /\ result' \in [Kinds -> Workers \union {None}]
        /\ result'["statistics"] = w
        /\ \A k \in Kinds \ {"statistics"} : result'[k] = result[k]
    BY <1>1, <1>3, KindsAre
       DEF StatisticsDone, DocumentInv, DetailIsNewest, TypeOK
  <2>3. \A k \in Kinds \ {"statistics"} : slot[k] # w
    BY <1>1 DEF DocumentInv, DetailIsNewest, TypeOK
  <2>4. /\ Threads' = Threads /\ workers'[w] = "reported"
        /\ \A v \in Threads \ {w} : workers'[v] = workers[v]
        /\ workers' \in [Threads' -> {"running", "posted", "reported"}]
    BY <1>1, ReportIs
  <2>5. TypeOK'
    BY <1>1, <2>2, <2>4 DEF DocumentInv, DetailIsNewest, TypeOK
  <2>6. DetailIsNewest'
    BY <1>1, <2>3, <2>4, <2>5, KindsAre DEF DocumentInv, DetailIsNewest
  <2>7. WorkersOrdered'
    BY <1>1, <2>4 DEF DocumentInv, WorkersOrdered, Bounded, Mine
  <2>8. ResultsBounded'
    BY <1>1, <2>1, <2>2, KindsAre DEF DocumentInv, ResultsBounded, Bounded
  <2>9. ResultsAreWhole' /\ AnimationPublishedOnce'
    BY <1>1, <1>3, <2>1, <2>2, <2>4, KindsAre
       DEF DocumentInv, ResultsAreWhole, AnimationPublishedOnce
  <2>10. PrimaryPending'
    BY <1>1, <2>2, <2>3, <2>4, KindsAre
       DEF DocumentInv, DetailIsNewest, TypeOK, PrimaryPending
  <2>11. CollectionOwned' /\ CollectionPending'
    BY <1>1, <2>2, <2>4, KindsAre
       DEF DocumentInv, DetailIsNewest, TypeOK, CollectionOwned,
           CollectionPending
  <2>12. DetailPending' /\ OpenDocument'
    BY <1>1 DEF DocumentInv, DetailPending, OpenDocument
  <2>13. QED
    BY <2>6, <2>7, <2>8, <2>9, <2>10, <2>11, <2>12 DEF DocumentInv
<1>4. QED
  BY <1>2, <1>3

LEMMA FinishedKeeps ==
  ASSUME DocumentInv, NEW w \in Threads, Finished(w)
  PROVE  DocumentInv'
<1>1. /\ UNCHANGED <<generation, source, result, cancelled, requested>>
      /\ UNCHANGED <<collections, published, serial, asked, pane>>
      /\ workers' = Drop(w) /\ workers[w] = "reported"
      /\ w \in Workers /\ w # None /\ w.kind \in Kinds
      /\ slot' = [slot EXCEPT ![w.kind] = IF slot[w.kind] = w THEN None
                                          ELSE slot[w.kind]]
  BY WorkerIs
     DEF Finished, document, selection, DocumentInv, DetailIsNewest, TypeOK,
         Workers
<1>2. CASE slot[w.kind] # w
  <2>1. slot' = slot
    BY <1>1, <1>2 DEF DocumentInv, WorkersOrdered
  <2>2. QED
    BY <1>1, <1>2, <2>1, StaleIs, StaleKeeps
<1>3. CASE slot[w.kind] = w
  <2>1. w.kind \in {"detail", "statistics"} /\ w.generation = generation
    BY <1>1, <1>3, KindsAre
       DEF DocumentInv, DetailIsNewest, TypeOK, PrimaryPending
  <2>2. /\ slot' \in [Kinds -> Workers \union {None}]
        /\ slot'[w.kind] = None
        /\ \A k \in Kinds \ {w.kind} : slot'[k] = slot[k] /\ slot[k] # w
    BY <1>1, <1>3 DEF DocumentInv, DetailIsNewest, TypeOK, WorkersOrdered
  <2>3. /\ Threads' = Threads \ {w}
        /\ \A v \in Threads \ {w} : workers'[v] = workers[v]
        /\ workers' \in [Threads' -> {"running", "posted", "reported"}]
    BY <1>1, DropIs
  <2>4. TypeOK'
    BY <1>1, <2>2, <2>3 DEF DocumentInv, DetailIsNewest, TypeOK
  <2>5. DetailIsNewest'
    BY <1>1, <2>1, <2>2, <2>3, <2>4, KindsAre DEF DocumentInv, DetailIsNewest
  <2>6. WorkersOrdered' /\ ResultsBounded'
    BY <1>1, <2>2, <2>3
       DEF DocumentInv, WorkersOrdered, ResultsBounded, Bounded, Mine
  <2>7. ResultsAreWhole' /\ AnimationPublishedOnce'
    BY <1>1, <2>3 DEF DocumentInv, ResultsAreWhole, AnimationPublishedOnce
  <2>8. PrimaryPending'
    BY <1>1, <2>1, <2>2, <2>3, KindsAre
       DEF DocumentInv, DetailIsNewest, TypeOK, PrimaryPending
  <2>9. CollectionOwned'
    BY <1>1, <1>3, <2>1, <2>2, <2>3, KindsAre DEF DocumentInv, CollectionOwned
  <2>10. CollectionPending'
    BY <1>1, <1>3, <2>1, <2>2, <2>3, KindsAre
       DEF DocumentInv, DetailIsNewest, TypeOK, CollectionPending
  <2>11. DetailPending' /\ OpenDocument'
    BY <1>1 DEF DocumentInv, DetailPending, OpenDocument
  <2>12. QED
    BY <2>5, <2>6, <2>7, <2>8, <2>9, <2>10, <2>11 DEF DocumentInv
<1>4. QED
  BY <1>2, <1>3

(***************************************************************************)
(* The theorems.                                                           *)
(***************************************************************************)

LEMMA InitInv == Init => DocumentInv
<1> SUFFICES ASSUME Init
             PROVE  DocumentInv
  OBVIOUS
<1>1. /\ Threads = {} /\ \A k \in Kinds : slot[k] = None /\ result[k] = None
      /\ slot \in [Kinds -> Workers \union {None}]
      /\ result \in [Kinds -> Workers \union {None}]
      /\ workers \in [Threads -> {"running", "posted", "reported"}]
  BY DEF Init, Idle, Threads
<1>2. 0 \in 0..MaxGen /\ 0 \in 0..MaxStats /\ 0 \in 0..MaxSerial
  BY SessionAssumption
<1>3. TypeOK
  BY <1>1, <1>2 DEF Init, TypeOK
<1>4. DetailIsNewest /\ DetailPending /\ OpenDocument
  BY <1>3, SessionAssumption
     DEF Init, DetailIsNewest, DetailPending, OpenDocument
<1>5. WorkersOrdered /\ ResultsAreWhole /\ ResultsBounded
  BY <1>1 DEF WorkersOrdered, Mine, ResultsAreWhole, ResultsBounded
<1>6. PrimaryPending /\ AnimationPublishedOnce
  BY <1>1, KindsAre DEF Init, PrimaryPending, AnimationPublishedOnce
<1>7. CollectionOwned /\ CollectionPending
  BY <1>1, KindsAre DEF Init, CollectionOwned, CollectionPending
<1>8. QED
  BY <1>4, <1>5, <1>6, <1>7 DEF DocumentInv

LEMMA StutterKeeps == DocumentInv /\ UNCHANGED vars => DocumentInv'
BY DEF vars, document, tasks, selection, DocumentInv, DetailIsNewest, TypeOK,
       Threads, WorkersOrdered, Mine, Bounded, ResultsAreWhole,
       ResultsBounded, PrimaryPending, AnimationPublishedOnce,
       CollectionOwned, CollectionPending, DetailPending, OpenDocument

LEMMA NextKeeps == DocumentInv /\ [Next]_vars => DocumentInv'
<1> SUFFICES ASSUME DocumentInv, [Next]_vars
             PROVE  DocumentInv'
  OBVIOUS
<1>1. CASE User
  BY <1>1, OpenFileKeeps, CloseKeeps, SelectChunkKeeps, DeselectChunkKeeps,
     RequestStatisticsKeeps, CancelStatisticsKeeps DEF User
<1>2. ASSUME NEW w \in Threads, Post(w) \/ Handle(w)
      PROVE  DocumentInv'
  BY <1>2, PostKeeps, PlainDoneKeeps, StageDoneKeeps, AnimationDoneKeeps,
     DetailDoneKeeps, StatisticsDoneKeeps, FinishedKeeps DEF Handle
<1>3. CASE UNCHANGED vars
  BY <1>3, StutterKeeps
<1>4. QED
  BY <1>1, <1>2, <1>3 DEF Next

(* In every reachable state, with any kinds of plain task and any bounds,  *)
(* the inductive invariant of the session holds.                           *)
THEOREM Inductive == Spec => []DocumentInv
BY InitInv, NextKeeps, PTL DEF Spec

(* replace(), close() and the handlers: the session never holds a result   *)
(* of another document or of a worker that still runs, whatever the order  *)
(* in which the signals of its threads arrive.                             *)
THEOREM WholeTheorem == Spec => []ResultsAreWhole
<1>1. DocumentInv => ResultsAreWhole
  BY DEF DocumentInv
<1>2. QED
  BY Inductive, <1>1, PTL

(* onStageDone() and onAnimationDone(): an animation is published once,    *)
(* whichever of the two comes first.                                       *)
THEOREM PublishedTheorem == Spec => []AnimationPublishedOnce
<1>1. DocumentInv => AnimationPublishedOnce
  BY DEF DocumentInv
<1>2. QED
  BY Inductive, <1>1, PTL

(* startStatistics(): of two collections that run at once, one is of an    *)
(* earlier document and was told to stop.                                  *)
THEOREM CollectionTheorem == Spec => []OneCollection
<1>1. DocumentInv => OneCollection
  BY DEF DocumentInv, CollectionOwned, OneCollection
<1>2. QED
  BY Inductive, <1>1, PTL

(* onChunkDetailDone(): the pane shows the selected chunk, or waits for a  *)
(* worker that will fill it; no pointer is to a deleted worker.            *)
THEOREM DetailTheorem == Spec => []DetailIsNewest
<1>1. DocumentInv => DetailIsNewest
  BY DEF DocumentInv
<1>2. QED
  BY Inductive, <1>1, PTL

(* When the threads are gone nothing that was asked for is missing.        *)
THEOREM ForgottenTheorem == Spec => []NothingForgotten
<1>1. DocumentInv => NothingForgotten
  <2> SUFFICES ASSUME DocumentInv, source, Threads = {}
               PROVE  /\ \A k \in Primary : result[k] # None
                      /\ requested => result["statistics"] # None
    BY DEF NothingForgotten
  <2>1. \A k \in Kinds : slot[k] = None
    BY DEF DocumentInv, DetailIsNewest, TypeOK
  <2>2. \A k \in Primary : result[k] # None
    BY <2>1, KindsAre DEF DocumentInv, PrimaryPending
  <2>3. QED
    BY <2>1, <2>2, KindsAre DEF DocumentInv, CollectionPending
<1>2. QED
  BY Inductive, <1>1, PTL
=============================================================================
