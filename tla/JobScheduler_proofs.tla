------------------------ MODULE JobScheduler_proofs -------------------------
(***************************************************************************)
(* Proofs about JobScheduler, for any number of workers and jobs, any      *)
(* priorities and reservations, and any budget that fits the counter       *)
(* twice.                                                                  *)
(***************************************************************************)
EXTENDS JobScheduler, FiniteSetTheorems, TLAPS

(***************************************************************************)
(* Arithmetic of the unsigned byte counter.                                *)
(***************************************************************************)

(* A sum below the word size is not changed by the counter's width.        *)
LEMMA ModSmall ==
  ASSUME NEW n \in Nat, NEW m \in Nat, n < m
  PROVE  n % m = n
OBVIOUS

(* A subtraction done as an addition modulo the word size.                 *)
LEMMA ModShift ==
  ASSUME NEW n \in Nat, NEW m \in Nat, n < m
  PROVE  (n + m) % m = n
OBVIOUS

(* Whatever is reduced modulo the word size is a word.                     *)
LEMMA ModRange ==
  ASSUME NEW n \in Int, NEW m \in Nat, m > 0
  PROVE  n % m \in 0..(m - 1)
OBVIOUS

(***************************************************************************)
(* Type correctness.                                                       *)
(***************************************************************************)

PCs == HasJob \union {"asleep", "woken", "delivering", "locked", "exited"}

LEMMA TypeInit == Init => TypeOK
<1> SUFFICES ASSUME Init PROVE TypeOK
  OBVIOUS
<1>1. running_reserved \in 0..(Word - 1)
  BY SchedulerAssumption DEF Init
<1>2. \A w \in Workers : job[w] # NoJob <=> pc[w] \in HasJob \union {"delivering"}
  BY DEF Init, HasJob
<1>3. pc \in [Workers -> PCs]
  BY DEF Init, PCs
<1>4. older \in SUBSET (Jobs \X Jobs)
  BY DEF Init
<1>5. QED
  BY <1>1, <1>2, <1>3, <1>4, SchedulerAssumption DEF Init, TypeOK, PCs, Outcomes

LEMMA TypeClient == TypeOK /\ Client => TypeOK'
<1> SUFFICES ASSUME TypeOK, Client PROVE TypeOK'
  OBVIOUS
<1> USE SchedulerAssumption
<1>1. CASE SetResultSink
  BY <1>1 DEF SetResultSink, TypeOK
<1>2. ASSUME NEW j \in Jobs, NEW g \in Generations, Submit(j, g)
      PROVE  TypeOK'
  <2>1. CASE pc' = pc
    BY <1>2, <2>1 DEF Submit, Youngest, TypeOK, Outcomes
  <2>2. ASSUME NEW w \in Workers, pc[w] = "asleep",
               pc' = [pc EXCEPT ![w] = "woken"]
        PROVE  TypeOK'
    BY <1>2, <2>2 DEF Submit, Youngest, TypeOK, HasJob, Outcomes
  <2>3. QED
    BY <1>2, <2>1, <2>2 DEF Submit, NotifyOne
<1>3. ASSUME NEW j \in Jobs, RequestCancel(j)
      PROVE  TypeOK'
  BY <1>3 DEF RequestCancel, TypeOK
<1>4. ASSUME NEW g \in Generations, SetDocumentGeneration(g)
      PROVE  TypeOK'
  BY <1>4 DEF SetDocumentGeneration, NotifyAll, TypeOK, HasJob, Outcomes
<1>5. ASSUME NEW c \in Callers, ShutdownFirst(c)
      PROVE  TypeOK'
  BY <1>5 DEF ShutdownFirst, NotifyAll, TypeOK, HasJob, Outcomes
<1>6. ASSUME NEW c \in Callers, ShutdownAgain(c)
      PROVE  TypeOK'
  BY <1>6 DEF ShutdownAgain, TypeOK
<1>7. ASSUME NEW c \in Callers, ShutdownJoined(c)
      PROVE  TypeOK'
  BY <1>7 DEF ShutdownJoined, TypeOK
<1>8. QED
  BY <1>1, <1>2, <1>3, <1>4, <1>5, <1>6, <1>7 DEF Client

LEMMA TypeWorker ==
  ASSUME TypeOK, NEW w \in Workers, Worker(w) \/ SpuriousWake(w)
  PROVE  TypeOK'
<1> USE SchedulerAssumption
<1>0. \A n \in Int : n % Word \in 0..(Word - 1)
  BY ModRange
<1>1. CASE Sleep(w)
  BY <1>1 DEF Sleep, AtTop, clientVars, TypeOK, HasJob
<1>2. CASE Exit(w)
  BY <1>2 DEF Exit, AtTop, clientVars, TypeOK, HasJob
<1>3. CASE Pick(w)
  BY <1>0, <1>3 DEF Pick, AtTop, RunnableJobs, clientVars, TypeOK, HasJob
<1>4. CASE StartWork(w)
  BY <1>4 DEF StartWork, clientVars, TypeOK, HasJob
<1>5. CASE EndWork(w)
  BY <1>5 DEF EndWork, clientVars, TypeOK, HasJob
<1>6. CASE EnterSink(w)
  BY <1>0, <1>6 DEF EnterSink, Release, clientVars, TypeOK, HasJob, Outcomes
<1>7. CASE LeaveSink(w)
  BY <1>7 DEF LeaveSink, NotifyAll, clientVars, TypeOK, HasJob
<1>8. CASE Suppress(w)
  BY <1>0, <1>8 DEF Suppress, Release, NotifyAll, clientVars, TypeOK, HasJob, Outcomes
<1>9. CASE SpuriousWake(w)
  BY <1>9 DEF SpuriousWake, clientVars, TypeOK, HasJob
<1>10. QED
  BY <1>1, <1>2, <1>3, <1>4, <1>5, <1>6, <1>7, <1>8, <1>9 DEF Worker

LEMMA TypeStutter == TypeOK /\ UNCHANGED vars => TypeOK'
BY DEF TypeOK, vars

(* Every reachable state is well typed, and a worker owns a job exactly    *)
(* between picking it and the return of its delivery.                      *)
THEOREM TypeCorrect == Spec => []TypeOK
<1>1. TypeOK /\ [Next]_vars => TypeOK'
  BY TypeClient, TypeWorker, TypeStutter DEF Next
<1>2. QED
  BY TypeInit, <1>1, PTL DEF Spec

(***************************************************************************)
(* The memory budget.                                                      *)
(*                                                                         *)
(* The strengthening: queued and held jobs fit the budget alone, and the   *)
(* counter is exactly the number of bytes in the hands of the workers.     *)
(***************************************************************************)
Fits(j) == Reservation[j] <= MaxReserved

JobsFit ==
  /\ \A j \in queue : Fits(j)
  /\ \A w \in Workers : pc[w] \in HasJob => Fits(job[w])

Ledger ==
  /\ IsFiniteSet(HeldBytes)
  /\ LedgerExact
  /\ BudgetHeld

BudgetInv == TypeOK /\ JobsFit /\ Ledger

(* The bytes of a worker with a job, as a finite set of the right size.    *)
LEMMA BytesOfJob ==
  ASSUME NEW w, NEW n \in Nat
  PROVE  /\ IsFiniteSet({w} \X (1..n))
         /\ Cardinality({w} \X (1..n)) = n
<1>1. IsFiniteSet({w}) /\ Cardinality({w}) = 1
  BY FS_Singleton
<1>2. IsFiniteSet(1..n) /\ Cardinality(1..n) = n
  BY FS_Interval
<1>3. /\ IsFiniteSet({w} \X (1..n))
      /\ Cardinality({w} \X (1..n)) = Cardinality({w}) * Cardinality(1..n)
  BY <1>1, <1>2, FS_Product, Zenon
<1>4. QED
  BY <1>1, <1>2, <1>3

(* If no worker takes up or lays down a job, nothing held changes.         *)
LEMMA HeldSame ==
  ASSUME \A w \in Workers : BytesOf(w)' = BytesOf(w)
  PROVE  HeldBytes' = HeldBytes
BY DEF HeldBytes

(* A worker that takes up a job adds exactly its reservation.              *)
LEMMA HeldGrows ==
  ASSUME SchedulerAssumption, NEW w \in Workers, NEW n \in Nat,
         IsFiniteSet(HeldBytes),
         BytesOf(w) = {},
         BytesOf(w)' = {w} \X (1..n),
         \A v \in Workers \ {w} : BytesOf(v)' = BytesOf(v)
  PROVE  /\ IsFiniteSet(HeldBytes')
         /\ Cardinality(HeldBytes') = Cardinality(HeldBytes) + n
<1> DEFINE B == {w} \X (1..n)
<1>1. HeldBytes' = HeldBytes \union B
  BY DEF HeldBytes
<1>2. HeldBytes \intersect B = {}
  <2>1. ASSUME NEW v \in Workers, NEW x \in BytesOf(v), x \in B
        PROVE  FALSE
    <3>1. v # w
      BY <2>1
    <3>2. x \in {v} \X (1..Reservation[job[v]])
      BY <2>1 DEF BytesOf
    <3>3. QED
      BY <2>1, <3>1, <3>2
  <2>2. QED
    BY <2>1 DEF HeldBytes
<1>3. IsFiniteSet(B) /\ Cardinality(B) = n
  BY BytesOfJob
<1>4. Cardinality(HeldBytes \intersect B) = 0
  BY <1>2, FS_EmptySet
<1>5. Cardinality(HeldBytes) \in Nat
  BY FS_CardinalityType
<1>6. /\ IsFiniteSet(HeldBytes \union B)
      /\ Cardinality(HeldBytes \union B) =
           Cardinality(HeldBytes) + Cardinality(B)
                                  - Cardinality(HeldBytes \intersect B)
  BY <1>3, FS_Union, Zenon
<1>7. QED
  BY <1>1, <1>3, <1>4, <1>5, <1>6

(* A worker that lays down its job gives exactly its reservation back.     *)
LEMMA HeldShrinks ==
  ASSUME SchedulerAssumption, NEW w \in Workers, NEW n \in Nat,
         IsFiniteSet(HeldBytes),
         BytesOf(w) = {w} \X (1..n),
         BytesOf(w)' = {},
         \A v \in Workers \ {w} : BytesOf(v)' = BytesOf(v)
  PROVE  /\ IsFiniteSet(HeldBytes')
         /\ Cardinality(HeldBytes') = Cardinality(HeldBytes) - n
         /\ n <= Cardinality(HeldBytes)
<1> DEFINE B == {w} \X (1..n)
<1>1. HeldBytes' = HeldBytes \ B
  <2>1. ASSUME NEW v \in Workers \ {w}, NEW x \in BytesOf(v), x \in B
        PROVE  FALSE
    <3>1. x \in {v} \X (1..Reservation[job[v]])
      BY <2>1 DEF BytesOf
    <3>2. QED
      BY <2>1, <3>1
  <2>2. QED
    BY <2>1 DEF HeldBytes
<1>2. B \subseteq HeldBytes
  BY DEF HeldBytes
<1>3. IsFiniteSet(B) /\ Cardinality(B) = n
  BY BytesOfJob
<1>4. HeldBytes \intersect B = B
  BY <1>2
<1>5. Cardinality(B) <= Cardinality(HeldBytes)
  BY <1>2, FS_Subset
<1>6. /\ IsFiniteSet(HeldBytes \ B)
      /\ Cardinality(HeldBytes \ B) =
           Cardinality(HeldBytes) - Cardinality(HeldBytes \intersect B)
  BY FS_Difference, Zenon
<1>7. QED
  BY <1>1, <1>3, <1>4, <1>5, <1>6

LEMMA BudgetInit == Init => BudgetInv
<1> SUFFICES ASSUME Init PROVE BudgetInv
  OBVIOUS
<1>1. HeldBytes = {}
  BY DEF Init, HeldBytes, BytesOf, HasJob
<1>2. Cardinality(HeldBytes) = 0 /\ IsFiniteSet(HeldBytes)
  BY <1>1, FS_EmptySet
<1>3. JobsFit
  BY DEF Init, JobsFit, HasJob
<1>4. Ledger
  BY <1>2, SchedulerAssumption DEF Init, Ledger, LedgerExact, BudgetHeld
<1>5. QED
  BY <1>3, <1>4, TypeInit DEF BudgetInv

(* A step that leaves the running jobs and the counter alone keeps the     *)
(* ledger.                                                                 *)
LEMMA LedgerKept ==
  ASSUME Ledger, running_reserved' = running_reserved,
         \A w \in Workers : BytesOf(w)' = BytesOf(w)
  PROVE  Ledger'
<1>1. HeldBytes' = HeldBytes
  BY HeldSame
<1>2. QED
  BY <1>1 DEF Ledger, LedgerExact, BudgetHeld

LEMMA BudgetClient ==
  ASSUME BudgetInv, Client
  PROVE  BudgetInv'
<1>1. TypeOK /\ TypeOK'
  BY TypeClient DEF BudgetInv
<1> DEFINE Keeps ==
      /\ running_reserved' = running_reserved
      /\ job' = job
      /\ \A w \in Workers : pc'[w] \in HasJob <=> pc[w] \in HasJob
      /\ queue' \subseteq queue \union {j \in Jobs : Fits(j)}
<1>2. Keeps
  <2>1. CASE SetResultSink
    BY <2>1 DEF SetResultSink
  <2>2. ASSUME NEW j \in Jobs, NEW g \in Generations, Submit(j, g)
        PROVE  Keeps
    BY <1>1, <2>2 DEF Submit, NotifyOne, Fits, TypeOK, HasJob
  <2>3. ASSUME NEW j \in Jobs, RequestCancel(j)
        PROVE  Keeps
    BY <2>3 DEF RequestCancel
  <2>4. ASSUME NEW g \in Generations, SetDocumentGeneration(g)
        PROVE  Keeps
    BY <1>1, <2>4 DEF SetDocumentGeneration, NotifyAll, TypeOK, HasJob
  <2>5. ASSUME NEW c \in Callers, ShutdownFirst(c)
        PROVE  Keeps
    BY <1>1, <2>5 DEF ShutdownFirst, NotifyAll, TypeOK, HasJob
  <2>6. ASSUME NEW c \in Callers, ShutdownAgain(c) \/ ShutdownJoined(c)
        PROVE  Keeps
    BY <2>6 DEF ShutdownAgain, ShutdownJoined
  <2>7. QED
    BY <2>1, <2>2, <2>3, <2>4, <2>5, <2>6 DEF Client
<1>3. \A w \in Workers : BytesOf(w)' = BytesOf(w)
  BY <1>2 DEF BytesOf
<1>4. Ledger'
  BY <1>2, <1>3, LedgerKept DEF BudgetInv
<1>5. JobsFit'
  BY <1>2 DEF BudgetInv, JobsFit, Fits
<1>6. QED
  BY <1>1, <1>4, <1>5 DEF BudgetInv

LEMMA BudgetWorker ==
  ASSUME BudgetInv, NEW w \in Workers, Worker(w) \/ SpuriousWake(w)
  PROVE  BudgetInv'
<1> USE SchedulerAssumption
<1>1. TypeOK /\ TypeOK'
  BY TypeWorker DEF BudgetInv
<1>2. IsFiniteSet(HeldBytes) /\ running_reserved = Cardinality(HeldBytes)
  BY DEF BudgetInv, Ledger, LedgerExact
<1>3. /\ running_reserved \in Nat
      /\ running_reserved <= MaxReserved
  BY <1>1, <1>2 DEF BudgetInv, Ledger, BudgetHeld, TypeOK
<1>4. ASSUME running_reserved' = running_reserved, job' = job, queue' = queue,
             \A v \in Workers : pc'[v] \in HasJob <=> pc[v] \in HasJob
      PROVE  BudgetInv'
  <2>1. \A v \in Workers : BytesOf(v)' = BytesOf(v)
    BY <1>4 DEF BytesOf
  <2>2. Ledger'
    BY <1>4, <2>1, LedgerKept DEF BudgetInv
  <2>3. QED
    BY <1>1, <1>4, <2>2 DEF BudgetInv, JobsFit, Fits
<1>5. CASE Sleep(w) \/ Exit(w) \/ StartWork(w) \/ EndWork(w) \/ SpuriousWake(w)
  <2>1. /\ running_reserved' = running_reserved /\ job' = job /\ queue' = queue
        /\ \A v \in Workers : pc'[v] \in HasJob <=> pc[v] \in HasJob
    BY <1>1, <1>5 DEF Sleep, Exit, AtTop, StartWork, EndWork, SpuriousWake,
                      TypeOK, HasJob
  <2>2. QED
    BY <2>1, <1>4
<1>6. CASE Pick(w)
  <2>1. PICK j \in RunnableJobs :
          /\ queue' = queue \ {j}
          /\ job' = [job EXCEPT ![w] = j]
          /\ running_reserved' = (running_reserved + Reservation[j]) % Word
    BY <1>6 DEF Pick
  <2>2. /\ j \in Jobs /\ j \in queue
        /\ Reservation[j] \in Nat /\ Reservation[j] <= MaxReserved
    BY <1>1, <2>1 DEF RunnableJobs, BudgetInv, JobsFit, Fits, TypeOK
  <2>3. (running_reserved + Reservation[j]) % Word
          = running_reserved + Reservation[j]
    BY <1>3, <2>2, ModSmall
  <2>4. running_reserved + Reservation[j] <= MaxReserved
    <3>1. (Reservation[j] + running_reserved) % Word <= MaxReserved
      BY <2>1 DEF RunnableJobs, Runnable
    <3>2. (Reservation[j] + running_reserved) % Word
            = Reservation[j] + running_reserved
      BY <1>3, <2>2, ModSmall
    <3>3. QED
      BY <1>3, <2>2, <3>1, <3>2
  <2>5. /\ BytesOf(w) = {}
        /\ BytesOf(w)' = {w} \X (1..Reservation[j])
        /\ \A v \in Workers \ {w} : BytesOf(v)' = BytesOf(v)
    BY <1>1, <1>6, <2>1 DEF Pick, AtTop, BytesOf, TypeOK, HasJob
  <2>6. /\ IsFiniteSet(HeldBytes')
        /\ Cardinality(HeldBytes') = Cardinality(HeldBytes) + Reservation[j]
    BY <1>2, <2>2, <2>5, HeldGrows
  <2>7. Ledger'
    BY <1>2, <2>1, <2>3, <2>4, <2>6 DEF Ledger, LedgerExact, BudgetHeld
  <2>8. JobsFit'
    BY <1>1, <1>6, <2>1, <2>2 DEF Pick, AtTop, BudgetInv, JobsFit, Fits, TypeOK, HasJob
  <2>9. QED
    BY <1>1, <2>7, <2>8 DEF BudgetInv
<1>7. CASE EnterSink(w) \/ Suppress(w)
  <2> DEFINE n == Reservation[job[w]]
  <2>1. /\ pc[w] \in HasJob /\ job[w] \in Jobs
        /\ n \in Nat /\ n <= MaxReserved
    BY <1>1, <1>7 DEF EnterSink, Suppress, BudgetInv, JobsFit, Fits, TypeOK, HasJob
  <2>2. /\ queue' = queue
        /\ running_reserved' = (running_reserved + Word - n) % Word
        /\ pc'[w] \notin HasJob
        /\ \A v \in Workers \ {w} :
             job'[v] = job[v] /\ (pc'[v] \in HasJob <=> pc[v] \in HasJob)
    BY <1>1, <1>7 DEF EnterSink, Suppress, Release, NotifyAll, TypeOK, HasJob
  <2>3. /\ BytesOf(w) = {w} \X (1..n)
        /\ BytesOf(w)' = {}
        /\ \A v \in Workers \ {w} : BytesOf(v)' = BytesOf(v)
    BY <2>1, <2>2 DEF BytesOf
  <2>4. /\ IsFiniteSet(HeldBytes')
        /\ Cardinality(HeldBytes') = Cardinality(HeldBytes) - n
        /\ n <= Cardinality(HeldBytes)
    BY <1>2, <2>1, <2>3, HeldShrinks
  <2>5. running_reserved' = running_reserved - n
    <3> DEFINE r == running_reserved - n
    <3>1. r \in Nat /\ r < Word
      BY <1>2, <1>3, <2>1, <2>4
    <3>2. (r + Word) % Word = r
      BY <3>1, ModShift
    <3>3. running_reserved + Word - n = r + Word
      BY <1>3, <2>1
    <3>4. QED
      BY <2>2, <3>2, <3>3
  <2>6. Ledger'
    BY <1>2, <1>3, <2>1, <2>4, <2>5 DEF Ledger, LedgerExact, BudgetHeld
  <2>7. JobsFit'
    BY <2>2 DEF BudgetInv, JobsFit, Fits
  <2>8. QED
    BY <1>1, <2>6, <2>7 DEF BudgetInv
<1>8. CASE LeaveSink(w)
  <2>1. /\ running_reserved' = running_reserved /\ queue' = queue
        /\ pc[w] \notin HasJob /\ pc'[w] \notin HasJob
        /\ \A v \in Workers \ {w} :
             job'[v] = job[v] /\ (pc'[v] \in HasJob <=> pc[v] \in HasJob)
    BY <1>1, <1>8 DEF LeaveSink, NotifyAll, TypeOK, HasJob
  <2>2. \A v \in Workers : BytesOf(v)' = BytesOf(v)
    BY <2>1 DEF BytesOf
  <2>3. Ledger'
    BY <2>1, <2>2, LedgerKept DEF BudgetInv
  <2>4. JobsFit'
    BY <2>1 DEF BudgetInv, JobsFit, Fits
  <2>5. QED
    BY <1>1, <2>3, <2>4 DEF BudgetInv
<1>9. QED
  BY <1>5, <1>6, <1>7, <1>8 DEF Worker

LEMMA BudgetStutter == BudgetInv /\ UNCHANGED vars => BudgetInv'
BY TypeStutter DEF BudgetInv, JobsFit, Fits, Ledger, LedgerExact, BudgetHeld,
                   HeldBytes, BytesOf, vars

LEMMA BudgetInductive == Spec => []BudgetInv
<1>1. BudgetInv /\ [Next]_vars => BudgetInv'
  BY BudgetStutter, BudgetClient, BudgetWorker DEF Next
<1>2. QED
  BY BudgetInit, <1>1, PTL DEF Spec

(* However many workers there are and however they interleave, the running *)
(* jobs together never hold more memory than the budget.                   *)
THEOREM BudgetTheorem == Spec => []BudgetHeld
<1>1. BudgetInv => BudgetHeld
  BY DEF BudgetInv, Ledger
<1>2. QED
  BY BudgetInductive, <1>1, PTL

(* The counter read by the admission test is at all times the memory held. *)
THEOREM LedgerTheorem == Spec => []LedgerExact
<1>1. BudgetInv => LedgerExact
  BY DEF BudgetInv, Ledger
<1>2. QED
  BY BudgetInductive, <1>1, PTL

(***************************************************************************)
(* Deliveries and ownership.                                               *)
(***************************************************************************)
SinkInv == TypeOK /\ SinkIsCurrent

LEMMA SinkClient ==
  ASSUME SinkInv, Client
  PROVE  SinkIsCurrent'
<1> USE SchedulerAssumption DEF SinkInv, SinkIsCurrent, MutexFree
<1>1. CASE holder = None
  <2>1. \A w \in Workers : pc[w] # "delivering"
    BY <1>1
  <2>2. \A w \in Workers : pc'[w] # "delivering"
    BY <2>1 DEF Client, SetResultSink, Submit, NotifyOne, RequestCancel,
                SetDocumentGeneration, ShutdownFirst, ShutdownAgain,
                ShutdownJoined, NotifyAll, TypeOK
  <2>3. QED
    BY <2>2
<1>2. CASE holder # None
  BY <1>2 DEF Client, SetResultSink, Submit, RequestCancel,
              SetDocumentGeneration, ShutdownFirst, ShutdownAgain,
              ShutdownJoined
<1>3. QED
  BY <1>1, <1>2

LEMMA SinkWorker ==
  ASSUME SinkInv, NEW w \in Workers, Worker(w) \/ SpuriousWake(w)
  PROVE  SinkIsCurrent'
<1> USE SchedulerAssumption DEF SinkInv, SinkIsCurrent, MutexFree, TypeOK
<1>1. CASE Sleep(w) \/ Exit(w) \/ Pick(w)
  BY <1>1 DEF Sleep, Exit, Pick, AtTop, clientVars
<1>2. CASE StartWork(w) \/ EndWork(w) \/ SpuriousWake(w)
  BY <1>2 DEF StartWork, EndWork, SpuriousWake, clientVars
<1>3. CASE EnterSink(w)
  BY <1>3 DEF EnterSink, Deliverable, clientVars
<1>4. CASE LeaveSink(w) \/ Suppress(w)
  BY <1>4 DEF LeaveSink, Suppress, NotifyAll, clientVars
<1>5. QED
  BY <1>1, <1>2, <1>3, <1>4 DEF Worker

(* While the sink is being called neither the generation nor the shutdown  *)
(* flag can change: what it receives belongs to the current document.      *)
THEOREM SinkTheorem == Spec => []SinkIsCurrent
<1>1. Init => SinkInv
  BY TypeInit DEF Init, SinkInv, SinkIsCurrent
<1>2. SinkInv /\ UNCHANGED vars => SinkInv'
  BY TypeStutter DEF SinkInv, SinkIsCurrent, vars
<1>3. SinkInv /\ [Next]_vars => SinkInv'
  BY <1>2, SinkClient, SinkWorker, TypeClient, TypeWorker DEF SinkInv, Next
<1>4. SinkInv => SinkIsCurrent
  BY DEF SinkInv
<1>5. QED
  BY <1>1, <1>3, <1>4, PTL DEF Spec

OwnerInv == TypeOK /\ OneOwner

LEMMA OwnerClient ==
  ASSUME OwnerInv, Client
  PROVE  OneOwner'
<1> USE DEF OwnerInv, OneOwner, TypeOK, HasJob
<1>1. CASE SetResultSink
  BY <1>1 DEF SetResultSink
<1>2. ASSUME NEW j \in Jobs, NEW g \in Generations, Submit(j, g)
      PROVE  OneOwner'
  <2>1. \A w \in Workers : pc'[w] \in HasJob <=> pc[w] \in HasJob
    BY <1>2 DEF Submit, NotifyOne
  <2>2. job' = job /\ queue' = queue \union {j} /\ outcome[j] # "pending"
        /\ outcome' = [outcome EXCEPT ![j] = "pending"]
    BY <1>2 DEF Submit
  <2>3. QED
    BY <2>1, <2>2
<1>3. ASSUME NEW j \in Jobs, RequestCancel(j)
      PROVE  OneOwner'
  BY <1>3 DEF RequestCancel
<1>4. ASSUME NEW g \in Generations, SetDocumentGeneration(g)
      PROVE  OneOwner'
  BY <1>4 DEF SetDocumentGeneration, NotifyAll
<1>5. ASSUME NEW c \in Callers, ShutdownFirst(c)
      PROVE  OneOwner'
  BY <1>5 DEF ShutdownFirst, NotifyAll
<1>6. ASSUME NEW c \in Callers, ShutdownAgain(c) \/ ShutdownJoined(c)
      PROVE  OneOwner'
  BY <1>6 DEF ShutdownAgain, ShutdownJoined
<1>7. QED
  BY <1>1, <1>2, <1>3, <1>4, <1>5, <1>6 DEF Client

LEMMA OwnerWorker ==
  ASSUME OwnerInv, NEW w \in Workers, Worker(w) \/ SpuriousWake(w)
  PROVE  OneOwner'
<1> USE DEF OwnerInv, OneOwner, TypeOK, HasJob
<1>1. CASE Sleep(w) \/ Exit(w)
  BY <1>1 DEF Sleep, Exit, AtTop, clientVars
<1>2. CASE Pick(w)
  BY <1>2 DEF Pick, AtTop, RunnableJobs, clientVars
<1>3. CASE StartWork(w) \/ EndWork(w) \/ SpuriousWake(w)
  BY <1>3 DEF StartWork, EndWork, SpuriousWake, clientVars
<1>4. CASE EnterSink(w)
  BY <1>4 DEF EnterSink, clientVars
<1>5. CASE LeaveSink(w)
  BY <1>5 DEF LeaveSink, NotifyAll, clientVars
<1>6. CASE Suppress(w)
  BY <1>6 DEF Suppress, NotifyAll, clientVars
<1>7. QED
  BY <1>1, <1>2, <1>3, <1>4, <1>5, <1>6 DEF Worker

(* No job is ever run twice or lost between the queue and the workers.     *)
THEOREM OwnerTheorem == Spec => []OneOwner
<1>1. Init => OwnerInv
  BY TypeInit DEF Init, OwnerInv, OneOwner, HasJob
<1>2. OwnerInv /\ UNCHANGED vars => OwnerInv'
  BY TypeStutter DEF OwnerInv, OneOwner, vars
<1>3. OwnerInv /\ [Next]_vars => OwnerInv'
  BY <1>2, OwnerClient, OwnerWorker, TypeClient, TypeWorker DEF OwnerInv, Next
<1>4. OwnerInv => OneOwner
  BY DEF OwnerInv
<1>5. QED
  BY <1>1, <1>3, <1>4, PTL DEF Spec

(***************************************************************************)
(* Wake-ups.                                                               *)
(*                                                                         *)
(* The strengthening says who holds the mutex, and that a worker at the    *)
(* top of the loop with the mutex in its hands has woken everyone: it      *)
(* comes from its notify_all and nobody has been able to wait since.       *)
(***************************************************************************)
Sleepers == {w \in Workers : pc[w] = "asleep"}

Woken == {w \in Workers : pc[w] = "woken"}

HolderKnown ==
  \A w \in Workers : holder = w <=> pc[w] \in {"delivering", "locked"}

LockedAwake == (\E w \in Workers : pc[w] = "locked") => Sleepers = {}

Covered ==
  MutexFree /\ Sleepers # {} => Cardinality(RunnableJobs) <= Cardinality(Woken)

WakeInv == BudgetInv /\ QueueClosed /\ HolderKnown /\ LockedAwake /\ Covered

LEMMA WakeFinite ==
  ASSUME TypeOK
  PROVE  /\ IsFiniteSet(RunnableJobs) /\ Cardinality(RunnableJobs) \in Nat
         /\ IsFiniteSet(Woken) /\ Cardinality(Woken) \in Nat
<1>1. RunnableJobs \subseteq Jobs /\ Woken \subseteq Workers
  BY DEF RunnableJobs, Woken, TypeOK
<1>2. IsFiniteSet(RunnableJobs) /\ IsFiniteSet(Woken)
  BY <1>1, SchedulerAssumption, FS_Subset
<1>3. QED
  BY <1>2, FS_CardinalityType

(* The admission test without the modulus: the sum fits the counter.       *)
LEMMA AdmissionExact ==
  ASSUME NEW n \in 0..MaxReserved, NEW r \in 0..MaxReserved
  PROVE  (n + r) % Word = n + r
<1>1. n + r \in Nat /\ n + r < Word
  BY SchedulerAssumption
<1>2. QED
  BY <1>1, SchedulerAssumption, ModSmall

LEMMA RunnableExact ==
  ASSUME BudgetInv
  PROVE  /\ running_reserved \in 0..MaxReserved
         /\ \A j \in queue :
              /\ Reservation[j] \in 0..MaxReserved
              /\ Runnable(j) <=> Reservation[j] + running_reserved <= MaxReserved
<1>1. running_reserved \in 0..MaxReserved
  BY SchedulerAssumption DEF BudgetInv, Ledger, LedgerExact, BudgetHeld, TypeOK
<1>2. ASSUME NEW j \in queue
      PROVE  Reservation[j] \in 0..MaxReserved
  BY <1>2, SchedulerAssumption DEF BudgetInv, JobsFit, Fits, TypeOK
<1>3. QED
  BY <1>1, <1>2, AdmissionExact DEF Runnable

(* Memory taken by one job only makes others wait.                         *)
LEMMA RunnableShrinks ==
  ASSUME BudgetInv, BudgetInv', queue' \subseteq queue,
         running_reserved <= running_reserved'
  PROVE  RunnableJobs' \subseteq RunnableJobs
<1>1. running_reserved' \in 0..MaxReserved
  BY SchedulerAssumption DEF BudgetInv, Ledger, LedgerExact, BudgetHeld, TypeOK
<1>2. ASSUME NEW k \in RunnableJobs'
      PROVE  k \in RunnableJobs
  <2>1. /\ k \in queue' /\ k \in queue
        /\ (Reservation[k] + running_reserved') % Word <= MaxReserved
    BY <1>2 DEF RunnableJobs, Runnable
  <2>2. Reservation[k] \in 0..MaxReserved /\ running_reserved \in 0..MaxReserved
    BY <2>1, RunnableExact
  <2>3. Reservation[k] + running_reserved' <= MaxReserved
    BY <1>1, <2>1, <2>2, AdmissionExact
  <2>4. Reservation[k] + running_reserved <= MaxReserved
    BY <1>1, <2>2, <2>3, SchedulerAssumption
  <2>5. QED
    BY <2>1, <2>4, RunnableExact DEF RunnableJobs
<1>3. QED
  BY <1>2


LEMMA WakeInit == Init => WakeInv
<1> SUFFICES ASSUME Init PROVE WakeInv
  OBVIOUS
<1>1. Sleepers = {}
  BY DEF Init, Sleepers
<1>2. QueueClosed /\ HolderKnown
  BY SchedulerAssumption DEF Init, QueueClosed, HolderKnown
<1>3. QED
  BY <1>1, <1>2, BudgetInit DEF WakeInv, LockedAwake, Covered

(* A step that wakes everybody loses nobody.                               *)
LEMMA AllAwake ==
  ASSUME TypeOK, NEW p \in [Workers -> PCs], pc' = NotifyAll(p)
  PROVE  Sleepers' = {}
BY DEF Sleepers, NotifyAll, PCs, HasJob

(* One more woken worker.                                                  *)
LEMMA OneWoken ==
  ASSUME TypeOK, NEW w \in Workers, pc[w] = "asleep",
         pc' = [pc EXCEPT ![w] = "woken"]
  PROVE  /\ Sleepers' \subseteq Sleepers
         /\ Cardinality(Woken') = Cardinality(Woken) + 1
<1>1. Woken' = Woken \union {w} /\ w \notin Woken
  BY DEF Woken, TypeOK
<1>2. IsFiniteSet(Woken)
  BY WakeFinite
<1>3. Cardinality(Woken') = Cardinality(Woken) + 1
  BY <1>1, <1>2, FS_AddElement
<1>4. QED
  BY <1>3 DEF Sleepers, TypeOK

LEMMA WakeClient ==
  ASSUME WakeInv, Client
  PROVE  WakeInv'
<1>1. BudgetInv' /\ TypeOK /\ TypeOK'
  BY BudgetClient DEF WakeInv, BudgetInv
<1>2. /\ IsFiniteSet(RunnableJobs) /\ Cardinality(RunnableJobs) \in Nat
      /\ IsFiniteSet(Woken) /\ Cardinality(Woken) \in Nat
  BY <1>1, WakeFinite
<1>3. ASSUME pc' = pc, holder' = holder, queue' = queue,
             running_reserved' = running_reserved, shutdown' = shutdown
      PROVE  WakeInv'
  BY <1>1, <1>3 DEF WakeInv, QueueClosed, HolderKnown, LockedAwake, Covered,
      MutexFree, Sleepers, Woken, RunnableJobs, Runnable
<1>4. ASSUME MutexFree, holder' = holder, pc' = NotifyAll(pc), QueueClosed'
      PROVE  WakeInv'
  <2>1. Sleepers' = {}
    BY <1>1, <1>4, AllAwake DEF TypeOK, PCs
  <2>2. HolderKnown'
    BY <1>1, <1>4 DEF WakeInv, HolderKnown, NotifyAll, TypeOK, HasJob
  <2>3. QED
    BY <1>1, <1>4, <2>1, <2>2 DEF WakeInv, LockedAwake, Covered
<1>5. ASSUME NEW j \in Jobs, NEW g \in Generations, Submit(j, g)
      PROVE  WakeInv'
  <2>1. /\ MutexFree /\ ~shutdown /\ holder' = holder /\ shutdown' = shutdown
        /\ running_reserved' = running_reserved
        /\ queue' = queue \union {j}
        /\ NotifyOne
    BY <1>5 DEF Submit
  <2>2. /\ IsFiniteSet(RunnableJobs \union {j})
        /\ Cardinality(RunnableJobs \union {j}) \in Nat
        /\ Cardinality(RunnableJobs \union {j}) <= Cardinality(RunnableJobs) + 1
    <3>1. /\ IsFiniteSet(RunnableJobs \union {j})
          /\ Cardinality(RunnableJobs \union {j})
               = IF j \in RunnableJobs THEN Cardinality(RunnableJobs)
                                       ELSE Cardinality(RunnableJobs) + 1
      BY <1>2, FS_AddElement, Zenon
    <3>2. QED
      BY <1>2, <3>1
  <2>3. RunnableJobs' \subseteq RunnableJobs \union {j}
    BY <2>1 DEF RunnableJobs, Runnable
  <2>4. /\ Cardinality(RunnableJobs') <= Cardinality(RunnableJobs) + 1
        /\ Cardinality(RunnableJobs') \in Nat
    BY <1>2, <2>2, <2>3, FS_Subset, FS_CardinalityType
  <2>5. QueueClosed'
    BY <2>1 DEF QueueClosed
  <2>6. CASE Sleepers = {}
    <3>1. pc' = pc
      BY <2>1, <2>6 DEF NotifyOne, Sleepers
    <3>2. Sleepers' = {} /\ HolderKnown'
      BY <2>1, <2>6, <3>1 DEF Sleepers, WakeInv, HolderKnown
    <3>3. QED
      BY <1>1, <2>5, <3>2 DEF WakeInv, LockedAwake, Covered
  <2>7. ASSUME NEW w \in Workers, pc[w] = "asleep",
               pc' = [pc EXCEPT ![w] = "woken"]
        PROVE  WakeInv'
    <3>1. /\ Sleepers' \subseteq Sleepers /\ Sleepers # {}
          /\ Cardinality(Woken') = Cardinality(Woken) + 1
      BY <1>1, <2>7, OneWoken DEF Sleepers
    <3>2. HolderKnown' /\ LockedAwake'
      BY <1>1, <2>1, <2>7, <3>1 DEF WakeInv, HolderKnown, LockedAwake, TypeOK
    <3>3. Covered'
      BY <1>2, <2>1, <2>4, <3>1 DEF WakeInv, Covered
    <3>4. QED
      BY <1>1, <2>5, <3>2, <3>3 DEF WakeInv
  <2>8. QED
    BY <2>1, <2>6, <2>7 DEF NotifyOne, Sleepers
<1>6. CASE SetResultSink
  BY <1>3, <1>6 DEF SetResultSink
<1>7. ASSUME NEW j \in Jobs, RequestCancel(j)
      PROVE  WakeInv'
  BY <1>3, <1>7 DEF RequestCancel
<1>8. ASSUME NEW g \in Generations, SetDocumentGeneration(g)
      PROVE  WakeInv'
  BY <1>4, <1>8 DEF SetDocumentGeneration, WakeInv, QueueClosed
<1>9. ASSUME NEW c \in Callers, ShutdownFirst(c)
      PROVE  WakeInv'
  BY <1>4, <1>9 DEF ShutdownFirst, QueueClosed
<1>10. ASSUME NEW c \in Callers, ShutdownAgain(c) \/ ShutdownJoined(c)
       PROVE  WakeInv'
  BY <1>3, <1>10 DEF ShutdownAgain, ShutdownJoined
<1>11. QED
  BY <1>5, <1>6, <1>7, <1>8, <1>9, <1>10 DEF Client

LEMMA WakeWorker ==
  ASSUME WakeInv, NEW w \in Workers, Worker(w) \/ SpuriousWake(w)
  PROVE  WakeInv'
<1> USE SchedulerAssumption
<1>1. BudgetInv /\ BudgetInv' /\ TypeOK /\ TypeOK'
  BY BudgetWorker DEF WakeInv, BudgetInv
<1>2. /\ IsFiniteSet(RunnableJobs) /\ Cardinality(RunnableJobs) \in Nat
      /\ IsFiniteSet(Woken) /\ Cardinality(Woken) \in Nat
  BY <1>1, WakeFinite
<1>3. CASE Sleep(w) \/ Exit(w)
  <2>1. /\ pc[w] \in {"woken", "locked"} /\ holder \in {None, w}
        /\ holder' = None /\ pc' \in {[pc EXCEPT ![w] = "asleep"],
                                      [pc EXCEPT ![w] = "exited"]}
        /\ queue' = queue /\ running_reserved' = running_reserved
        /\ shutdown' = shutdown
    BY <1>3 DEF Sleep, Exit, AtTop, MutexFree, clientVars
  <2>2. HolderKnown' /\ ~(\E v \in Workers : pc'[v] = "locked")
    BY <1>1, <2>1 DEF WakeInv, HolderKnown, TypeOK
  <2>3. RunnableJobs' = RunnableJobs /\ RunnableJobs = {}
    BY <1>3, <2>1 DEF Sleep, Exit, RunnableJobs, Runnable
  <2>4. Cardinality(RunnableJobs') = 0 /\ Cardinality(Woken') \in Nat
    <3>1. Cardinality({}) = 0
      BY FS_EmptySet
    <3>2. Woken' \subseteq Workers
      BY DEF Woken
    <3>3. QED
      BY <2>3, <3>1, <3>2, FS_Subset, FS_CardinalityType
  <2>5. QED
    BY <1>1, <2>1, <2>2, <2>4 DEF WakeInv, QueueClosed, LockedAwake, Covered
<1>4. CASE Pick(w)
  <2>1. PICK j \in RunnableJobs :
          /\ queue' = queue \ {j}
          /\ running_reserved' = (running_reserved + Reservation[j]) % Word
    BY <1>4 DEF Pick
  <2>2. /\ \/ pc[w] = "woken" /\ holder = None
           \/ pc[w] = "locked" /\ holder = w
        /\ holder' = None
        /\ pc' = [pc EXCEPT ![w] = "picked"]
        /\ shutdown' = shutdown
    BY <1>4, Zenon DEF Pick, AtTop, MutexFree, clientVars
  <2>3. HolderKnown' /\ ~(\E v \in Workers : pc'[v] = "locked")
    BY <1>1, <2>2 DEF WakeInv, HolderKnown, TypeOK
  <2>4. Sleepers' = Sleepers
    BY <1>1, <2>2 DEF Sleepers, TypeOK
  <2>5. RunnableJobs' \subseteq RunnableJobs \ {j}
    <3>1. /\ j \in queue /\ Reservation[j] \in 0..MaxReserved
          /\ running_reserved \in 0..MaxReserved
      BY <1>1, <2>1, RunnableExact DEF RunnableJobs
    <3>2. running_reserved' = running_reserved + Reservation[j]
      BY <2>1, <3>1, AdmissionExact
    <3>3. RunnableJobs' \subseteq RunnableJobs
      BY <1>1, <2>1, <3>1, <3>2, RunnableShrinks
    <3>4. QED
      BY <2>1, <3>3 DEF RunnableJobs
  <2>6. /\ Cardinality(RunnableJobs') \in Nat
        /\ Cardinality(RunnableJobs') <= Cardinality(RunnableJobs) - 1
    <3>1. /\ IsFiniteSet(RunnableJobs \ {j})
          /\ Cardinality(RunnableJobs \ {j}) = Cardinality(RunnableJobs) - 1
      BY <1>2, <2>1, FS_RemoveElement
    <3>2. QED
      BY <2>5, <3>1, FS_Subset, FS_CardinalityType
  <2>7. Covered'
    <3>1. CASE pc[w] = "locked"
      BY <2>4, <3>1 DEF WakeInv, LockedAwake, Covered
    <3>2. CASE pc[w] = "woken" /\ MutexFree
      <4>1. Woken' = Woken \ {w} /\ w \in Woken
        BY <1>1, <2>2, <3>2 DEF Woken, TypeOK
      <4>2. Cardinality(Woken') = Cardinality(Woken) - 1
        BY <1>2, <4>1, FS_RemoveElement
      <4>3. QED
        BY <1>2, <2>4, <2>6, <3>2, <4>2 DEF WakeInv, Covered
    <3>3. QED
      BY <2>2, <3>1, <3>2 DEF MutexFree
  <2>8. QueueClosed'
    BY <2>1, <2>2 DEF WakeInv, QueueClosed
  <2>9. QED
    BY <1>1, <2>3, <2>7, <2>8 DEF WakeInv, LockedAwake
<1>5. CASE StartWork(w) \/ EndWork(w)
  <2>1. /\ pc[w] \in HasJob
        /\ pc' \in {[pc EXCEPT ![w] = "working"], [pc EXCEPT ![w] = "finished"]}
        /\ holder' = holder /\ queue' = queue /\ shutdown' = shutdown
        /\ running_reserved' = running_reserved
    BY <1>5 DEF StartWork, EndWork, clientVars, HasJob
  <2>2. HolderKnown' /\ Sleepers' = Sleepers /\ Woken' = Woken
    BY <1>1, <2>1 DEF WakeInv, HolderKnown, Sleepers, Woken, TypeOK, HasJob
  <2>3. (\E v \in Workers : pc'[v] = "locked")
          => (\E v \in Workers : pc[v] = "locked")
    BY <1>1, <2>1 DEF TypeOK
  <2>4. QED
    BY <1>1, <2>1, <2>2, <2>3 DEF WakeInv, QueueClosed, LockedAwake, Covered,
        MutexFree, RunnableJobs, Runnable
<1>6. CASE EnterSink(w)
  <2>1. /\ pc[w] = "finished" /\ holder = None /\ holder' = w
        /\ pc' = [pc EXCEPT ![w] = "delivering"]
        /\ queue' = queue /\ shutdown' = shutdown
    BY <1>6 DEF EnterSink, MutexFree, clientVars
  <2>2. HolderKnown' /\ ~(\E v \in Workers : pc'[v] = "locked")
    BY <1>1, <2>1 DEF WakeInv, HolderKnown, TypeOK
  <2>3. QED
    BY <1>1, <2>1, <2>2 DEF WakeInv, QueueClosed, LockedAwake, Covered, MutexFree
<1>7. CASE LeaveSink(w) \/ Suppress(w)
  <2>1. /\ holder \in {None, w} /\ holder' = w
        /\ pc' = NotifyAll([pc EXCEPT ![w] = "locked"])
        /\ queue' = queue /\ shutdown' = shutdown
    BY <1>7 DEF LeaveSink, Suppress, MutexFree, clientVars
  <2>2. HolderKnown'
    BY <1>1, <2>1 DEF WakeInv, HolderKnown, NotifyAll, TypeOK, HasJob
  <2>3. Sleepers' = {}
    <3>1. [pc EXCEPT ![w] = "locked"] \in [Workers -> PCs]
      BY <1>1 DEF TypeOK, PCs
    <3>2. QED
      BY <1>1, <2>1, <3>1, AllAwake
  <2>4. QED
    BY <1>1, <2>1, <2>2, <2>3 DEF WakeInv, QueueClosed, LockedAwake, Covered
<1>8. CASE SpuriousWake(w)
  <2>1. /\ pc[w] = "asleep" /\ pc' = [pc EXCEPT ![w] = "woken"]
        /\ holder' = holder /\ queue' = queue /\ shutdown' = shutdown
        /\ running_reserved' = running_reserved
    BY <1>8 DEF SpuriousWake, clientVars
  <2>2. /\ Sleepers' \subseteq Sleepers
        /\ Cardinality(Woken') = Cardinality(Woken) + 1
    BY <1>1, <2>1, OneWoken
  <2>3. HolderKnown' /\ LockedAwake'
    BY <1>1, <2>1, <2>2 DEF WakeInv, HolderKnown, LockedAwake, TypeOK
  <2>4. RunnableJobs' = RunnableJobs
    BY <2>1 DEF RunnableJobs, Runnable
  <2>5. Covered'
    BY <1>2, <2>1, <2>2, <2>4 DEF WakeInv, Covered, MutexFree
  <2>6. QED
    BY <1>1, <2>1, <2>3, <2>5 DEF WakeInv, QueueClosed
<1>9. QED
  BY <1>3, <1>4, <1>5, <1>6, <1>7, <1>8 DEF Worker

(* No wake-up is lost: submit() notifies one waiter only, yet with the     *)
(* mutex free and a worker asleep there are at least as many woken workers *)
(* as jobs that could start; and nothing is queued after shutdown().       *)
THEOREM WakeupTheorem == Spec => []NoLostWakeup
<1>1. WakeInv /\ UNCHANGED vars => WakeInv'
  <2>1. BudgetInv /\ UNCHANGED vars => BudgetInv'
    BY BudgetStutter
  <2>2. QED
    BY <2>1 DEF WakeInv, QueueClosed, HolderKnown, LockedAwake, Covered,
      MutexFree, Sleepers, Woken, RunnableJobs, Runnable, vars
<1>2. WakeInv /\ [Next]_vars => WakeInv'
  BY <1>1, WakeClient, WakeWorker DEF Next
<1>3. WakeInv => NoLostWakeup
  BY DEF WakeInv, Covered, Sleepers, Woken, NoLostWakeup
<1>4. QED
  BY WakeInit, <1>2, <1>3, PTL DEF Spec

(***************************************************************************)
(* Order of starts, and the service the scheduler implements.              *)
(***************************************************************************)
SafeInv == BudgetInv /\ OneOwner

LEMMA SafeNext == SafeInv /\ [Next]_vars => SafeInv'
<1>1. SafeInv /\ UNCHANGED vars => SafeInv'
  BY BudgetStutter, TypeStutter DEF SafeInv, BudgetInv, OneOwner, vars
<1>2. QED
  BY <1>1, BudgetClient, BudgetWorker, OwnerClient, OwnerWorker
     DEF SafeInv, BudgetInv, OwnerInv, Next

LEMMA SafeInductive == Spec => []SafeInv
<1>1. Init => SafeInv
  BY BudgetInit DEF Init, SafeInv, OneOwner, HasJob
<1>2. QED
  BY <1>1, SafeNext, PTL DEF Spec

(* Only Pick takes a job out of the queue without settling it.             *)
LEMMA LeavesByPick ==
  ASSUME SafeInv, Next, NEW k \in queue, k \notin queue',
         outcome'[k] = "pending"
  PROVE  \E w \in Workers : Pick(w)
<1>1. k \in Jobs /\ outcome \in [Jobs -> Outcomes]
  BY DEF SafeInv, BudgetInv, TypeOK
<1>2. ~ Client
  <2>1. ASSUME NEW g \in Generations, SetDocumentGeneration(g)
        PROVE  FALSE
    BY <1>1, <2>1 DEF SetDocumentGeneration
  <2>2. ASSUME NEW c \in Callers, ShutdownFirst(c)
        PROVE  FALSE
    BY <1>1, <2>2 DEF ShutdownFirst
  <2>3. QED
    BY <2>1, <2>2 DEF Client, SetResultSink, Submit, RequestCancel,
                      ShutdownAgain, ShutdownJoined
<1>3. PICK w \in Workers : Worker(w) \/ SpuriousWake(w)
  BY <1>2 DEF Next
<1>4. QED
  BY <1>3 DEF Worker, Sleep, Exit, StartWork, EndWork, EnterSink, LeaveSink,
              Suppress, SpuriousWake

KeepsOrder ==
  \A j, k \in Jobs :
    /\ j \in queue /\ j \in queue'
    /\ k \in queue /\ k \notin queue' /\ outcome'[k] = "pending"
    /\ Priority[j] >= Priority[k] /\ Reservation[j] <= Reservation[k]
    => <<k, j>> \in older /\ Priority[j] = Priority[k]

LEMMA OrderNext == SafeInv /\ Next => KeepsOrder
<1> SUFFICES ASSUME SafeInv, Next, NEW j \in Jobs, NEW k \in Jobs,
                    j \in queue, j \in queue', k \in queue, k \notin queue',
                    outcome'[k] = "pending", Priority[j] >= Priority[k],
                    Reservation[j] <= Reservation[k]
             PROVE  <<k, j>> \in older /\ Priority[j] = Priority[k]
  BY DEF KeepsOrder
<1>1. PICK w \in Workers : Pick(w)
  BY LeavesByPick
<1>2. /\ k \in RunnableJobs
      /\ \A i \in RunnableJobs \ {k} : Before(k, i)
  BY <1>1 DEF Pick
<1>3. j \in RunnableJobs
  <2>1. /\ running_reserved \in 0..MaxReserved
        /\ Reservation[j] \in 0..MaxReserved
        /\ Reservation[k] \in 0..MaxReserved
        /\ Reservation[k] + running_reserved <= MaxReserved
    BY <1>2, RunnableExact DEF SafeInv, RunnableJobs
  <2>2. Reservation[j] + running_reserved <= MaxReserved
    BY <2>1, SchedulerAssumption
  <2>3. QED
    BY <2>2, RunnableExact DEF SafeInv, RunnableJobs
<1>4. Before(k, j)
  BY <1>2, <1>3
<1>5. Priority[j] \in Nat /\ Priority[k] \in Nat
  BY SchedulerAssumption
<1>6. QED
  BY <1>4, <1>5 DEF Before

(* A job that starts never passes an older one of the same priority that   *)
(* needs no more memory: workerLoop() takes the best runnable job.         *)
THEOREM OvertakingTheorem == Spec => NoOvertaking
<1>1. SafeInv /\ [Next]_vars => [KeepsOrder]_vars
  BY OrderNext
<1>2. QED
  BY SafeInductive, <1>1, PTL DEF Spec, NoOvertaking, KeepsOrder

(* Nothing accepted is lost: it is queued or in the hands of a worker.     *)
Kept == \A j \in Jobs : outcome[j] = "pending" => j \in queue \/ InHands(j)

RefInv == SafeInv /\ Kept

LEMMA KeptNext == RefInv /\ [Next]_vars => Kept'
<1> SUFFICES ASSUME RefInv, [Next]_vars PROVE Kept'
  OBVIOUS
<1> USE DEF RefInv, SafeInv, BudgetInv, TypeOK, Kept, InHands, HasJob
<1>1. CASE UNCHANGED vars
  BY <1>1 DEF vars
<1>2. CASE SetResultSink \/ \E j \in Jobs : RequestCancel(j)
  BY <1>2 DEF SetResultSink, RequestCancel
<1>3. ASSUME NEW j \in Jobs, NEW g \in Generations, Submit(j, g)
      PROVE  Kept'
  <2>1. \A w \in Workers : pc[w] \in HasJob => pc'[w] = pc[w]
    BY <1>3 DEF Submit, NotifyOne
  <2>2. QED
    BY <1>3, <2>1 DEF Submit
<1>4. ASSUME NEW g \in Generations, SetDocumentGeneration(g)
      PROVE  Kept'
  BY <1>4 DEF SetDocumentGeneration, NotifyAll
<1>5. ASSUME NEW c \in Callers,
             ShutdownFirst(c) \/ ShutdownAgain(c) \/ ShutdownJoined(c)
      PROVE  Kept'
  BY <1>5 DEF ShutdownFirst, ShutdownAgain, ShutdownJoined, NotifyAll
<1>6. ASSUME NEW w \in Workers, Worker(w) \/ SpuriousWake(w)
      PROVE  Kept'
  <2>1. CASE Pick(w)
    <3>1. PICK i \in Jobs : /\ queue' = queue \ {i} /\ job' = [job EXCEPT ![w] = i]
                            /\ pc[w] \notin HasJob /\ outcome' = outcome
                            /\ pc' = [pc EXCEPT ![w] = "picked"]
      BY <2>1 DEF Pick, AtTop, RunnableJobs
    <3>2. InHands(i)'
      BY <3>1
    <3>3. ASSUME NEW j \in Jobs, InHands(j)
          PROVE  InHands(j)'
      BY <3>1, <3>3
    <3>4. QED
      BY <3>1, <3>2, <3>3
  <2>2. CASE Sleep(w) \/ Exit(w)
    BY <2>2 DEF Sleep, Exit, AtTop
  <2>3. CASE StartWork(w) \/ EndWork(w) \/ SpuriousWake(w)
    BY <2>3 DEF StartWork, EndWork, SpuriousWake
  <2>4. CASE EnterSink(w)
    BY <2>4 DEF EnterSink
  <2>5. CASE LeaveSink(w)
    BY <2>5 DEF LeaveSink, NotifyAll
  <2>6. CASE Suppress(w)
    BY <2>6 DEF Suppress, NotifyAll
  <2>7. QED
    BY <1>6, <2>1, <2>2, <2>3, <2>4, <2>5, <2>6 DEF Worker
<1>7. QED
  BY <1>1, <1>2, <1>3, <1>4, <1>5, <1>6 DEF Next, Client

LEMMA RefInductive == Spec => []RefInv
<1>1. Init => Kept
  BY DEF Init, Kept
<1>2. RefInv /\ [Next]_vars => RefInv'
  BY KeptNext, SafeNext DEF RefInv
<1>3. QED
  BY <1>1, <1>2, SafeInductive, PTL DEF Spec, RefInv

(* What the client sees of a job, read off the queue and the outcome.      *)
StatusOf(j) ==
  IF outcome[j] = "pending" THEN IF j \in queue THEN "queued" ELSE "running"
  ELSE IF outcome[j] = "none" THEN "new" ELSE outcome[j]

StatusRead == ServiceStatus = [j \in Jobs |-> StatusOf(j)]

LEMMA StatusReads == RefInv => StatusRead
<1> SUFFICES ASSUME RefInv, NEW j \in Jobs
             PROVE  ServiceStatus[j] = StatusOf(j)
  BY DEF StatusRead, ServiceStatus
<1>1. j \in queue => ~InHands(j) /\ outcome[j] = "pending"
  BY DEF RefInv, SafeInv, OneOwner, InHands
<1>2. outcome[j] = "pending" => j \in queue \/ InHands(j)
  BY DEF RefInv, Kept
<1>3. outcome[j] \in {"none", "pending", "delivered", "dropped"}
  BY DEF RefInv, SafeInv, BudgetInv, TypeOK, Outcomes
<1>4. QED
  BY <1>1, <1>2, <1>3 DEF ServiceStatus, StatusOf

(* The bytes the service counts are, worker for worker, the bytes held:    *)
(* no job is in two hands.                                                 *)
HandJobs == {j \in Jobs : InHands(j)}

LEMMA ServiceBytes ==
  SafeInv => /\ IsFiniteSet(Service!HeldBytes(HandJobs))
             /\ Cardinality(Service!HeldBytes(HandJobs)) <= MaxReserved
<1> SUFFICES ASSUME SafeInv
             PROVE  /\ IsFiniteSet(Service!HeldBytes(HandJobs))
                    /\ Cardinality(Service!HeldBytes(HandJobs)) <= MaxReserved
  OBVIOUS
<1> DEFINE T == Service!HeldBytes(HandJobs)
           f == [x \in HeldBytes |-> <<job[x[1]], x[2]>>]
<1>1. IsFiniteSet(HeldBytes) /\ Cardinality(HeldBytes) <= MaxReserved
  BY DEF SafeInv, BudgetInv, Ledger, BudgetHeld
<1>2. f \in Surjection(HeldBytes, T)
  <2>1. ASSUME NEW x \in HeldBytes
        PROVE  f[x] \in T
    <3>1. PICK w \in Workers : x \in BytesOf(w)
      BY <2>1 DEF HeldBytes
    <3>2. pc[w] \in HasJob /\ x[1] = w /\ x[2] \in 1..Reservation[job[w]]
      BY <2>1, <3>1 DEF BytesOf
    <3>3. job[w] \in HandJobs
      BY <3>2, SchedulerAssumption
         DEF HandJobs, InHands, SafeInv, BudgetInv, TypeOK
    <3>4. QED
      BY <3>2, <3>3 DEF Service!HeldBytes
  <2>2. ASSUME NEW y \in T
        PROVE  \E x \in HeldBytes : f[x] = y
    <3>1. PICK j \in HandJobs : y \in {j} \X (1..Reservation[j])
      BY <2>2 DEF Service!HeldBytes
    <3>2. PICK w \in Workers : pc[w] \in HasJob /\ job[w] = j
      BY <3>1 DEF HandJobs, InHands
    <3>3. <<w, y[2]>> \in BytesOf(w) /\ y = <<j, y[2]>>
      BY <3>1, <3>2 DEF BytesOf
    <3>4. <<w, y[2]>> \in HeldBytes
      BY <3>3 DEF HeldBytes
    <3>5. QED
      BY <3>2, <3>3, <3>4
  <2>3. QED
    BY <2>1, <2>2 DEF Surjection
<1>3. IsFiniteSet(T) /\ Cardinality(T) <= Cardinality(HeldBytes)
  BY <1>1, <1>2, FS_Surjection
<1>4. QED
  BY <1>1, <1>3, FS_CardinalityType, SchedulerAssumption

(* The service counts with the same operator.                              *)
LEMMA ServiceCardinality ==
  ASSUME NEW S PROVE Service!Cardinality(S) = Cardinality(S)
BY DEF Cardinality, Service!Cardinality

LEMMA ServiceInit == Init => Service!Init
BY SchedulerAssumption DEF Init, Service!Init, ServiceStatus, InHands, HasJob

(* A step that neither moves a job nor touches the rest of the service.    *)
LEMMA ServiceStutters ==
  ASSUME StatusRead, StatusRead', outcome' = outcome,
         queue' = queue, gen' = gen, cancelled' = cancelled,
         generation' = generation, shutdown' = shutdown
  PROVE  UNCHANGED Service!vars
BY DEF StatusRead, StatusOf, Service!vars

LEMMA ServiceClient ==
  ASSUME RefInv, StatusRead, StatusRead', Client
  PROVE  Service!Next \/ UNCHANGED Service!vars
<1> USE DEF RefInv, SafeInv, BudgetInv, TypeOK, OneOwner, StatusRead, StatusOf
<1>1. ASSUME NEW j \in Jobs, NEW g \in Generations, Submit(j, g)
      PROVE  Service!Submit(j, g)
  <2>1. outcome[j] \in {"none", "delivered", "dropped"}
    BY <1>1 DEF Submit, Outcomes
  <2>2. ServiceStatus[j] \in {"new", "delivered", "dropped"}
    BY <2>1
  <2>3. ServiceStatus' = [ServiceStatus EXCEPT ![j] = "queued"]
    BY <1>1 DEF Submit
  <2>4. QED
    BY <1>1, <2>2, <2>3 DEF Submit, Service!Submit
<1>2. ASSUME NEW j \in Jobs, RequestCancel(j)
      PROVE  Service!Cancel(j)
  BY <1>2 DEF RequestCancel, Service!Cancel, Outcomes
<1>3. ASSUME NEW g \in Generations, SetDocumentGeneration(g)
      PROVE  Service!NewGeneration(g)
  <2>1. /\ generation' = g /\ gen' = gen
        /\ UNCHANGED <<cancelled, shutdown>>
        /\ queue' = {j \in queue : ~(gen[j] < g)}
        /\ outcome' = [j \in Jobs |-> IF j \in queue /\ gen[j] < g
                                      THEN "dropped" ELSE outcome[j]]
    BY <1>3 DEF SetDocumentGeneration
  <2>2. ASSUME NEW j \in Jobs
        PROVE  StatusOf(j)' = IF StatusOf(j) = "queued" /\ gen[j] < g
                              THEN "dropped" ELSE StatusOf(j)
    BY <2>1, <2>2 DEF Outcomes
  <2>3. QED
    BY <2>1, <2>2 DEF Service!NewGeneration
<1>4. ASSUME NEW c \in Callers, ShutdownFirst(c)
      PROVE  Service!Close
  <2>1. ASSUME NEW j \in Jobs
        PROVE  StatusOf(j)' = IF StatusOf(j) = "queued"
                              THEN "dropped" ELSE StatusOf(j)
    BY <1>4, <2>1 DEF ShutdownFirst, Outcomes
  <2>2. QED
    BY <1>4, <2>1 DEF ShutdownFirst, Service!Close
<1>5. CASE SetResultSink \/ \E c \in Callers : ShutdownAgain(c) \/ ShutdownJoined(c)
  BY <1>5, ServiceStutters DEF SetResultSink, ShutdownAgain, ShutdownJoined
<1>6. QED
  BY <1>1, <1>2, <1>3, <1>4, <1>5 DEF Client, Service!Next

LEMMA ServiceWorker ==
  ASSUME RefInv, RefInv', StatusRead, StatusRead',
         Cardinality(Service!HeldBytes(HandJobs')) <= MaxReserved,
         NEW w \in Workers, Worker(w) \/ SpuriousWake(w)
  PROVE  Service!Next \/ UNCHANGED Service!vars
<1>1. CASE Sleep(w) \/ Exit(w) \/ StartWork(w) \/ EndWork(w) \/ LeaveSink(w)
             \/ SpuriousWake(w)
  BY <1>1, ServiceStutters DEF Sleep, Exit, StartWork, EndWork, LeaveSink,
                               SpuriousWake, clientVars
<1>2. CASE Pick(w)
  <2>1. PICK j \in RunnableJobs :
          /\ queue' = queue \ {j}
          /\ job' = [job EXCEPT ![w] = j]
    BY <1>2 DEF Pick
  <2>2. /\ j \in Jobs /\ j \in queue /\ outcome[j] = "pending"
        /\ outcome' = outcome
        /\ UNCHANGED <<gen, cancelled, generation, shutdown>>
    BY <1>2, <2>1 DEF Pick, clientVars, RunnableJobs, RefInv, SafeInv,
                      BudgetInv, TypeOK, OneOwner
  <2>3. /\ ServiceStatus[j] = "queued"
        /\ ServiceStatus' = [ServiceStatus EXCEPT ![j] = "running"]
    BY <2>1, <2>2 DEF StatusRead, StatusOf
  <2>4. Service!Running \union {j} = HandJobs'
    <3>1. ASSUME NEW i \in Jobs
          PROVE  InHands(i)' <=> outcome'[i] = "pending" /\ i \notin queue'
      <4>1. i \in queue' => ~InHands(i)'
        BY DEF RefInv, SafeInv, OneOwner, InHands
      <4>2. outcome'[i] = "pending" => i \in queue' \/ InHands(i)'
        BY DEF RefInv, Kept
      <4>3. InHands(i)' => outcome'[i] = "pending"
        BY DEF RefInv, SafeInv, OneOwner, InHands
      <4>4. QED
        BY <4>1, <4>2, <4>3
    <3>2. ASSUME NEW i \in Jobs
          PROVE  ServiceStatus[i] = "running"
                   <=> outcome[i] = "pending" /\ i \notin queue
      BY <3>2 DEF StatusRead, StatusOf, RefInv, SafeInv, BudgetInv, TypeOK,
                  Outcomes
    <3>3. QED
      BY <2>1, <2>2, <3>1, <3>2 DEF HandJobs, Service!Running
  <2>5. Service!Start(j)
    BY <2>2, <2>3, <2>4, ServiceCardinality DEF Service!Start
  <2>6. QED
    BY <2>2, <2>5 DEF Service!Next
<1>3. CASE EnterSink(w) \/ Suppress(w)
  <2> DEFINE j == job[w]
  <2>1. /\ j \in Jobs /\ outcome[j] = "pending" /\ j \notin queue
        /\ queue' = queue /\ UNCHANGED <<gen, cancelled, generation, shutdown>>
    BY <1>3 DEF EnterSink, Suppress, clientVars, RefInv, SafeInv, BudgetInv,
                TypeOK, OneOwner, HasJob
  <2>2. ServiceStatus[j] = "running"
    BY <2>1 DEF StatusRead, StatusOf
  <2>3. CASE EnterSink(w)
    <3>1. ServiceStatus' = [ServiceStatus EXCEPT ![j] = "delivered"]
      BY <2>1, <2>3 DEF EnterSink, StatusRead, StatusOf, RefInv, SafeInv,
                        BudgetInv, TypeOK
    <3>2. Service!Deliver(j)
      BY <2>1, <2>2, <2>3, <3>1 DEF EnterSink, Deliverable, Service!Deliver
    <3>3. QED
      BY <2>1, <3>2 DEF Service!Next
  <2>4. CASE Suppress(w)
    <3>1. ServiceStatus' = [ServiceStatus EXCEPT ![j] = "dropped"]
      BY <2>1, <2>4 DEF Suppress, StatusRead, StatusOf, RefInv, SafeInv,
                        BudgetInv, TypeOK
    <3>2. Service!Discard(j)
      BY <2>1, <2>2, <3>1 DEF Service!Discard
    <3>3. QED
      BY <2>1, <3>2 DEF Service!Next
  <2>5. QED
    BY <1>3, <2>3, <2>4
<1>4. QED
  BY <1>1, <1>2, <1>3 DEF Worker

(* The scheduler, with all its threads, mutex and wake-ups, implements the *)
(* service its clients rely on: deliver at most once, only what is current *)
(* and not cancelled, never start a job beyond the budget.                 *)
THEOREM ServiceTheorem == Spec => ServiceSpec
<1>1. RefInv /\ RefInv' /\ [Next]_vars => [Service!Next]_(Service!vars)
  <2>1. RefInv' => StatusRead'
    BY StatusReads, PTL
  <2>2. RefInv' => Cardinality(Service!HeldBytes(HandJobs'))
                     <= MaxReserved
    <3>1. SafeInv' => (Cardinality(Service!HeldBytes(HandJobs))
                         <= MaxReserved)'
      BY ServiceBytes, PTL
    <3>2. QED
      BY <3>1 DEF RefInv, Service!HeldBytes
  <2>3. ASSUME RefInv, RefInv', UNCHANGED vars
        PROVE  UNCHANGED Service!vars
    BY <2>1, <2>3, StatusReads, ServiceStutters DEF vars
  <2>4. QED
    BY <2>1, <2>2, <2>3, StatusReads, ServiceClient, ServiceWorker DEF Next
<1>2. QED
  BY ServiceInit, RefInductive, <1>1, PTL DEF Spec, ServiceSpec, Service!Spec
=============================================================================
