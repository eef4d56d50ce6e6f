------------------ MODULE FrameInspectionSession_proofs -------------------
(***************************************************************************)
(* Proofs about FrameInspectionSession, for any frames, queue capacity and *)
(* bounds.                                                                 *)
(*                                                                         *)
(* The argument follows the tickets.  A ticket is made once, by openFrame()*)
(* or selectTarget(), with a serial above all others of its document; it   *)
(* is the ticket of one open job at most, and becomes the current ticket   *)
(* at most once, so that a worker whose ticket can still matter to the     *)
(* queue was started in the present document.                              *)
(***************************************************************************)
EXTENDS FrameInspectionSession, FiniteSetTheorems, WellFoundedInduction, TLAPS

Current == {ticket} \ {NoTicket}

QueueTickets == {q.ticket : q \in queue}

WorkerTickets == {w.ticket : w \in workers}

KnownTickets == Current \union QueueTickets \union WorkerTickets

(* openFrame() and selectTarget() make a ticket nobody has.                *)
SerialsOrdered ==
  /\ \A t \in KnownTickets :
       /\ t.generation <= generation
       /\ t.generation = generation => t.serial <= serial
  /\ latest # NoTicket =>
       /\ latest.generation = generation /\ latest.serial = serial
       /\ \A t \in KnownTickets :
            t.generation = generation /\ t.serial = serial => t = latest

WorkersAged ==
  \A w \in workers :
    /\ w.ticket.generation <= w.generation
    /\ w.generation <= generation
    /\ w.at = "adopt" => w.kind = "open"
    /\ w.at = "gate" => w.kind # "open"

(* The ticket of an open job is nobody else's.                             *)
OpensApart ==
  /\ \A q \in queue : q.kind = "open" =>
       /\ q.ticket \notin Current \union WorkerTickets
       /\ \A x \in queue : x.ticket = q.ticket => x = q
  /\ \A w \in workers : w.kind = "open" =>
       /\ w.ticket \notin Current \union QueueTickets
       /\ \A x \in workers : x.ticket = w.ticket => x = w

(* Workers that hold a ticket still in use were started in this document.  *)
LiveAreNew ==
  \A w \in workers :
    w.ticket \in Current \union QueueTickets \union in_flight =>
      w.generation = generation

QueueOrdered ==
  /\ IsFiniteSet(queue)
  /\ \A q \in queue : q.kind = "open" => q.priority = Selection
  /\ \A q \in queue : q.arrival <= arrivals
  /\ \A a, b \in queue : a.arrival = b.arrival => a = b

(* Who keeps the queue moving.                                             *)
Fed ==
  /\ \A t \in in_flight : \E w \in workers :
       w.ticket = t /\ w.at = "release" /\ w.generation = generation
  /\ queue # {} /\ in_flight = {} =>
       \E w \in workers : w.at \in {"check", "pump"} /\ w.generation = generation

(* The newest selection is still to come, or nothing older can replace it. *)
LatestPending ==
  \/ \E q \in queue : q.kind = "open" /\ q.ticket = latest
  \/ \E w \in workers : w.kind = "open" /\ w.ticket = latest

LatestComes ==
  latest \notin unavailable \union {NoTicket} =>
    \/ LatestPending
    \/ /\ ticket # NoTicket
       /\ ticket.serial >= latest.serial
       /\ ticket = latest \/ ticket.generation # generation

SessionInv ==
  /\ QueueDisciplined
  /\ QueueOrdered
  /\ SerialsOrdered
  /\ WorkersAged
  /\ OpensApart
  /\ LiveAreNew
  /\ Fed
  /\ LatestComes

(***************************************************************************)
(* Choosing from the queue.                                                *)
(***************************************************************************)

(* A set of naturals has a least element.                                  *)
LEMMA SmallestOf ==
  ASSUME NEW T, T \subseteq Nat, T # {}
  PROVE  \E m \in T : \A n \in T : m <= n
<1> DEFINE Below == {0..n : n \in T}
<1>1. Below \subseteq FiniteSubsetsOf(Nat) /\ Below # {}
  <2>1. ASSUME NEW n \in T
        PROVE  0..n \subseteq Nat /\ IsFiniteSet(0..n)
    BY FS_Interval
  <2>2. QED
    BY <2>1 DEF FiniteSubsetsOf
<1>2. PICK B \in Below : \A C \in Below : <<C, B>> \notin StrictSubsetOrdering(Nat)
  <2> HIDE DEF Below
  <2> QED
    BY <1>1, FS_StrictSubsetOrderingWellFounded, WFMin
<1>3. PICK m \in T : B = 0..m
  OBVIOUS
<1>4. ASSUME NEW n \in T, n < m
      PROVE  FALSE
  <2>1. 0..n \in Below /\ 0..n \subseteq 0..m /\ m \notin 0..n /\ m \in 0..m
    BY <1>4
  <2>2. 0..n \subseteq Nat /\ 0..m \subseteq Nat
    OBVIOUS
  <2>3. <<0..n, 0..m>> \in StrictSubsetOrdering(Nat)
    BY <2>1, <2>2 DEF StrictSubsetOrdering
  <2>4. QED
    BY <1>2, <1>3, <2>1, <2>3
<1>5. QED
  BY <1>4

Numbered(jobs) ==
  \A q \in jobs : q.arrival \in Nat /\ q.priority \in 0..2

LEMMA OldestExists ==
  ASSUME NEW jobs, Numbered(jobs), jobs # {}
  PROVE  Oldest(jobs) # {}
<1> DEFINE T == {q.arrival : q \in jobs}
<1>1. T \subseteq Nat /\ T # {}
  BY DEF Numbered
<1>2. PICK m \in T : \A n \in T : m <= n
  <2> HIDE DEF T
  <2> QED
    BY <1>1, SmallestOf
<1>3. PICK a \in jobs : a.arrival = m
  OBVIOUS
<1>4. a \in Oldest(jobs)
  BY <1>2, <1>3 DEF Oldest
<1>5. QED
  BY <1>4

(* Some job comes before all others: the highest priority, then the oldest.*)
LEMMA BestExists ==
  ASSUME NEW jobs, Numbered(jobs), jobs # {},
         \A a, b \in jobs : a.arrival = b.arrival => a = b
  PROVE  \E a \in jobs : \A b \in jobs \ {a} : Sooner(a, b)
<1>1. PICK p \in 0..2 : /\ \E q \in jobs : q.priority = p
                        /\ \A q \in jobs : q.priority <= p
  BY DEF Numbered
<1> DEFINE top == {q \in jobs : q.priority = p}
<1>2. PICK a : a \in Oldest(top)
  <2>1. Numbered(top) /\ top # {}
    BY <1>1 DEF Numbered
  <2>2. QED
    BY <2>1, OldestExists
<1>3. ASSUME NEW b \in jobs \ {a}
      PROVE  Sooner(a, b)
  <2>1. a \in jobs /\ a.priority = p /\ a.arrival \in Nat /\ b.arrival \in Nat
        /\ b.priority \in 0..2 /\ a.arrival # b.arrival /\ b.priority <= p
    BY <1>1, <1>2 DEF Oldest, Numbered
  <2>2. b.priority = p => a.arrival <= b.arrival
    BY <1>2 DEF Oldest
  <2>3. QED
    BY <2>1, <2>2 DEF Sooner
<1>4. QED
  BY <1>2, <1>3 DEF Oldest

Started(j) == [kind |-> j.kind, ticket |-> j.ticket, arrival |-> j.arrival,
               generation |-> generation, at |-> "release"]

(* pumpLocked() starts one of the jobs, or finds nothing to start.         *)
Pumped(jobs, active, others) ==
  \/ /\ jobs = {} \/ active # {}
     /\ queue' = jobs /\ in_flight' = active /\ workers' = others
  \/ /\ active = {}
     /\ \E j \in jobs : /\ queue' = jobs \ {j}
                        /\ in_flight' = {j.ticket}
                        /\ workers' = others \union {Started(j)}

LEMMA PumpEffect ==
  ASSUME NEW jobs, NEW active, NEW others, PumpLocked(jobs, active, others),
         Numbered(jobs), \A a, b \in jobs : a.arrival = b.arrival => a = b
  PROVE  Pumped(jobs, active, others)
<1>1. CASE ~Startable(jobs, active)
  BY <1>1 DEF PumpLocked, Pumped, Startable
<1>2. CASE Startable(jobs, active)
  <2> DEFINE j == CHOOSE a \in jobs : \A b \in jobs \ {a} : Sooner(a, b)
  <2>1. j \in jobs
    BY <1>2, BestExists DEF Startable
  <2>2. /\ active = {} /\ queue' = jobs \ {j}
        /\ in_flight' = active \union {j.ticket}
        /\ workers' = others \union {Started(j)}
    BY <1>2 DEF PumpLocked, Startable, Started
  <2>3. QED
    BY <2>1, <2>2 DEF Pumped
<1>3. QED
  BY <1>1, <1>2

(***************************************************************************)
(* enqueue().                                                              *)
(***************************************************************************)
Request(kind, t, priority) ==
  [kind |-> kind, ticket |-> t, priority |-> priority, arrival |-> arrivals + 1]

Kept(job) == Merged(job) \ Victims(job, Merged(job))

LEMMA QueueNumbered ==
  ASSUME TypeOK
  PROVE  Numbered(queue)
BY SessionAssumption DEF TypeOK, Numbered

LEMMA KeptFits ==
  ASSUME SessionInv, NEW job, job.priority \in 0..2
  PROVE  /\ Kept(job) \subseteq Merged(job)
         /\ IsFiniteSet(Kept(job)) /\ Cardinality(Kept(job)) <= QueueCap
         /\ job.priority = Selection => Cardinality(Kept(job)) < QueueCap
<1> DEFINE M == Merged(job)
           V == Victims(job, M)
           lower == {q \in M : q.priority < job.priority}
<1>1. /\ M \subseteq queue /\ IsFiniteSet(M) /\ Cardinality(M) <= QueueCap
      /\ Cardinality(M) \in Nat /\ QueueCap \in Nat
  <2>1. M \subseteq queue /\ IsFiniteSet(queue) /\ Cardinality(queue) <= QueueCap
    BY DEF SessionInv, QueueOrdered, QueueDisciplined, Merged
  <2>2. /\ IsFiniteSet(M) /\ Cardinality(M) <= Cardinality(queue)
        /\ Cardinality(M) \in Nat /\ Cardinality(queue) \in Nat
    BY <2>1, FS_Subset, FS_CardinalityType
  <2>3. QED
    BY <2>1, <2>2, SessionAssumption
<1>2. IsFiniteSet(M \ V) /\ Cardinality(M \ V) \in Nat
      /\ Cardinality(M \ V) <= Cardinality(M)
  BY <1>1, FS_Subset, FS_CardinalityType
<1>3. ASSUME job.priority = Selection
      PROVE  Cardinality(M \ V) < QueueCap
  <2>1. CASE Cardinality(M) < QueueCap
    BY <1>1, <1>2, <2>1
  <2>2. CASE Cardinality(M) >= QueueCap
    <3>1. M # {} /\ Numbered(M)
      <4>1. M # {}
        BY <1>1, <2>2, FS_EmptySet, SessionAssumption
      <4>2. QED
        BY <1>1, <4>1, QueueNumbered
           DEF SessionInv, QueueDisciplined, Numbered
    <3>2. PICK q : q \in V /\ q \in M
      <4>1. CASE lower # {}
        <5>1. Oldest(lower) # {}
          BY <3>1, <4>1, OldestExists DEF Numbered
        <5>2. V = Oldest(lower)
          BY <1>1, <2>2, <4>1 DEF Victims
        <5>3. QED
          BY <5>1, <5>2 DEF Oldest
      <4>2. CASE lower = {}
        <5>1. Oldest(M) # {}
          BY <3>1, OldestExists
        <5>2. V = Oldest(M)
          BY <1>1, <1>3, <2>2, <4>2 DEF Victims
        <5>3. QED
          BY <5>1, <5>2 DEF Oldest
      <4>3. QED
        BY <4>1, <4>2
    <3>3. /\ IsFiniteSet(M \ {q})
          /\ Cardinality(M \ {q}) = Cardinality(M) - 1
      BY <1>1, <3>2, FS_RemoveElement
    <3>4. Cardinality(M \ V) <= Cardinality(M \ {q})
      BY <3>2, <3>3, FS_Subset
    <3>5. QED
      BY <1>1, <1>2, <3>3, <3>4
  <2>3. QED
    BY <1>1, <2>1, <2>2
<1>4. QED
  BY <1>1, <1>2, <1>3 DEF Kept

(* What the queue and the workers are after a request: the jobs of J,      *)
(* without the one that may have been started.                             *)
LEMMA EnqueueEffect ==
  ASSUME SessionInv, NEW kind, NEW t, NEW p \in 0..2, Enqueue(kind, t, p)
  PROVE  \E J \in SUBSET (Kept(Request(kind, t, p)) \union {Request(kind, t, p)}) :
           /\ Kept(Request(kind, t, p)) \subseteq J
           /\ IsFiniteSet(J) /\ Cardinality(J) <= QueueCap
           /\ p = Selection => Request(kind, t, p) \in J
           /\ \/ UNCHANGED <<in_flight, workers>> /\ queue' = J /\ J \subseteq queue
              \/ Pumped(J, in_flight, workers)
<1> DEFINE job == Request(kind, t, p)
           kept == Kept(job)
<1>1. /\ kept \subseteq queue /\ IsFiniteSet(kept)
      /\ Cardinality(kept) <= QueueCap /\ Cardinality(kept) \in Nat
      /\ p = Selection => Cardinality(kept) < QueueCap
      /\ QueueCap \in Nat
  <2>1. job.priority = p
    BY DEF Request
  <2>2. QED
    BY <2>1, KeptFits, FS_CardinalityType, SessionAssumption DEF Merged
<1>2. CASE Cardinality(kept) < QueueCap
  <2> DEFINE J == kept \union {job}
  <2>1. PumpLocked(J, in_flight, workers)
    BY <1>2 DEF Enqueue, Request, Kept
  <2>2. IsFiniteSet(J) /\ Cardinality(J) <= QueueCap
    <3>1. /\ IsFiniteSet(J)
          /\ Cardinality(J) = IF job \in kept THEN Cardinality(kept)
                                             ELSE Cardinality(kept) + 1
      BY <1>1, FS_AddElement, Zenon
    <3>2. QED
      BY <1>1, <1>2, <3>1
  <2>3. Numbered(J) /\ \A a, b \in J : a.arrival = b.arrival => a = b
    <3>1. arrivals \in Nat /\ \A q \in queue : q.arrival \in Nat /\ q.arrival <= arrivals
      BY SessionAssumption
         DEF SessionInv, QueueDisciplined, TypeOK, QueueOrdered
    <3>2. job.arrival = arrivals + 1 /\ job.priority = p
      BY DEF Request
    <3>3. Numbered(J)
      BY <1>1, <3>1, <3>2, QueueNumbered
         DEF Numbered, SessionInv, QueueDisciplined
    <3>4. \A q \in kept : q.arrival # job.arrival
      BY <1>1, <3>1, <3>2
    <3>5. QED
      BY <1>1, <3>3, <3>4 DEF SessionInv, QueueOrdered
  <2>4. Pumped(J, in_flight, workers)
    BY <2>1, <2>3, PumpEffect
  <2>5. QED
    BY <2>2, <2>4
<1>3. CASE ~(Cardinality(kept) < QueueCap)
  <2>1. queue' = kept /\ UNCHANGED <<in_flight, workers>>
    BY <1>3 DEF Enqueue, Request, Kept
  <2>2. QED
    BY <1>1, <1>3, <2>1
<1>4. QED
  BY <1>2, <1>3

(* A request adds its job, or starts one, and keeps the newest selection.  *)
LEMMA RequestKeeps ==
  ASSUME SessionInv, NEW kind \in {"open", "analysis", "statistics"},
         NEW t \in Tickets, NEW p \in 0..2, Enqueue(kind, t, p),
         \/ /\ kind = "open" /\ p = Selection
            /\ t.generation = generation /\ t.serial = serial + 1
            /\ serial' = serial + 1 /\ serial < MaxSerial /\ latest' = t
         \/ /\ kind # "open" /\ ticket # NoTicket /\ t = ticket
            /\ serial' = serial
            /\ latest' = IF p = Selection THEN NoTicket ELSE latest
  PROVE  SessionInv'
<1> DEFINE job == Request(kind, t, p)
           kept == Kept(job)
<1>1. PICK J : /\ J \subseteq kept \union {job} /\ kept \subseteq J
               /\ IsFiniteSet(J) /\ Cardinality(J) <= QueueCap
               /\ p = Selection => job \in J
               /\ \/ UNCHANGED <<in_flight, workers>> /\ queue' = J /\ J \subseteq queue
                  \/ Pumped(J, in_flight, workers)
  BY EnqueueEffect
<1>2. /\ job.kind = kind /\ job.ticket = t /\ job.priority = p
      /\ job.arrival = arrivals + 1
  BY DEF Request
<1>3. /\ arrivals' = arrivals + 1 /\ arrivals < MaxRequests
      /\ UNCHANGED <<generation, ticket, unavailable>>
  BY DEF Enqueue
<1>4. /\ kept \subseteq queue
      /\ \A q \in kept : q.kind # kind \/ q.ticket.frame # t.frame
  BY <1>2, KeptFits DEF Merged
<1>5. \/ UNCHANGED <<in_flight, workers>> /\ queue' = J
      \/ /\ in_flight = {}
         /\ \E j \in J : /\ queue' = J \ {j} /\ in_flight' = {j.ticket}
                         /\ workers' = workers \union {Started(j)}
  BY <1>1 DEF Pumped
<1>6. queue' \subseteq J /\ workers \subseteq workers'
  BY <1>5
<1>7. arrivals \in 0..MaxRequests /\ MaxRequests \in Nat /\ MaxSerial \in Nat
      /\ serial \in 0..MaxSerial
  BY SessionAssumption DEF SessionInv, QueueDisciplined, TypeOK
<1>8. J \subseteq [kind : {"open", "analysis", "statistics"},
                   ticket : Tickets, priority : 0..2, arrival : 1..MaxRequests]
  BY <1>1, <1>3, <1>4, <1>7 DEF Request, SessionInv, QueueDisciplined, TypeOK
<1>9. TypeOK'
  <2>1. /\ {ticket', latest'} \subseteq Tickets \union {NoTicket}
        /\ generation' \in 0..MaxGen /\ arrivals' \in 0..MaxRequests
        /\ serial' \in 0..MaxSerial /\ unavailable' \subseteq Tickets
    BY <1>3, <1>7 DEF SessionInv, QueueDisciplined, TypeOK
  <2>2. in_flight' \subseteq Tickets /\ \A u, v \in in_flight' : u = v
    BY <1>5, <1>8 DEF SessionInv, QueueDisciplined, TypeOK
  <2>3. workers' \subseteq [kind : {"open", "analysis", "statistics"},
                            ticket : Tickets, arrival : 1..MaxRequests,
                            generation : 0..MaxGen,
                            at : {"release", "check", "pump", "adopt", "gate"}]
    BY <1>5, <1>8 DEF Started, SessionInv, QueueDisciplined, TypeOK
  <2>4. QED
    BY <1>6, <1>8, <2>1, <2>2, <2>3 DEF TypeOK
<1>10. QueueDisciplined'
  <2>1. Cardinality(queue') <= QueueCap
    <3>1. Cardinality(queue') <= Cardinality(J)
      BY <1>1, <1>6, FS_Subset
    <3>2. IsFiniteSet(queue')
      BY <1>1, <1>6, FS_Subset
    <3>3. QED
      BY <1>1, <3>1, <3>2, FS_CardinalityType, SessionAssumption
  <2>2. \A a, b \in J : a.kind = b.kind /\ a.ticket.frame = b.ticket.frame => a = b
    BY <1>1, <1>2, <1>4 DEF SessionInv, QueueDisciplined
  <2>3. QED
    BY <1>6, <1>9, <2>1, <2>2 DEF QueueDisciplined
<1>11. QueueOrdered'
  <2>1. IsFiniteSet(queue')
    BY <1>1, <1>6, FS_Subset
  <2>2. \A q \in J : q.arrival <= arrivals'
    BY <1>1, <1>2, <1>3, <1>4, <1>7, <1>8 DEF SessionInv, QueueOrdered
  <2>3. \A a, b \in J : a.arrival = b.arrival => a = b
    BY <1>1, <1>2, <1>4, <1>7, <1>8 DEF SessionInv, QueueOrdered
  <2>4. \A q \in J : q.kind = "open" => q.priority = Selection
    BY <1>1, <1>2, <1>4 DEF SessionInv, QueueOrdered
  <2>5. QED
    BY <1>6, <2>1, <2>2, <2>3, <2>4 DEF QueueOrdered
<1>12. KnownTickets' \subseteq KnownTickets \union {t}
  BY <1>1, <1>2, <1>3, <1>4, <1>5
     DEF KnownTickets, QueueTickets, WorkerTickets, Current, Started
<1>13. \A u \in KnownTickets : u.generation \in Nat /\ u.serial \in Nat
  BY SessionAssumption DEF SessionInv, QueueDisciplined, TypeOK, KnownTickets,
     QueueTickets, WorkerTickets, Current, Tickets
<1>14. SerialsOrdered'
  <2>1. CASE kind = "open"
    <3>1. ASSUME NEW u \in KnownTickets'
          PROVE  /\ u.generation <= generation
                 /\ u.generation = generation => u.serial <= serial \/ u = t
      <4>1. CASE u = t
        BY <1>7, <2>1, <4>1 DEF SessionInv, QueueDisciplined, TypeOK
      <4>2. CASE u \in KnownTickets
        BY <4>2 DEF SessionInv, SerialsOrdered
      <4>3. QED
        BY <1>12, <4>1, <4>2
    <3>2. serial \in Nat /\ generation \in Nat
      BY <1>7, SessionAssumption DEF SessionInv, QueueDisciplined, TypeOK
    <3>3. /\ serial' = serial + 1 /\ latest' = t /\ generation' = generation
          /\ t.generation = generation /\ t.serial = serial + 1
      BY <1>3, <2>1
    <3>4. ASSUME NEW u \in KnownTickets', u.generation = generation
          PROVE  u.serial <= serial + 1 /\ (u.serial = serial + 1 => u = t)
      <4>1. CASE u = t
        BY <3>2, <3>3, <4>1
      <4>2. CASE u # t
        <5>1. u \in KnownTickets
          BY <1>12, <4>2
        <5>2. u.serial <= serial /\ u.serial \in Nat
          BY <1>13, <3>1, <3>4, <4>2, <5>1
        <5>3. QED
          BY <3>2, <5>2
      <4>3. QED
        BY <4>1, <4>2
    <3>5. QED
      BY <3>1, <3>3, <3>4 DEF SerialsOrdered
  <2>2. CASE kind # "open"
    <3>1. KnownTickets' \subseteq KnownTickets
      BY <1>12, <2>2 DEF KnownTickets, Current
    <3>2. serial' = serial /\ latest' \in {NoTicket, latest}
      BY <2>2
    <3>3. QED
      BY <1>3, <3>1, <3>2 DEF SessionInv, SerialsOrdered
  <2>3. QED
    BY <2>1, <2>2
<1>15. WorkersAged'
  <2>1. ASSUME NEW j \in J
        PROVE  j.ticket.generation <= generation
    <3>1. generation \in Nat
      BY SessionAssumption DEF SessionInv, QueueDisciplined, TypeOK
    <3>2. t.generation <= generation
      BY <3>1 DEF SessionInv, SerialsOrdered, KnownTickets, Current
    <3>3. \A q \in kept : q.ticket.generation <= generation
      BY <1>4 DEF SessionInv, SerialsOrdered, KnownTickets, QueueTickets
    <3>4. QED
      BY <1>1, <1>2, <3>2, <3>3
  <2>2. QED
    BY <1>3, <1>5, <2>1
       DEF SessionInv, WorkersAged, Started, QueueDisciplined, TypeOK
<1>16. kind = "open" => t \notin KnownTickets
  BY <1>7, <1>13 DEF SessionInv, SerialsOrdered
<1>17. OpensApart'
  <2>1. CASE kind = "open"
    BY <1>1, <1>2, <1>3, <1>4, <1>5, <1>16, <2>1
       DEF SessionInv, OpensApart, KnownTickets, QueueTickets, WorkerTickets,
           Current, Started
  <2>2. CASE kind # "open"
    BY <1>1, <1>2, <1>3, <1>4, <1>5, <2>2 DEF SessionInv, OpensApart,
       QueueTickets, WorkerTickets, Current, Started
  <2>3. QED
    BY <2>1, <2>2
<1>18. LiveAreNew'
  <2>1. ASSUME NEW w \in workers, w.ticket \in {q.ticket : q \in J}
        PROVE  w.generation = generation
    BY <1>1, <1>2, <1>4, <1>16, <2>1 DEF SessionInv, LiveAreNew, KnownTickets,
       QueueTickets, WorkerTickets, Current
  <2>2. QED
    BY <1>3, <1>5, <2>1
       DEF SessionInv, LiveAreNew, QueueTickets, Current, Started
<1>19. Fed'
  <2>1. CASE UNCHANGED <<in_flight, workers>> /\ queue' = J
    <3>1. queue' # {} /\ in_flight' = {} => queue # {}
      BY <1>1, <2>1 DEF Pumped
    <3>2. QED
      BY <1>3, <2>1, <3>1 DEF SessionInv, Fed
  <2>2. ASSUME NEW j \in J, in_flight' = {j.ticket},
               workers' = workers \union {Started(j)}
        PROVE  Fed'
    <3>1. /\ Started(j) \in workers' /\ Started(j).ticket = j.ticket
          /\ Started(j).at = "release" /\ Started(j).generation = generation
      BY <2>2 DEF Started
    <3>2. QED
      BY <1>3, <2>2, <3>1 DEF Fed
  <2>3. QED
    BY <1>5, <2>1, <2>2
<1>20. LatestComes'
  <2>1. CASE p = Selection
    <3>1. CASE kind = "open"
      <4>1. job \in J /\ job.kind = "open" /\ job.ticket = latest'
        BY <1>1, <1>2, <2>1, <3>1
      <4>2. job \in queue' \/ Started(job) \in workers'
        BY <1>5, <4>1
      <4>3. LatestPending'
        BY <4>1, <4>2 DEF LatestPending, Started
      <4>4. QED
        BY <4>3 DEF LatestComes
    <3>2. CASE kind # "open"
      BY <2>1, <3>2 DEF LatestComes
    <3>3. QED
      BY <3>1, <3>2
  <2>2. CASE p # Selection
    <3>1. ASSUME NEW q \in queue, q.kind = "open"
          PROVE  q \in J
      <4>1. q.priority = Selection /\ q \in Merged(job)
        BY <1>2, <2>2, <3>1 DEF SessionInv, QueueOrdered, Merged
      <4>2. q \notin Victims(job, Merged(job))
        BY <1>2, <2>2, <4>1 DEF Victims, Oldest, Selection
      <4>3. QED
        BY <1>1, <4>1, <4>2 DEF Kept
    <3>2. LatestPending => LatestPending'
      <4>1. ASSUME NEW q \in queue, q.kind = "open", q.ticket = latest
            PROVE  LatestPending'
        <5>1. q \in queue' \/ Started(q) \in workers'
          BY <1>5, <3>1, <4>1
        <5>2. latest' = latest
          BY <2>2
        <5>3. QED
          BY <4>1, <5>1, <5>2 DEF LatestPending, Started
      <4>2. QED
        BY <1>6, <2>2, <4>1 DEF LatestPending
    <3>3. QED
      BY <1>3, <2>2, <3>2 DEF SessionInv, LatestComes
  <2>3. QED
    BY <2>1, <2>2
<1>21. QED
  BY <1>10, <1>11, <1>14, <1>15, <1>17, <1>18, <1>19, <1>20 DEF SessionInv

(***************************************************************************)
(* selectTarget() and clear().                                             *)
(***************************************************************************)
LEMMA KnownTyped ==
  ASSUME SessionInv
  PROVE  /\ KnownTickets \subseteq Tickets
         /\ \A t \in Tickets : t.generation \in Nat /\ t.serial \in Nat
         /\ generation \in Nat /\ serial \in Nat /\ NoTicket \notin Tickets
<1>1. Tickets \subseteq [generation : Nat, frame : Frames, serial : Nat]
  BY SessionAssumption DEF Tickets
<1>2. QED
  BY <1>1, SessionAssumption
     DEF SessionInv, QueueDisciplined, TypeOK, KnownTickets, QueueTickets,
         WorkerTickets, Current

LEMMA EmptyQueue ==
  ASSUME TypeOK', queue' = {}
  PROVE  QueueDisciplined' /\ QueueOrdered'
<1>1. IsFiniteSet(queue') /\ Cardinality(queue') = 0
  BY FS_EmptySet
<1>2. QED
  BY <1>1, SessionAssumption DEF QueueDisciplined, QueueOrdered

LEMMA SelectTargetKeeps ==
  ASSUME SessionInv, NEW f \in Frames, SelectTarget(f)
  PROVE  SessionInv'
<1> DEFINE t == Ticket(f)
<1>1. /\ queue' = {} /\ in_flight' = {} /\ ticket' = t /\ latest' = t
      /\ serial' = serial + 1 /\ serial < MaxSerial
      /\ UNCHANGED <<generation, workers, arrivals, unavailable>>
  BY DEF SelectTarget
<1>2. /\ t \in Tickets /\ t # NoTicket
      /\ t.generation = generation /\ t.serial = serial + 1
  <2>1. serial \in 0..MaxSerial /\ generation \in 0..MaxGen
    BY DEF SessionInv, QueueDisciplined, TypeOK
  <2>2. t \in Tickets /\ t.generation = generation /\ t.serial = serial + 1
    BY <1>1, <2>1, SessionAssumption DEF Ticket, Tickets
  <2>3. QED
    BY <2>2, KnownTyped
<1>3. QueueDisciplined' /\ QueueOrdered'
  <2>1. TypeOK'
    BY <1>1, <1>2, SessionAssumption DEF SessionInv, QueueDisciplined, TypeOK
  <2>2. QED
    BY <1>1, <2>1, EmptyQueue
<1>4. WorkersAged'
  BY <1>1 DEF SessionInv, WorkersAged
<1>5. \A w \in workers : w.ticket \in KnownTickets /\ w.ticket # t
  <2>1. ASSUME NEW u \in KnownTickets, u = t
        PROVE  FALSE
    BY <1>2, <2>1, KnownTyped DEF SessionInv, SerialsOrdered
  <2>2. QED
    BY <2>1 DEF KnownTickets, WorkerTickets
<1>6. KnownTickets' \subseteq KnownTickets \union {t}
  BY <1>1 DEF KnownTickets, QueueTickets, WorkerTickets, Current
<1>7. SerialsOrdered'
  <2>1. ASSUME NEW u \in KnownTickets', u # t
        PROVE  /\ u.generation <= generation
               /\ u.generation = generation => u.serial < serial + 1
    BY <1>6, <2>1, KnownTyped DEF SessionInv, SerialsOrdered
  <2>2. ASSUME NEW u \in KnownTickets', u.generation = generation
        PROVE  u.serial <= serial + 1 /\ (u.serial = serial + 1 => u = t)
    <3>1. CASE u = t
      BY <1>2, <3>1, KnownTyped
    <3>2. CASE u # t
      <4>1. u.serial \in Nat
        BY <1>6, <3>2, KnownTyped
      <4>2. QED
        BY <2>1, <2>2, <3>2, <4>1, KnownTyped
    <3>3. QED
      BY <3>1, <3>2
  <2>3. QED
    BY <1>1, <1>2, <2>1, <2>2, KnownTyped DEF SerialsOrdered
<1>8. OpensApart'
  BY <1>1, <1>5 DEF SessionInv, OpensApart, QueueTickets, Current
<1>9. LiveAreNew'
  BY <1>1, <1>5 DEF LiveAreNew, QueueTickets, Current
<1>10. Fed'
  BY <1>1 DEF Fed
<1>11. LatestComes'
  BY <1>1, <1>2, KnownTyped DEF LatestComes
<1>12. QED
  BY <1>3, <1>4, <1>7, <1>8, <1>9, <1>10, <1>11 DEF SessionInv

LEMMA ClearKeeps ==
  ASSUME SessionInv, Clear
  PROVE  SessionInv'
<1>1. /\ queue' = {} /\ in_flight' = {} /\ ticket' = NoTicket
      /\ latest' = NoTicket /\ serial' = 0 /\ generation' = generation + 1
      /\ generation < MaxGen /\ UNCHANGED <<workers, arrivals, unavailable>>
  BY DEF Clear
<1>2. QueueDisciplined' /\ QueueOrdered'
  <2>1. TypeOK'
    BY <1>1, SessionAssumption DEF SessionInv, QueueDisciplined, TypeOK
  <2>2. QED
    BY <1>1, <2>1, EmptyQueue
<1>3. WorkersAged'
  <2>1. \A w \in workers : w.generation \in Nat
    BY SessionAssumption DEF SessionInv, QueueDisciplined, TypeOK
  <2>2. QED
    BY <1>1, <2>1, KnownTyped DEF SessionInv, WorkersAged
<1>4. KnownTickets' \subseteq KnownTickets
  BY <1>1 DEF KnownTickets, QueueTickets, WorkerTickets, Current
<1>5. SerialsOrdered'
  BY <1>1, <1>4, KnownTyped DEF SessionInv, SerialsOrdered
<1>6. OpensApart' /\ LiveAreNew'
  BY <1>1 DEF SessionInv, OpensApart, LiveAreNew, QueueTickets, Current
<1>7. Fed' /\ LatestComes'
  BY <1>1 DEF Fed, LatestComes
<1>8. QED
  BY <1>2, <1>3, <1>5, <1>6, <1>7 DEF SessionInv

(***************************************************************************)
(* The completions.                                                        *)
(***************************************************************************)
WorkerFields ==
  [kind : {"open", "analysis", "statistics"}, ticket : Tickets,
   arrival : 1..MaxRequests, generation : 0..MaxGen,
   at : {"release", "check", "pump", "adopt", "gate"}]

(* All of the invariant that does not depend on where a completion is,     *)
(* save its sections "adopt" and "gate".                                   *)
Placed ==
  /\ QueueDisciplined /\ QueueOrdered /\ SerialsOrdered /\ WorkersAged
  /\ OpensApart /\ LiveAreNew

LEMMA StepFields ==
  ASSUME SessionInv, NEW w \in workers,
         NEW at \in {"check", "pump", "adopt", "gate"}
  PROVE  \E v \in WorkerFields :
           /\ v.kind = w.kind /\ v.ticket = w.ticket /\ v.at = at
           /\ v.generation = w.generation
           /\ Step(w, at) = (workers \ {w}) \union {v}
<1> DEFINE v == [w EXCEPT !.at = at]
<1>1. w \in WorkerFields
  BY DEF SessionInv, QueueDisciplined, TypeOK, WorkerFields
<1>2. /\ v \in WorkerFields /\ v.kind = w.kind /\ v.ticket = w.ticket
      /\ v.at = at /\ v.generation = w.generation
  BY <1>1 DEF WorkerFields
<1>3. QED
  BY <1>2 DEF Step

(* A completion goes on to its next section.                               *)
LEMMA StepKeeps ==
  ASSUME SessionInv, NEW w \in workers, NEW v \in WorkerFields,
         v.kind = w.kind, v.ticket = w.ticket, v.generation = w.generation,
         v.at = "adopt" => v.kind = "open",
         v.at = "gate" => v.kind # "open",
         workers' = (workers \ {w}) \union {v},
         in_flight' \subseteq in_flight,
         UNCHANGED <<generation, ticket, queue, arrivals, serial, history>>
  PROVE  Placed' /\ LatestComes'
<1>1. UNCHANGED <<generation, ticket, queue, arrivals, serial, latest, unavailable>>
  BY DEF history
<1>2. QueueDisciplined'
  BY <1>1 DEF SessionInv, QueueDisciplined, TypeOK, WorkerFields
<1>3. QueueOrdered'
  BY <1>1 DEF SessionInv, QueueOrdered
<1>4. KnownTickets' = KnownTickets
  BY <1>1 DEF KnownTickets, QueueTickets, WorkerTickets, Current
<1>5. SerialsOrdered'
  BY <1>1, <1>4 DEF SessionInv, SerialsOrdered
<1>6. WorkersAged'
  BY <1>1 DEF SessionInv, WorkersAged
<1>7. WorkerTickets' = WorkerTickets
  BY DEF WorkerTickets
<1>8. OpensApart'
  BY <1>1, <1>7 DEF SessionInv, OpensApart, QueueTickets, Current
<1>9. LiveAreNew'
  BY <1>1 DEF SessionInv, LiveAreNew, QueueTickets, Current
<1>10. LatestComes'
  BY <1>1 DEF SessionInv, LatestComes, LatestPending
<1>11. QED
  BY <1>2, <1>3, <1>5, <1>6, <1>8, <1>9, <1>10 DEF Placed

(* A completion ends.                                                      *)
LEMMA LeaveKeeps ==
  ASSUME SessionInv, NEW w \in workers, workers' = workers \ {w},
         UNCHANGED <<generation, ticket, queues, arrivals, serial, latest>>,
         unavailable' \subseteq Tickets
  PROVE  Placed'
<1>1. UNCHANGED <<generation, ticket, queue, in_flight, arrivals, serial, latest>>
  BY DEF queues
<1>2. QueueDisciplined'
  BY <1>1 DEF SessionInv, QueueDisciplined, TypeOK
<1>3. QueueOrdered' /\ WorkersAged'
  BY <1>1 DEF SessionInv, QueueOrdered, WorkersAged
<1>4. KnownTickets' \subseteq KnownTickets
  BY <1>1 DEF KnownTickets, QueueTickets, WorkerTickets, Current
<1>5. SerialsOrdered'
  BY <1>1, <1>4 DEF SessionInv, SerialsOrdered
<1>6. OpensApart'
  BY <1>1 DEF SessionInv, OpensApart, QueueTickets, WorkerTickets, Current
<1>7. LiveAreNew'
  BY <1>1 DEF SessionInv, LiveAreNew, QueueTickets, Current
<1>8. QED
  BY <1>2, <1>3, <1>5, <1>6, <1>7 DEF Placed

LEMMA ReleaseKeeps ==
  ASSUME SessionInv, NEW w \in workers, Release(w)
  PROVE  SessionInv'
<1>1. PICK v \in WorkerFields :
         /\ v.kind = w.kind /\ v.ticket = w.ticket /\ v.at = "check"
         /\ v.generation = w.generation
         /\ workers' = (workers \ {w}) \union {v}
  BY StepFields DEF Release
<1>2. Placed' /\ LatestComes'
  BY <1>1, StepKeeps DEF Release
<1>3. Fed'
  <2>1. CASE w.ticket \in in_flight
    <3>1. in_flight' = {} /\ w.generation = generation /\ generation' = generation
      BY <2>1 DEF Release, SessionInv, QueueDisciplined, TypeOK, LiveAreNew
    <3>2. QED
      BY <1>1, <3>1 DEF Fed
  <2>2. CASE w.ticket \notin in_flight
    <3>1. in_flight' = in_flight /\ w.at = "release"
          /\ UNCHANGED <<queue, generation>>
      BY <2>2 DEF Release
    <3>2. QED
      BY <1>1, <2>2, <3>1 DEF SessionInv, Fed
  <2>3. QED
    BY <2>1, <2>2
<1>4. QED
  BY <1>2, <1>3 DEF Placed, SessionInv

LEMMA CheckGenerationKeeps ==
  ASSUME SessionInv, NEW w \in workers, CheckGeneration(w)
  PROVE  SessionInv'
<1>1. UNCHANGED <<generation, ticket, queue, in_flight, arrivals, serial,
                  latest, unavailable>>
      /\ w.at = "check"
  BY DEF CheckGeneration, queues, history
<1>2. CASE w.generation = generation
  <2>1. PICK v \in WorkerFields :
           /\ v.kind = w.kind /\ v.ticket = w.ticket /\ v.at = "pump"
           /\ v.generation = w.generation
           /\ workers' = (workers \ {w}) \union {v}
    BY <1>2, StepFields DEF CheckGeneration
  <2>2. Placed' /\ LatestComes'
    BY <1>1, <2>1, StepKeeps DEF history
  <2>3. Fed'
    BY <1>1, <2>1 DEF SessionInv, Fed
  <2>4. QED
    BY <2>2, <2>3 DEF Placed, SessionInv
<1>3. CASE w.generation # generation
  <2>1. workers' = workers \ {w}
    BY <1>3 DEF CheckGeneration
  <2>2. Placed'
    BY <1>1, <2>1, LeaveKeeps DEF queues, SessionInv, QueueDisciplined, TypeOK
  <2>3. Fed'
    BY <1>1, <1>3, <2>1 DEF SessionInv, Fed
  <2>4. LatestComes'
    <3>1. latest # NoTicket /\ w.ticket = latest => w.generation = generation
      <4>1. w.generation \in Nat /\ generation \in Nat
        BY SessionAssumption DEF SessionInv, QueueDisciplined, TypeOK
      <4>2. QED
        BY <4>1 DEF SessionInv, SerialsOrdered, WorkersAged
    <3>2. QED
      BY <1>1, <1>3, <2>1, <3>1 DEF SessionInv, LatestComes, LatestPending
  <2>5. QED
    BY <2>2, <2>3, <2>4 DEF Placed, SessionInv
<1>4. QED
  BY <1>2, <1>3

LEMMA GateKeeps ==
  ASSUME SessionInv, NEW w \in workers, Gate(w)
  PROVE  SessionInv'
<1>1. /\ UNCHANGED <<generation, ticket, queue, in_flight, arrivals, serial,
                     latest, unavailable>>
      /\ workers' = workers \ {w} /\ w.at = "gate" /\ w.kind # "open"
  BY DEF Gate, Published, queues, history, SessionInv, WorkersAged
<1>2. Placed'
  BY <1>1, LeaveKeeps DEF queues, SessionInv, QueueDisciplined, TypeOK
<1>3. Fed' /\ LatestComes'
  BY <1>1 DEF SessionInv, Fed, LatestComes, LatestPending
<1>4. QED
  BY <1>2, <1>3 DEF Placed, SessionInv

LEMMA PumpKeeps ==
  ASSUME SessionInv, NEW w \in workers, Pump(w)
  PROVE  SessionInv'
<1>1. /\ UNCHANGED <<generation, ticket, arrivals, serial, latest, unavailable>>
      /\ w.at = "pump"
  BY DEF Pump, history
<1>2. PICK v \in WorkerFields :
         /\ v.kind = w.kind /\ v.ticket = w.ticket /\ v.generation = w.generation
         /\ v.at = IF w.kind = "open" THEN "adopt" ELSE "gate"
         /\ Step(w, v.at) = (workers \ {w}) \union {v}
  BY StepFields
<1> DEFINE W == (workers \ {w}) \union {v}
<1>3. Pumped(queue, in_flight, W)
  <2>1. PumpLocked(queue, in_flight, W)
    BY <1>2 DEF Pump
  <2>2. Numbered(queue)
    BY QueueNumbered DEF SessionInv, QueueDisciplined
  <2>3. QED
    BY <2>1, <2>2, PumpEffect DEF SessionInv, QueueOrdered
<1>4. CASE /\ queue = {} \/ in_flight # {}
           /\ queue' = queue /\ in_flight' = in_flight /\ workers' = W
  <2>1. Placed' /\ LatestComes'
    BY <1>1, <1>2, <1>4, StepKeeps DEF history
  <2>2. Fed'
    BY <1>1, <1>2, <1>4 DEF SessionInv, Fed
  <2>3. QED
    BY <2>1, <2>2 DEF Placed, SessionInv
<1>5. ASSUME in_flight = {}, NEW j \in queue, queue' = queue \ {j},
             in_flight' = {j.ticket}, workers' = W \union {Started(j)}
      PROVE  SessionInv'
  <2> DEFINE s == Started(j)
  <2>1. /\ s \in WorkerFields /\ s.kind = j.kind /\ s.ticket = j.ticket
        /\ s.at = "release" /\ s.generation = generation
        /\ j.ticket \in Tickets
    BY DEF SessionInv, QueueDisciplined, TypeOK, WorkerFields, Started
  <2>2. QueueDisciplined'
    <3>1. TypeOK'
      BY <1>1, <1>2, <1>5, <2>1
         DEF SessionInv, QueueDisciplined, TypeOK, WorkerFields
    <3>2. Cardinality(queue') <= QueueCap
      <4>1. /\ IsFiniteSet(queue) /\ IsFiniteSet(queue')
            /\ Cardinality(queue') <= Cardinality(queue)
        BY <1>5, FS_Subset DEF SessionInv, QueueOrdered
      <4>2. QED
        BY <4>1, FS_CardinalityType, SessionAssumption
           DEF SessionInv, QueueDisciplined
    <3>3. QED
      BY <1>5, <3>1, <3>2 DEF SessionInv, QueueDisciplined
  <2>3. QueueOrdered'
    <3>1. IsFiniteSet(queue')
      BY <1>5, FS_Subset DEF SessionInv, QueueOrdered
    <3>2. QED
      BY <1>1, <1>5, <3>1 DEF SessionInv, QueueOrdered
  <2>4. KnownTickets' \subseteq KnownTickets
    BY <1>1, <1>2, <1>5, <2>1
       DEF KnownTickets, QueueTickets, WorkerTickets, Current
  <2>5. SerialsOrdered'
    BY <1>1, <2>4 DEF SessionInv, SerialsOrdered
  <2>6. WorkersAged'
    <3>1. j.ticket.generation <= generation
      BY DEF SessionInv, SerialsOrdered, KnownTickets, QueueTickets
    <3>2. QED
      BY <1>1, <1>2, <1>5, <2>1, <3>1, KnownTyped DEF SessionInv, WorkersAged
  <2>7. OpensApart'
    BY <1>1, <1>2, <1>5, <2>1
       DEF SessionInv, OpensApart, QueueTickets, WorkerTickets, Current
  <2>8. LiveAreNew'
    BY <1>1, <1>2, <1>5, <2>1
       DEF SessionInv, LiveAreNew, QueueTickets, Current
  <2>9. Fed'
    BY <1>1, <1>5, <2>1 DEF Fed
  <2>10. LatestComes'
    BY <1>1, <1>2, <1>5, <2>1 DEF SessionInv, LatestComes, LatestPending
  <2>11. QED
    BY <2>2, <2>3, <2>5, <2>6, <2>7, <2>8, <2>9, <2>10 DEF SessionInv
<1>6. QED
  BY <1>3, <1>4, <1>5 DEF Pumped

(* A target is adopted, refused for its serial, or could not be built.     *)
LEMMA AdoptKeeps ==
  ASSUME SessionInv, NEW w \in workers, Adopt(w)
  PROVE  SessionInv'
<1>1. /\ UNCHANGED <<generation, queue, in_flight, arrivals, serial, latest>>
      /\ workers' = workers \ {w} /\ w.at = "adopt" /\ w.kind = "open"
      /\ w.ticket \in Tickets
  BY DEF Adopt, Published, queues, SessionInv, WorkersAged, QueueDisciplined,
         TypeOK
<1>2. Fed'
  BY <1>1 DEF SessionInv, Fed
<1>3. CASE ticket' = ticket /\ unavailable' = unavailable \union {w.ticket}
  <2>1. Placed'
    BY <1>1, <1>3, LeaveKeeps DEF queues, SessionInv, QueueDisciplined, TypeOK
  <2>2. LatestComes'
    BY <1>1, <1>3 DEF SessionInv, LatestComes, LatestPending
  <2>3. QED
    BY <1>2, <2>1, <2>2 DEF Placed, SessionInv
<1>4. CASE ~MayAdopt(w) /\ ticket' = ticket /\ unavailable' = unavailable
  <2>1. Placed'
    BY <1>1, <1>4, LeaveKeeps DEF queues, SessionInv, QueueDisciplined, TypeOK
  <2>2. LatestComes'
    <3>1. CASE latest # NoTicket /\ w.ticket = latest
      <4>a. w.ticket \in KnownTickets
        BY <1>1 DEF KnownTickets, WorkerTickets
      <4>b. ticket # NoTicket /\ ~(ticket.serial <= w.ticket.serial)
        BY <1>4, <3>1 DEF MayAdopt
      <4>c. ticket \in KnownTickets
        BY <4>b DEF KnownTickets, Current
      <4>d. ticket.serial \in Nat /\ w.ticket.serial \in Nat
        BY <4>a, <4>c, KnownTyped
      <4>1. ticket \in KnownTickets /\ ticket.serial > latest.serial
        BY <3>1, <4>b, <4>c, <4>d
      <4>2. ticket.generation # generation
        BY <3>1, <4>1, KnownTyped DEF SessionInv, SerialsOrdered
      <4>3. QED
        BY <1>1, <1>4, <3>1, <4>1, <4>2, KnownTyped DEF MayAdopt, LatestComes
    <3>2. CASE ~(latest # NoTicket /\ w.ticket = latest)
      BY <1>1, <1>4, <3>2 DEF SessionInv, LatestComes, LatestPending
    <3>3. QED
      BY <3>1, <3>2
  <2>3. QED
    BY <1>2, <2>1, <2>2 DEF Placed, SessionInv
<1>5. CASE MayAdopt(w) /\ ticket' = w.ticket /\ unavailable' = unavailable
  <2>1. QueueDisciplined' /\ QueueOrdered' /\ WorkersAged'
    BY <1>1, <1>5
       DEF SessionInv, QueueDisciplined, TypeOK, QueueOrdered, WorkersAged
  <2>2. KnownTickets' \subseteq KnownTickets
    BY <1>1, <1>5 DEF KnownTickets, QueueTickets, WorkerTickets, Current
  <2>3. SerialsOrdered'
    BY <1>1, <2>2 DEF SessionInv, SerialsOrdered
  <2>4. OpensApart'
    BY <1>1, <1>5
       DEF SessionInv, OpensApart, QueueTickets, WorkerTickets, Current
  <2>5. LiveAreNew'
    BY <1>1, <1>5
       DEF SessionInv, LiveAreNew, OpensApart, QueueTickets, Current
  <2>6. LatestComes'
    <3>1. w.ticket \in KnownTickets
      BY DEF KnownTickets, WorkerTickets
    <3>2. CASE latest # NoTicket /\ w.ticket # latest /\ ~LatestPending
                 /\ latest \notin unavailable
      <4>1. /\ ticket # NoTicket /\ ticket.serial >= latest.serial
            /\ latest.serial = serial /\ latest.generation = generation
        BY <3>2 DEF SessionInv, LatestComes, SerialsOrdered
      <4>2. w.ticket.serial >= ticket.serial /\ ticket \in KnownTickets
        BY <1>5, <4>1 DEF MayAdopt, KnownTickets, Current
      <4>3. w.ticket.serial >= serial
        BY <3>1, <4>1, <4>2, KnownTyped
      <4>4. w.ticket.generation # generation
        BY <3>1, <3>2, <4>3, KnownTyped DEF SessionInv, SerialsOrdered
      <4>5. QED
        BY <1>1, <1>5, <4>1, <4>3, <4>4, KnownTyped DEF LatestComes
    <3>3. CASE latest # NoTicket /\ w.ticket = latest
      BY <1>1, <1>5, <3>1, <3>3, KnownTyped DEF LatestComes
    <3>4. CASE w.ticket # latest /\ LatestPending
      BY <1>1, <3>4 DEF LatestComes, LatestPending
    <3>5. QED
      BY <1>1, <1>5, <3>2, <3>3, <3>4 DEF LatestComes
  <2>7. QED
    BY <1>2, <2>1, <2>3, <2>4, <2>5, <2>6 DEF SessionInv
<1>6. QED
  BY <1>3, <1>4, <1>5 DEF Adopt

(***************************************************************************)
(* The theorems.                                                           *)
(***************************************************************************)
LEMMA SessionInit == Init => SessionInv
<1> SUFFICES ASSUME Init PROVE SessionInv
  OBVIOUS
<1>1. queue = {} /\ workers = {} /\ ticket = NoTicket /\ latest = NoTicket
      /\ in_flight = {}
  BY DEF Init
<1>2. TypeOK
  BY SessionAssumption DEF Init, TypeOK
<1>3. IsFiniteSet(queue) /\ Cardinality(queue) = 0
  BY <1>1, FS_EmptySet
<1>4. QueueDisciplined /\ QueueOrdered
  BY <1>1, <1>2, <1>3, SessionAssumption DEF QueueDisciplined, QueueOrdered
<1>5. SerialsOrdered
  BY <1>1
     DEF SerialsOrdered, KnownTickets, QueueTickets, WorkerTickets, Current
<1>6. QED
  BY <1>1, <1>4, <1>5
     DEF SessionInv, WorkersAged, OpensApart, LiveAreNew, Fed, LatestComes

LEMMA SessionNext == SessionInv /\ [Next]_vars => SessionInv'
<1> SUFFICES ASSUME SessionInv, [Next]_vars PROVE SessionInv'
  OBVIOUS
<1>1. CASE UNCHANGED vars
  BY <1>1
     DEF vars, queues, history, SessionInv, QueueDisciplined, TypeOK,
         QueueOrdered, SerialsOrdered, WorkersAged, OpensApart, LiveAreNew,
         Fed, LatestComes, LatestPending, KnownTickets, QueueTickets,
         WorkerTickets, Current
<1>2. ASSUME NEW f \in Frames, OpenFrame(f)
      PROVE  SessionInv'
  <2> DEFINE t == Ticket(f)
  <2>1. serial \in 0..MaxSerial /\ generation \in 0..MaxGen /\ serial < MaxSerial
    BY <1>2 DEF SessionInv, QueueDisciplined, TypeOK, OpenFrame
  <2>2. t \in Tickets /\ t.generation = generation /\ t.serial = serial + 1
    BY <2>1, SessionAssumption DEF Ticket, Tickets
  <2>3. QED
    BY <1>2, <2>1, <2>2, RequestKeeps DEF OpenFrame, Selection
<1>3. ASSUME NEW p \in Priorities, RequestFrameAnalysis(p)
      PROVE  SessionInv'
  <2>1. ticket \in Tickets
    BY <1>3 DEF SessionInv, QueueDisciplined, TypeOK, RequestFrameAnalysis
  <2>2. QED
    BY <1>3, <2>1, RequestKeeps, SessionAssumption DEF RequestFrameAnalysis
<1>4. CASE RequestFrameStatistics
  <2>1. ticket \in Tickets
    BY <1>4 DEF SessionInv, QueueDisciplined, TypeOK, RequestFrameStatistics
  <2>2. Background \in 0..2 /\ Background # Selection
    BY DEF Background, Selection
  <2>3. QED
    BY <1>4, <2>1, <2>2, RequestKeeps DEF RequestFrameStatistics
<1>5. QED
  BY <1>1, <1>2, <1>3, <1>4, SelectTargetKeeps, ClearKeeps, ReleaseKeeps,
     CheckGenerationKeeps, PumpKeeps, AdoptKeeps, GateKeeps
     DEF Next, Gui, Worker

LEMMA SessionInductive == Spec => []SessionInv
BY SessionInit, SessionNext, PTL DEF Spec

(* However requests are merged, dropped, refused and started, the queue    *)
(* never exceeds kQueueCap and never holds two jobs of one kind for one    *)
(* frame.                                                                  *)
THEOREM QueueTheorem == Spec => []QueueDisciplined
<1>1. SessionInv => QueueDisciplined
  BY DEF SessionInv
<1>2. QED
  BY SessionInductive, <1>1, PTL

(* The pump is never lost: while jobs wait, a completion of this document  *)
(* is on its way to it, although release, generation check and pump are    *)
(* separate critical sections that clear() and selectTarget() cut into.    *)
THEOREM FedTheorem == Spec => []QueueIsFed
<1>1. SessionInv => QueueIsFed
  BY DEF SessionInv, Fed, QueueIsFed
<1>2. QED
  BY SessionInductive, <1>1, PTL

(* Whatever order the completions end in, the session settles on the frame *)
(* selected last, unless its target could not be built or a completion of  *)
(* a cleared document got there.                                           *)
THEOREM SettlesTheorem == Spec => []SettlesOnLatest
<1>1. SessionInv => SettlesOnLatest
  BY DEF SessionInv, LatestComes, LatestPending, SettlesOnLatest, Quiet
<1>2. QED
  BY SessionInductive, <1>1, PTL
=============================================================================
