----------------------- MODULE FrameInspectionSession ----------------------
(***************************************************************************)
(* The per-frame inspection context of one APNG document:                  *)
(* frame_inspection_session.h and .cpp and the publication gate of         *)
(* inspection_context.cpp.                                                 *)
(*                                                                         *)
(* The GUI thread enqueues jobs; the pump starts a one-shot QThread whose  *)
(* completion takes the session's mutex several times.  Whatever a         *)
(* completion does without the mutex and without reading the session       *)
(* (building a target, decoding) is part of the step that follows it.      *)
(* queue_ is kept in arrival order, so a set of numbered jobs stands for   *)
(* it.  Signals are not kept: nobody in this module reads them back.       *)
(***************************************************************************)
EXTENDS Naturals, FiniteSets

CONSTANTS
  Frames,       (* frame indices of a document                             *)
  Ops,          (* what the GUI does beside openFrame: "analysis",         *)
                (* "statistics", "selectTarget", "clear"                   *)
  QueueCap,     (* kQueueCap                                               *)
  Priorities,   (* of the analyses asked for, kViewport and kSelection     *)
  MaxRequests,  (* bound on arrival_counter_                               *)
  MaxSerial,    (* bound on the selections of one document                 *)
  MaxGen,       (* bound on generation_                                    *)
  NoTicket      (* the default InspectionTicket                            *)

ASSUME SessionAssumption ==
  /\ Ops \subseteq {"analysis", "statistics", "selectTarget", "clear"}
  /\ QueueCap \in Nat \ {0}
  /\ {MaxRequests, MaxSerial, MaxGen} \subseteq Nat
  /\ Priorities \subseteq 0..2
  /\ NoTicket \notin [generation : Nat, frame : Frames, serial : Nat]

VARIABLES
  generation,  (* generation_                                              *)
  ticket,      (* current_ticket_; NoTicket while current_target_ is null  *)
  queue,       (* queue_: jobs, ordered by their arrival                   *)
  in_flight,   (* in_flight_: the ticket of the entry, if any              *)
  workers,     (* completions that run, each on a thread of its own        *)
  arrivals,    (* arrival_counter_                                         *)
  serial,      (* AnimationController's frame_selection_serial_            *)
  latest,      (* history: the newest selection, if it chose a frame       *)
  unavailable  (* history: tickets whose target could not be built         *)

queues == <<queue, in_flight>>
history == <<latest, unavailable>>
vars == <<generation, ticket, queues, workers, arrivals, serial, history>>

Selection == 2    (* JobPriority::kSelection, kViewport and kBackground    *)
Viewport == 1
Background == 0

Ticket(f) == [generation |-> generation, frame |-> f, serial |-> serial + 1]

Init ==
  /\ generation = 0
  /\ ticket = NoTicket
  /\ queue = {}
  /\ in_flight = {}
  /\ workers = {}
  /\ arrivals = 0
  /\ serial = 0
  /\ latest = NoTicket
  /\ unavailable = {}

(* accepts() under PublicationScope::kTarget: key and epoch, the epoch     *)
(* being the same for every ticket; the serial is not compared.            *)
Accepts(t) ==
  /\ ticket # NoTicket
  /\ ticket.generation = t.generation
  /\ ticket.frame = t.frame

-----------------------------------------------------------------------------
(* pumpLocked(): with no entry in flight, start the queued job of highest  *)
(* priority, the oldest first.                                             *)
Sooner(a, b) ==
  a.priority > b.priority \/ (a.priority = b.priority /\ a.arrival < b.arrival)

StartableWhileBusy(jobs, active) == jobs # {}

Startable(jobs, active) == jobs # {} /\ active = {}

PumpLocked(jobs, active, others) ==
  IF ~Startable(jobs, active)
  THEN queue' = jobs /\ in_flight' = active /\ workers' = others
  ELSE LET j == CHOOSE a \in jobs : \A b \in jobs \ {a} : Sooner(a, b) IN
       /\ queue' = jobs \ {j}
       /\ in_flight' = active \union {j.ticket}
       /\ workers' = others \union
            {[kind |-> j.kind, ticket |-> j.ticket, arrival |-> j.arrival,
              generation |-> generation, at |-> "release"]}

(* enqueue(): a queued job of the same kind and frame gives way to the new *)
(* one; a full queue drops its oldest job of lower priority, or its oldest *)
(* job when a selection comes in, or else refuses the newcomer.            *)
MergedKeepingBoth(job) == queue

Merged(job) ==
  {q \in queue : q.kind # job.kind \/ q.ticket.frame # job.ticket.frame}

Oldest(jobs) == {a \in jobs : \A b \in jobs : a.arrival <= b.arrival}

Victims(job, jobs) ==
  LET lower == {q \in jobs : q.priority < job.priority} IN
  IF Cardinality(jobs) < QueueCap THEN {}
  ELSE IF lower # {} THEN Oldest(lower)
  ELSE IF job.priority = Selection THEN Oldest(jobs) ELSE {}

Enqueue(kind, t, priority) ==
  LET job == [kind |-> kind, ticket |-> t, priority |-> priority,
              arrival |-> arrivals + 1]
      kept == Merged(job) \ Victims(job, Merged(job))
  IN /\ arrivals < MaxRequests
     /\ arrivals' = arrivals + 1
     /\ IF Cardinality(kept) < QueueCap
        THEN PumpLocked(kept \union {job}, in_flight, workers)
        ELSE queue' = kept /\ UNCHANGED <<in_flight, workers>>
     /\ UNCHANGED <<generation, ticket, unavailable>>

OpenFrame(f) ==
  /\ serial < MaxSerial
  /\ Enqueue("open", Ticket(f), Selection)
  /\ serial' = serial + 1
  /\ latest' = Ticket(f)

RequestFrameAnalysis(p) ==
  /\ "analysis" \in Ops
  /\ ticket # NoTicket
  /\ Enqueue("analysis", ticket, p)
  /\ latest' = IF p = Selection THEN NoTicket ELSE latest
  /\ UNCHANGED serial

RequestFrameStatistics ==
  /\ "statistics" \in Ops
  /\ ticket # NoTicket
  /\ Enqueue("statistics", ticket, Background)
  /\ UNCHANGED <<serial, latest>>

(* selectTarget(): adopts a target and drops every queued and in-flight    *)
(* request; workers that run go on.                                        *)
SelectTarget(f) ==
  /\ "selectTarget" \in Ops
  /\ serial < MaxSerial
  /\ queue' = {}
  /\ in_flight' = {}
  /\ ticket' = Ticket(f)
  /\ serial' = serial + 1
  /\ latest' = Ticket(f)
  /\ UNCHANGED <<generation, workers, arrivals, unavailable>>

(* clear(), when the document is replaced or closed.  The next document    *)
(* numbers its selections from zero again.                                 *)
ClearKeepingInFlight ==
  /\ "clear" \in Ops
  /\ generation < MaxGen
  /\ generation' = generation + 1
  /\ queue' = {}
  /\ UNCHANGED in_flight
  /\ ticket' = NoTicket
  /\ serial' = 0
  /\ latest' = NoTicket
  /\ UNCHANGED <<workers, arrivals, unavailable>>

Clear ==
  /\ "clear" \in Ops
  /\ generation < MaxGen
  /\ generation' = generation + 1
  /\ queue' = {}
  /\ in_flight' = {}
  /\ ticket' = NoTicket
  /\ serial' = 0
  /\ latest' = NoTicket
  /\ UNCHANGED <<workers, arrivals, unavailable>>

-----------------------------------------------------------------------------
(* A completion, section by section.                                       *)
Step(w, at) == (workers \ {w}) \union {[w EXCEPT !.at = at]}

(* publishAnalysis() computes, asks the gate and signals: nothing of the   *)
(* session changes, so that it is the end of the step before it.           *)
Published(w) == workers \ {w}

(* Every exit path releases the in-flight entry first, found by ticket.    *)
Release(w) ==
  /\ w.at = "release"
  /\ in_flight' = in_flight \ {w.ticket}
  /\ workers' = Step(w, "check")
  /\ UNCHANGED <<generation, ticket, queue, arrivals, serial, history>>

(* generation_ is read without the mutex; a stale completion ends here.    *)
CheckGeneration(w) ==
  /\ w.at = "check"
  /\ workers' = IF w.generation = generation THEN Step(w, "pump")
                ELSE workers \ {w}
  /\ UNCHANGED <<generation, ticket, queues, arrivals, serial, history>>

PumpForgotten(w) ==
  /\ w.at = "pump"
  /\ workers' = Step(w, IF w.kind = "open" THEN "adopt" ELSE "gate")
  /\ UNCHANGED queues
  /\ UNCHANGED <<generation, ticket, arrivals, serial, history>>

Pump(w) ==
  /\ w.at = "pump"
  /\ PumpLocked(queue, in_flight,
                Step(w, IF w.kind = "open" THEN "adopt" ELSE "gate"))
  /\ UNCHANGED <<generation, ticket, arrivals, serial, history>>

(* An open job builds its target, which may fail, and adopts it unless the *)
(* current ticket has a higher serial.                                     *)
MayAdoptAlways(w) == TRUE

MayAdopt(w) == ticket = NoTicket \/ w.ticket.serial >= ticket.serial

Adopt(w) ==
  /\ w.at = "adopt"
  /\ \/ /\ unavailable' = unavailable \union {w.ticket}
        /\ workers' = workers \ {w}
        /\ UNCHANGED ticket
     \/ /\ ticket' = IF MayAdopt(w) THEN w.ticket ELSE ticket
        /\ workers' = Published(w)
        /\ UNCHANGED unavailable
  /\ UNCHANGED <<generation, queues, arrivals, serial, latest>>

Gate(w) ==
  /\ w.at = "gate"
  /\ workers' = IF Accepts(w.ticket) THEN Published(w) ELSE workers \ {w}
  /\ UNCHANGED <<generation, ticket, queues, arrivals, serial, history>>

-----------------------------------------------------------------------------
Gui ==
  \/ \E f \in Frames : OpenFrame(f) \/ SelectTarget(f)
  \/ \E p \in Priorities : RequestFrameAnalysis(p)
  \/ RequestFrameStatistics
  \/ Clear

Worker(w) ==
  \/ Release(w) \/ CheckGeneration(w) \/ Pump(w) \/ Adopt(w) \/ Gate(w)

Next == Gui \/ \E w \in workers : Worker(w)

Spec == Init /\ [][Next]_vars

-----------------------------------------------------------------------------
Tickets == [generation : 0..MaxGen, frame : Frames, serial : 1..MaxSerial]

(* Types; in_flight_ never holds two entries.                              *)
TypeOK ==
  /\ generation \in 0..MaxGen
  /\ {ticket, latest} \subseteq Tickets \union {NoTicket}
  /\ in_flight \union unavailable \subseteq Tickets
  /\ \A t, u \in in_flight : t = u
  /\ arrivals \in 0..MaxRequests
  /\ serial \in 0..MaxSerial
  /\ queue \subseteq [kind : {"open", "analysis", "statistics"},
                      ticket : Tickets, priority : 0..2,
                      arrival : 1..MaxRequests]
  /\ workers \subseteq [kind : {"open", "analysis", "statistics"},
                        ticket : Tickets, arrival : 1..MaxRequests,
                        generation : 0..MaxGen,
                        at : {"release", "check", "pump", "adopt", "gate"}]

(* The queue holds no more than kQueueCap jobs, and never two of one kind  *)
(* for one frame, whatever is merged, dropped and refused (enqueue).       *)
QueueDisciplined ==
  /\ TypeOK
  /\ Cardinality(queue) <= QueueCap
  /\ \A a, b \in queue :
       a.kind = b.kind /\ a.ticket.frame = b.ticket.frame => a = b

(* The pump is never lost: while jobs wait, an entry is in flight or a     *)
(* completion of this document is on its way to the pump (every exit path  *)
(* of the completion, clear(), selectTarget()).                            *)
QueueIsFed ==
  queue # {} =>
    \/ \E t \in in_flight :
         \E w \in workers : /\ w.ticket = t
                            /\ w.at = "release"
                            /\ w.generation = generation
    \/ \E w \in workers : /\ w.at \in {"check", "pump"}
                          /\ w.generation = generation

(* Whatever order the completions finish in, the session ends up on the    *)
(* frame that was opened last, if its target could be built (the "monotonic*)
(* serial guard" of openFrame()) and no completion of a cleared document   *)
(* has put its own target there: see ClearedStaysClear.                    *)
Quiet == workers = {} /\ queue = {}

SettlesOnLatest ==
  Quiet /\ latest \notin unavailable \union {NoTicket} =>
    ticket = latest \/ (ticket # NoTicket /\ ticket.generation # generation)

(* "In-flight jobs are cancelled; their completions never touch this       *)
(* session again" (frame_inspection_session.h 49-50): after clear(), no    *)
(* target of the cleared document becomes the current one.                 *)
ClearedStaysClear == ticket # NoTicket => ticket.generation = generation
=============================================================================
