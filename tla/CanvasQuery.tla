---------------------------- MODULE CanvasQuery ----------------------------
(***************************************************************************)
(* Where the value of one pixel of the canvas comes from                   *)
(* (canvas_pixel_query.cpp): a page of nodes, each after the ones it is    *)
(* made from, and a cursor where a budget has cut the page.                *)
(*                                                                         *)
(* A document d has the canvas <<width, height>> and its frames [x, y,     *)
(* width, height, blend, dispose, ok].  Values are symbols: <<"clear">>,   *)
(* <<"pixel", frame>>, <<"over", source, destination>>.  A request r is    *)
(* [frame, stage, x, y, cursor, cancel_at], frame being -1 when the ticket *)
(* is not of a frame; lim has the budgets of a page.  Frames count from 0. *)
(***************************************************************************)
EXTENDS Integers, Sequences, SequencesExt

CanvasStages ==
  {"frameOutput", "preBlend", "postBlend", "postDispose"}

Transparent == <<"clear">>

FrameAt(d, n) == d.frames[n + 1]

InsideRect(d, r, n) ==
  LET f == FrameAt(d, n)
  IN  /\ r.x \in f.x .. f.x + f.width - 1
      /\ r.y \in f.y .. f.y + f.height - 1

State(frame, stage) == [frame |-> frame, stage |-> stage]

(* A state becomes a node with children or a value of its own, or another  *)
(* state.                                                                  *)
Leaf(op, value) ==
  [kind |-> "node", op |-> op, value |-> value, children |-> <<>>]
Inner(op, children) ==
  [kind |-> "node", op |-> op, value |-> Transparent, children |-> children]
Alias(state) ==
  [kind |-> "alias", op |-> "none", value |-> Transparent,
   children |-> <<state>>]
NoExpansion ==
  [kind |-> "error", op |-> "none", value |-> Transparent, children |-> <<>>]

ExpandPreBlend(n) ==
  IF n = 0 THEN Leaf("clear", Transparent)
  ELSE Alias(State(n - 1, "postDispose"))

(* Wrong: what is disposed of inside the frame is so on all the canvas.    *)
ExpandPostDisposeAll(d, r, n) ==
  LET dispose == FrameAt(d, n).dispose
  IN  CASE dispose = "none" -> Alias(State(n, "postBlend"))
        [] dispose = "background" -> Leaf("clear", Transparent)
        [] dispose = "previous" -> Inner("restore", <<State(n, "preBlend")>>)

ExpandPostDispose(d, r, n) ==
  LET dispose == FrameAt(d, n).dispose
  IN  CASE ~InsideRect(d, r, n) \/ dispose = "none" ->
             Alias(State(n, "postBlend"))
        [] InsideRect(d, r, n) /\ dispose = "background" ->
             Leaf("clear", Transparent)
        [] InsideRect(d, r, n) /\ dispose = "previous" ->
             Inner("restore", <<State(n, "preBlend")>>)

ExpandPostBlend(d, r, n) ==
  IF ~InsideRect(d, r, n) THEN Inner("carry", <<State(n, "preBlend")>>)
  ELSE Inner(FrameAt(d, n).blend,
             <<State(n, "frameOutput"), State(n, "preBlend")>>)

(* A frame that is analysed: the pixel, unless that fails or is cancelled. *)
ExpandFrameOutput(d, r, n) ==
  CASE ~InsideRect(d, r, n) -> Leaf("carry", Transparent)
    [] InsideRect(d, r, n) /\ FrameAt(d, n).ok ->
         Leaf("sample", <<"pixel", n>>)
    [] InsideRect(d, r, n) /\ ~FrameAt(d, n).ok -> NoExpansion

Expand(d, r, s) ==
  CASE s.stage = "preBlend" -> ExpandPreBlend(s.frame)
    [] s.stage = "postDispose" -> ExpandPostDispose(d, r, s.frame)
    [] s.stage = "postBlend" -> ExpandPostBlend(d, r, s.frame)
    [] s.stage = "frameOutput" -> ExpandFrameOutput(d, r, s.frame)

-----------------------------------------------------------------------------
(* A page: the states that are left, the next one last; the nodes that     *)
(* wait for their children; the states that have waited; the nodes; and    *)
(* the node that waits for its parent, if any.                             *)
PageOf(work) ==
  [work |-> work, parked |-> <<>>, flight |-> {}, nodes |-> <<>>,
   loose |-> <<>>, visited |-> 0, history |-> 0, bytes |-> 0, polls |-> 0,
   stop |-> "none", next |-> <<>>]

NodeOf(s, e) ==
  [op |-> e.op, frame |-> s.frame, stage |-> s.stage, value |-> e.value,
   inputs |-> <<>>, need |-> Len(e.children)]

(* The formula of the blend, over the first input and the second.          *)
ValueFrom(op, values) ==
  CASE Len(values) = 1 -> values[1]
    [] Len(values) = 2 /\ op = "over" -> <<"over", values[1], values[2]>>
    [] Len(values) = 2 /\ op # "over" -> values[1]

Noted(p, node) ==
  [p EXCEPT !.nodes = Append(@, node), !.bytes = @ + 1,
            !.loose = <<Len(p.nodes)>>]

(* The node goes to the last that waits; when that has all its children it *)
(* is a node itself.                                                       *)
Attach(p) ==
  LET rest == Front(p.parked)
      top == Last(p.parked)
      inputs == Append(top.inputs, p.loose[1])
      value == ValueFrom(top.op,
                 [k \in DOMAIN inputs |-> p.nodes[inputs[k] + 1].value])
  IN  IF p.loose = <<>> \/ p.parked = <<>> THEN [p EXCEPT !.loose = <<>>]
      ELSE IF Len(inputs) < top.need
      THEN [p EXCEPT !.parked = Append(rest, [top EXCEPT !.inputs = inputs]),
                     !.loose = <<>>]
      ELSE Noted([p EXCEPT !.parked = rest],
                 [top EXCEPT !.inputs = inputs, !.value = value])

EmitNode(p, node) ==
  LET drained[k \in 0..Len(p.parked) + 1] ==
        IF k = 0 THEN Noted(p, node) ELSE Attach(drained[k - 1])
  IN  drained[Len(p.parked) + 1]

CarryLeaf(s) == NodeOf(s, Leaf("carry", Transparent))

(* Wrong: the cursor has what is left in the order in which it was put     *)
(* off.                                                                    *)
CutInOrder(p) ==
  [FoldLeft(LAMBDA q, s : EmitNode(q, CarryLeaf(s)), p, Reverse(p.work))
     EXCEPT !.stop = "partial", !.next = p.work]

(* What is left is cut off: a leaf in the page, and an entry of the cursor,*)
(* the next one first.                                                     *)
Cut(p) ==
  [FoldLeft(LAMBDA q, s : EmitNode(q, CarryLeaf(s)), p, Reverse(p.work))
     EXCEPT !.stop = "partial", !.next = Reverse(p.work)]

OverPage(lim, p) ==
  \/ Len(p.nodes) >= lim.nodes \/ p.history >= lim.history
  \/ p.bytes + 1 > lim.bytes \/ Len(p.work) > lim.pending

StopPage(p, why) == [p EXCEPT !.stop = why]

Follow(p, s, target) ==
  LET q == [p EXCEPT !.visited = @ + 1,
                     !.history = IF target.frame < s.frame THEN @ + 1 ELSE @]
  IN  IF target \in p.flight THEN StopPage(q, "error")
      ELSE [q EXCEPT !.work = Append(@, target)]

Park(p, s, e) ==
  LET flight == p.flight \union {s}
      q == [p EXCEPT !.visited = @ + 1, !.flight = flight,
                     !.bytes = @ + 1, !.parked = Append(@, NodeOf(s, e))]
  IN  IF \E k \in DOMAIN e.children : e.children[k] \in flight
      THEN StopPage(q, "error")
      ELSE [q EXCEPT !.work = @ \o Reverse(e.children)]

Visit(d, r, p) ==
  LET s == Last(p.work)
      q == [p EXCEPT !.work = Front(@)]
      e == Expand(d, r, s)
  IN  CASE e.kind = "error" -> StopPage(q, "error")
        [] e.kind = "alias" -> Follow(q, s, e.children[1])
        [] e.kind = "node" /\ e.children = <<>> ->
             EmitNode([q EXCEPT !.visited = @ + 1], NodeOf(s, e))
        [] e.kind = "node" /\ e.children # <<>> -> Park(q, s, e)

(* One turn of the loop; the question after a frame is analysed counts as  *)
(* the next one, and is answered by an error.                              *)
Turn(d, r, lim, p) ==
  LET asks == [p EXCEPT !.polls = @ + 1]
      s == Last(p.work)
      analyses == s.stage = "frameOutput" /\ InsideRect(d, r, s.frame)
  IN  CASE p.stop # "none" -> p
        [] p.stop = "none" /\ asks.polls = r.cancel_at ->
             StopPage(asks, "cancelled")
        [] OTHER ->
             IF p.work = <<>>
             THEN StopPage(asks, IF p.parked = <<>> THEN "ready" ELSE "error")
             ELSE IF OverPage(lim, p) THEN Cut(asks)
             ELSE IF analyses /\ asks.polls + 1 = r.cancel_at
             THEN StopPage(asks, "error")
             ELSE Visit(d, r, [asks EXCEPT !.polls =
                                 IF analyses THEN @ + 1 ELSE @])

(* Every state leads to at most one expansion of each state before it.     *)
Turns(d, work) == Len(work) * (4 * Len(d.frames) + 1) + 1

RunPage(d, r, lim, work) ==
  LET turn[k \in 0..Turns(d, work)] ==
        IF k = 0 THEN PageOf(work) ELSE Turn(d, r, lim, turn[k - 1])
  IN  turn[Turns(d, work)]

CursorFits(d, r, lim, pending) ==
  /\ pending # <<>> /\ Len(pending) <= lim.pending
  /\ \A k \in DOMAIN pending :
       /\ pending[k].stage \in CanvasStages
       /\ pending[k].frame < Len(d.frames) /\ pending[k].frame <= r.frame

(* query_canvas_pixel(); a cursor is [of, pending], made for a request.    *)
QueryCanvas(d, r, lim) ==
  LET asked == [frame |-> r.frame, stage |-> r.stage, x |-> r.x, y |-> r.y]
      refused == StopPage(PageOf(<<>>), "error")
  IN  IF r.cancel_at = 1 THEN StopPage(PageOf(<<>>), "cancelled")
      ELSE IF \/ r.frame = -1 \/ r.stage \notin CanvasStages
              \/ r.x >= d.canvas[1] \/ r.y >= d.canvas[2]
              \/ r.frame >= Len(d.frames)
      THEN refused
      ELSE IF r.cursor = <<>>
      THEN RunPage(d, r, lim, <<State(r.frame, r.stage)>>)
      ELSE IF \/ r.cursor[1].of # asked
              \/ ~CursorFits(d, r, lim, r.cursor[1].pending)
      THEN refused
      ELSE RunPage(d, r, lim, Reverse(r.cursor[1].pending))

-----------------------------------------------------------------------------
(* The value of the pixel when the frames are composed one after another.  *)
Composed(d, r, stage, n) ==
  LET blended(f, k, below) ==
        CASE ~InsideRect(d, r, k) -> below
          [] InsideRect(d, r, k) /\ f.blend = "source" -> <<"pixel", k>>
          [] InsideRect(d, r, k) /\ f.blend = "over" ->
               <<"over", <<"pixel", k>>, below>>
      left(f, k, below) ==
        CASE ~InsideRect(d, r, k) \/ f.dispose = "previous" -> below
          [] InsideRect(d, r, k) /\ f.dispose = "background" -> Transparent
          [] InsideRect(d, r, k) /\ f.dispose = "none" -> blended(f, k, below)
      canvas[k \in 0..n] ==
        IF k = 0 THEN Transparent
        ELSE left(FrameAt(d, k - 1), k - 1, canvas[k - 1])
  IN  CASE stage = "preBlend" -> canvas[n]
        [] stage = "postBlend" -> blended(FrameAt(d, n), n, canvas[n])
        [] stage = "postDispose" -> left(FrameAt(d, n), n, canvas[n])
        [] stage = "frameOutput" ->
             IF InsideRect(d, r, n) THEN <<"pixel", n>> ELSE Transparent

(* The values of a page once those of its cut leaves are known.            *)
ValuesOf(d, r, p) ==
  LET cut(n) == /\ n.inputs = <<>>
                /\ \E k \in DOMAIN p.next : p.next[k] = State(n.frame, n.stage)
      value[k \in DOMAIN p.nodes] ==
        LET n == p.nodes[k]
        IN  IF cut(n) THEN Composed(d, r, n.stage, n.frame)
            ELSE IF n.inputs = <<>> THEN n.value
            ELSE ValueFrom(n.op, [j \in DOMAIN n.inputs |->
                                    value[n.inputs[j] + 1]])
  IN  value

Roots(p) ==
  SelectSeq([k \in DOMAIN p.nodes |-> k],
            LAMBDA k : \A j \in DOMAIN p.nodes :
                         \A i \in DOMAIN p.nodes[j].inputs :
                           p.nodes[j].inputs[i] # k - 1)

(* Every node is after its inputs and has the value that the composition   *)
(* gives to its state, the roots those of the states that were asked for;  *)
(* the page has gone on, without a cut its own values are these, and with  *)
(* one the cursor has the leaves that were cut off, in their order.        *)
PageExact(d, r, work, p) ==
  LET values == ValuesOf(d, r, p)
      roots == Roots(p)
  IN  /\ \A k \in DOMAIN p.nodes :
           /\ \A j \in DOMAIN p.nodes[k].inputs : p.nodes[k].inputs[j] < k - 1
           /\ values[k] = Composed(d, r, p.nodes[k].stage, p.nodes[k].frame)
           /\ p.stop = "ready" => p.nodes[k].value = values[k]
      /\ Len(roots) = Len(work)
      /\ \A k \in DOMAIN work :
           values[roots[k]] = Composed(d, r, work[k].stage, work[k].frame)
      /\ p.stop = "partial" =>
           LET cut == SelectSeq(p.nodes, LAMBDA n : n.inputs = <<>>)
               from == Len(cut) - Len(p.next)
           IN  /\ p.visited > 0 /\ p.next # work
               /\ \A k \in DOMAIN p.next :
                    p.next[k] = State(cut[from + k].frame, cut[from + k].stage)

(* A query ends after so many pages with every page exact; it fails only   *)
(* where a frame is not there to be analysed, and stops when it is asked   *)
(* to.                                                                     *)
CanvasExact(d, r, lim) ==
  LET asked == [frame |-> r.frame, stage |-> r.stage, x |-> r.x, y |-> r.y]
      again(p) == [r EXCEPT !.cursor = <<[of |-> asked,
                                          pending |-> p.next]>>]
      more(ps, k) == IF Last(ps).stop # "partial" THEN ps
                     ELSE Append(ps, QueryCanvas(d, again(Last(ps)), lim))
      pages == FoldLeft(more, <<QueryCanvas(d, r, lim)>>,
                        [k \in 1..4 * Len(d.frames) + 4 |-> k])
      last == Last(pages)
      asks(k) == IF k = 1 THEN <<State(r.frame, r.stage)>>
                 ELSE pages[k - 1].next
  IN  /\ last.stop # "partial"
      /\ \A k \in DOMAIN pages :
           pages[k].stop \in {"partial", "ready"} =>
             PageExact(d, r, asks(k), pages[k])
      /\ last.stop = "error" /\ r.cancel_at = 0 =>
           \/ \E f \in Range(d.frames) : ~f.ok
           \/ r.frame \notin 0..Len(d.frames) - 1
      /\ r.cancel_at = 1 => last.stop = "cancelled"
=============================================================================
