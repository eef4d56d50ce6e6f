----------------------------- MODULE Occurrences ----------------------------
(***************************************************************************)
(* Where in the file a bucket of the statistics occurs                     *)
(* (statistics_occurrence_query.cpp).                                      *)
(*                                                                         *)
(* A block is of a type, with the bits of a dynamic block's header and its *)
(* tokens [kind, bits, out, length, distance].  A stream w is where its    *)
(* blocks and tokens are, and the spans of the file.  An index has the     *)
(* first of the blocks, and says whether these are all.  A question q is   *)
(* [domain, key, value, direction, after]: value is a key that is a        *)
(* number, and after is <<>> or an offset.                                 *)
(***************************************************************************)
EXTENDS PngFormat

WrapperBits == 16
TrailerBytes == 4

AlignedBit(bit) == ((bit + 7) \div 8) * 8

SumOf(tokens, field) ==
  FoldLeft(LAMBDA sum, t : sum + t[field], 0, tokens)

BitsOfTokens(tokens) == SumOf(tokens, "bits")
BytesOfTokens(tokens) == SumOf(tokens, "out")

(* The bits of a block before its first token, when it begins at a bit of  *)
(* the stream.                                                             *)
BlockHeaderBits(b, begin) ==
  CASE b.type = "fixed" -> 3
    [] b.type = "stored" -> AlignedBit(begin + 3) - begin + 32
    [] b.type = "dynamic" -> b.header

(* The blocks with the ends of their bits and their output.                *)
Positioned(blocks) ==
  LET place(t, b) ==
        LET tokens == t.bit + BlockHeaderBits(b, t.bit)
            end == tokens + BitsOfTokens(b.tokens)
            out == t.out + BytesOfTokens(b.tokens)
        IN  [bit |-> end, out |-> out,
             blocks |-> Append(t.blocks,
               [type |-> b.type, in_begin |-> t.bit, in_end |-> end,
                first |-> tokens, out_begin |-> t.out, out_end |-> out])]
  IN  FoldLeft(place, [bit |-> WrapperBits, out |-> 0, blocks |-> <<>>],
               blocks)

StreamBytes(blocks) ==
  AlignedBit(Positioned(blocks).bit) \div 8 + TrailerBytes

IndexFor(w, n) == [blocks |-> SubSeq(w.at, 1, n), success |-> n = Len(w.at)]

(* Every token with where it begins; block and begin are not told to an    *)
(* observer.                                                               *)
FactsOf(blocks) ==
  LET at == Positioned(blocks).blocks
      fact(b, j) ==
        LET before == SubSeq(blocks[b].tokens, 1, j - 1)
        IN  [t |-> blocks[b].tokens[j], block |-> b,
             begin |-> at[b].first + BitsOfTokens(before),
             out_begin |-> at[b].out_begin + BytesOfTokens(before)]
  IN  FlattenSeq([b \in DOMAIN blocks |->
        [j \in DOMAIN blocks[b].tokens |-> fact(b, j)]])

Stream(blocks, spans) ==
  [at |-> Positioned(blocks).blocks, facts |-> FactsOf(blocks),
   spans |-> spans]

-----------------------------------------------------------------------------
Unfound(status) == [status |-> status, ranges |-> <<>>, logical |-> <<>>,
                    image |-> <<>>]

FoundAt(ranges, logical) ==
  [status |-> "ready", ranges |-> ranges, logical |-> logical, image |-> <<>>]

(* map_logical_bits(): the bytes that hold the bits.                       *)
MapBits(w, begin, end) ==
  LET first == begin \div 8
      length == AlignedBit(end) \div 8 - first
      mapped == LogicalToPhysical(w.spans, first, length)
  IN  IF end < begin THEN Unfound("error")
      ELSE IF length = 0 THEN FoundAt(<<>>, <<>>)
      ELSE IF ~mapped.ok THEN Unfound("error")
      ELSE FoundAt(mapped.ranges, <<first, length>>)

EnvelopeOf(w, b) == MapBits(w, b.in_begin, b.in_end)

FirstOne(list) == IF list = <<>> THEN <<>> ELSE <<list[1]>>
LastOne(list) == IF list = <<>> THEN <<>> ELSE <<list[Len(list)]>>

(* Wrong: the occurrence at the cursor is taken again.                     *)
ResolvedAgain(q, list) ==
  LET next == SelectSeq(list, LAMBDA o : o.cursor >= q.after[1])
      previous == SelectSeq(list, LAMBDA o : o.cursor < q.after[1])
  IN  CASE q.direction = "first" -> FirstOne(list)
        [] q.direction # "first" /\ q.after = <<>> -> <<>>
        [] q.direction = "next" /\ q.after # <<>> -> FirstOne(next)
        [] q.direction = "previous" /\ q.after # <<>> -> LastOne(previous)

(* resolve_direct(): <<>> or the occurrence.                               *)
Resolved(q, list) ==
  LET next == SelectSeq(list, LAMBDA o : o.cursor > q.after[1])
      previous == SelectSeq(list, LAMBDA o : o.cursor < q.after[1])
  IN  CASE q.direction = "first" -> FirstOne(list)
        [] q.direction # "first" /\ q.after = <<>> -> <<>>
        [] q.direction = "next" /\ q.after # <<>> -> FirstOne(next)
        [] q.direction = "previous" /\ q.after # <<>> -> LastOne(previous)

(* The hits among the positions of a sequence, in order, each with the     *)
(* field that is its cursor.                                               *)
Candidates(list, hits, field) ==
  LET ks == SelectSeq([k \in DOMAIN list |-> k], LAMBDA k : k \in hits)
  IN  [j \in DOMAIN ks |-> [cursor |-> list[ks[j]][field], k |-> ks[j]]]

ChunkRanges(data, length) ==
  <<[offset |-> data - HeaderSize, length |-> HeaderSize],
    [offset |-> data, length |-> length],
    [offset |-> data + length, length |-> CrcSize]>>

ChunkOccurrence(nodes, q) ==
  LET hits == {k \in DOMAIN nodes : nodes[k].type = q.key}
      hit == Resolved(q, Candidates(nodes, hits, "header"))
  IN  IF hit = <<>> THEN Unfound("not_found")
      ELSE FoundAt(ChunkRanges(nodes[hit[1].k].header + HeaderSize,
                               nodes[hit[1].k].length), <<>>)

BlockOccurrence(w, index, q) ==
  LET hits == {k \in DOMAIN index.blocks : index.blocks[k].type = q.key}
      hit == Resolved(q, Candidates(index.blocks, hits, "out_begin"))
      block == index.blocks[hit[1].k]
  IN  IF q.key \notin {"stored", "fixed", "dynamic"} THEN Unfound("error")
      ELSE IF hit = <<>>
      THEN Unfound(IF index.success THEN "not_found" ELSE "partial")
      ELSE IF ~index.success /\ q.direction = "previous"
                /\ q.after[1] > block.out_end
      THEN Unfound("partial")
      ELSE EnvelopeOf(w, block)

(* block_for_output()                                                      *)
BlockHolding(index, offset) ==
  {k \in DOMAIN index.blocks :
     offset \in index.blocks[k].out_begin .. index.blocks[k].out_end - 1}

(* Lines are [offset, filter, usable]; the answer is the block that holds  *)
(* the byte of the filter.                                                 *)
FilterOccurrence(w, index, lines, q) ==
  LET hits == {k \in DOMAIN lines : /\ lines[k].usable
                                    /\ lines[k].filter = q.value}
      hit == Resolved(q, Candidates(lines, hits, "offset"))
      block == BlockHolding(index, lines[hit[1].k].offset)
  IN  IF q.value \notin 0..4 \/ index.blocks = <<>> THEN Unfound("error")
      ELSE IF hit = <<>> THEN Unfound("not_found")
      ELSE IF block = {}
      THEN Unfound(IF index.success THEN "error" ELSE "partial")
      ELSE [EnvelopeOf(w, index.blocks[CHOOSE k \in block : TRUE])
              EXCEPT !.image = <<hit[1].k - 1>>]

-----------------------------------------------------------------------------
(* The observer of a token scan: the block it takes itself to be in, the   *)
(* bits of its tokens so far, where its first token is when that is known, *)
(* and the best match.                                                     *)
AnchorOf(block) ==
  LET begin == block.in_begin - WrapperBits
  IN  CASE block.in_begin < WrapperBits \/ block.type = "dynamic" -> <<>>
        [] block.in_begin >= WrapperBits /\ block.type = "fixed" ->
             <<begin + 3>>
        [] block.in_begin >= WrapperBits /\ block.type = "stored" ->
             <<AlignedBit(begin + 3) + 32>>

InBlock(index, o, k) ==
  [o EXCEPT !.block = k, !.width = 0, !.anchor = AnchorOf(index.blocks[k])]

ObserverFor(index) ==
  [block |-> 1, width |-> 0, anchor |-> AnchorOf(index.blocks[1]),
   best |-> <<>>, exhausted |-> FALSE, stopped |-> FALSE]

Matches(q, t) ==
  CASE q.domain = "token" -> t.kind = q.key
    [] q.domain = "length" -> t.kind = "match" /\ t.length = q.value
    [] q.domain = "distance" -> t.kind = "match" /\ t.distance = q.value

Records(q, o, out_begin) ==
  CASE q.direction = "first" -> o.best = <<>>
    [] q.direction = "next" ->
         o.best = <<>> /\ q.after # <<>> /\ out_begin > q.after[1]
    [] q.direction = "previous" -> q.after # <<>> /\ out_begin < q.after[1]

(* The blocks tile the output; one without output ends with its own        *)
(* end-of-block.                                                           *)
Advanced(index, o, f) ==
  LET n == Len(index.blocks)
      from == {k \in o.block .. n :
                 k = n \/ f.out_begin < index.blocks[k].out_end}
      k == CHOOSE j \in from : \A i \in from : j <= i
  IN  IF f.t.kind = "eob" \/ k = o.block THEN o ELSE InBlock(index, o, k)

Recorded(q, o, f) ==
  LET exact == o.anchor # <<>> /\ f.t.kind # "eob"
      begin == o.anchor[1] + o.width
  IN  IF ~(Matches(q, f.t) /\ Records(q, o, f.out_begin)) THEN o
      ELSE [o EXCEPT !.best =
              <<[block |-> o.block, before |-> o.width, bits |-> f.t.bits,
                 at |-> IF exact THEN <<begin, begin + f.t.bits>> ELSE <<>>]>>]

(* The end of a block tells how wide its header was.                       *)
Anchored(index, o, total) ==
  LET block == index.blocks[o.block]
      width == block.in_end - block.in_begin
      anchor == block.in_begin - WrapperBits + width - total
      best == o.best[1]
      begin == anchor + best.before
  IN  IF block.in_begin < WrapperBits \/ width < total THEN o
      ELSE IF o.best # <<>> /\ best.at = <<>> /\ best.block = o.block
      THEN [o EXCEPT !.anchor = <<anchor>>,
                     !.best = <<[best EXCEPT !.at =
                                   <<begin, begin + best.bits>>]>>]
      ELSE [o EXCEPT !.anchor = <<anchor>>]

(* Wrong: the end of a block is counted to the block, and the next one is  *)
(* only met by its output.                                                 *)
AfterEobStays(index, o, f) ==
  LET total == o.width + f.t.bits
  IN  IF f.t.kind # "eob" THEN [o EXCEPT !.width = total]
      ELSE [Anchored(index, o, total) EXCEPT !.width = total]

AfterFact(index, o, f) ==
  LET total == o.width + f.t.bits
      fixed == Anchored(index, o, total)
  IN  IF f.t.kind # "eob" THEN [o EXCEPT !.width = total]
      ELSE IF o.block < Len(index.blocks)
      THEN InBlock(index, fixed, o.block + 1)
      ELSE [fixed EXCEPT !.width = total, !.exhausted = ~index.success,
                         !.stopped = ~index.success]

Observe(index, q, o, f) ==
  LET after == AfterFact(index, Recorded(q, Advanced(index, o, f), f), f)
      found == after.best # <<>> /\ after.best[1].at # <<>>
  IN  IF o.stopped THEN o
      ELSE [after EXCEPT !.stopped = @ \/ (q.direction # "previous" /\ found)]

(* A scan that ends by itself after so many tokens, as stop says.          *)
ScanFor(w, index, q, stop) ==
  LET facts == SubSeq(w.facts, 1, stop.tokens)
      seen[k \in 0..Len(facts)] ==
        IF k = 0 THEN [o |-> ObserverFor(index), out |-> 0]
        ELSE LET s == seen[k - 1]
                 o == Observe(index, q, s.o, facts[k])
             IN  IF s.o.stopped THEN s
                 ELSE [o |-> o,
                       out |-> IF o.stopped THEN s.out
                               ELSE s.out + facts[k].t.out]
      s == seen[Len(facts)]
  IN  [o |-> s.o, out |-> s.out,
       status |-> IF s.o.stopped THEN "partial" ELSE stop.status]

(* A boundary without bits is anchored at the byte after it, or at the end *)
(* of the last span.                                                       *)
BoundaryAt(w, bit) ==
  LET p == bit \div 8
      byte == LogicalToPhysical(w.spans, p, 1)
      end == FrameRanges(NonEmpty(w.spans), p, 0)
  IN  IF bit % 8 # 0 \/ p > TotalOf(w.spans) THEN Unfound("error")
      ELSE IF p < TotalOf(w.spans)
      THEN FoundAt(<<[byte.ranges[1] EXCEPT !.length = 0]>>, <<p, 0>>)
      ELSE IF end.ranges = <<>> THEN Unfound("error")
      ELSE FoundAt(end.ranges, <<p, 0>>)

PlaceOf(w, index, best) ==
  LET begin == WrapperBits + best.at[1]
      end == WrapperBits + best.at[2]
  IN  IF best.at = <<>> THEN EnvelopeOf(w, index.blocks[best.block])
      ELSE IF begin = end THEN BoundaryAt(w, begin)
      ELSE MapBits(w, begin, end)

(* Wrong: a match before a cursor that the index does not reach is nearest.*)
BeyondIndexNever(index, q) == FALSE

BeyondIndex(index, q) ==
  ~index.success /\ q.direction = "previous" /\ q.after # <<>>
  /\ q.after[1] > index.blocks[Len(index.blocks)].out_end

TokenOccurrence(w, index, q, stop) ==
  LET scan == ScanFor(w, index, q, stop)
      found == scan.o.best # <<>>
      back == q.direction = "previous" /\ q.after # <<>>
  IN  IF index.blocks = <<>> THEN Unfound("error")
      ELSE IF scan.status = "cancelled" THEN Unfound("cancelled")
      ELSE IF ~index.success /\ ~found
      THEN Unfound(IF back /\ q.after[1] <= scan.out THEN "not_found"
                   ELSE "partial")
      ELSE IF found /\ back /\ scan.status = "budget"
                /\ scan.out < q.after[1]
      THEN Unfound("partial")
      ELSE IF found /\ BeyondIndex(index, q) THEN Unfound("partial")
      ELSE IF found THEN PlaceOf(w, index, scan.o.best[1])
      ELSE CASE scan.status \in {"ready", "partial"} -> Unfound("not_found")
             [] scan.status = "budget" -> Unfound("partial")
             [] scan.status \in {"invalid", "error"} -> Unfound("error")

-----------------------------------------------------------------------------
(* The chunks of a frame: the spans of its stream, each with the type that *)
(* stands before it, and the fcTL where the first fdAT leaves it.          *)
FctlSize == 38

DerivedFctl(spans) ==
  LET fdats == SelectSeq(spans, LAMBDA s : s.type = "fdAT")
  IN  IF fdats = <<>> THEN <<>> ELSE <<fdats[1].offset - 12 - FctlSize>>

FrameChunkOccurrence(spans, fctl, q) ==
  LET derived == DerivedFctl(spans)
      present == derived # <<>> /\ derived[1] = fctl
      own == Candidates(spans, {k \in DOMAIN spans : spans[k].type = q.key},
                        "offset")
      hit == Resolved(q, IF q.key = "fcTL" /\ present
                         THEN <<[cursor |-> derived[1] + HeaderSize, k |-> 1]>>
                         ELSE own)
  IN  IF hit = <<>>
      THEN Unfound(IF q.key = "fcTL" /\ present THEN "partial"
                   ELSE "not_found")
      ELSE IF q.key = "fcTL"
      THEN FoundAt(ChunkRanges(hit[1].cursor, FctlSize - 12), <<>>)
      ELSE FoundAt(ChunkRanges(spans[hit[1].k].offset,
                               spans[hit[1].k].length), <<>>)

(* attach_frame_identity(): rows are those of the canvas.                  *)
OnCanvas(r, y) ==
  [r EXCEPT !.image = IF @ = <<>> THEN <<y>> ELSE <<@[1] + y>>]

Occurrence(s, q, stop) ==
  LET index == IndexFor(s.w, s.indexed)
      frame == s.frame
      r == CASE q.domain = "chunk" ->
                  IF frame THEN FrameChunkOccurrence(s.w.spans, s.fctl, q)
                  ELSE ChunkOccurrence(s.nodes, q)
             [] q.domain = "block" -> BlockOccurrence(s.w, index, q)
             [] q.domain = "filter" ->
                  IF ~s.stages THEN Unfound("error")
                  ELSE FilterOccurrence(s.w, index, s.lines, q)
             [] OTHER -> TokenOccurrence(s.w, index, q, stop)
  IN  IF stop.status = "cancelled" THEN Unfound("cancelled")
      ELSE IF frame /\ q.domain # "chunk" THEN OnCanvas(r, s.y) ELSE r

-----------------------------------------------------------------------------
(* Every occurrence there is among the tokens given, in the order of the   *)
(* stream.  The bytes of a token are its own; of a dynamic block that the  *)
(* scan did not end, those of the block.  What is told of an fdAT is not   *)
(* its header but the eight bytes before its data, its type and its        *)
(* sequence number: "the fdAT chunk envelope (length + type) sits at -12"  *)
(* (statistics_occurrence_query.cpp:909-910, 948-951).                     *)
AllOccurrences(s, q, stop, facts) ==
  LET of(list, test(_), field, ranges(_)) ==
        LET hits == Candidates(list, {k \in DOMAIN list : test(list[k])},
                               field)
        IN  [k \in DOMAIN hits |-> [cursor |-> hits[k].cursor,
                                   ranges |-> ranges(list[hits[k].k])]]
      blocks == s.w.at
      bytes(begin, end) ==
        {MapBits(s.w, begin, end).ranges}
      token(f) ==
        IF f.t.bits = 0 THEN {BoundaryAt(s.w, f.begin).ranges}
        ELSE bytes(f.begin, f.begin + f.t.bits)
      unended(k) == /\ blocks[k].type = "dynamic"
                    /\ \E j \in stop.tokens + 1 .. Len(s.w.facts) :
                         s.w.facts[j].block = k
      holding(o) == CHOOSE k \in DOMAIN blocks :
                      o \in blocks[k].out_begin .. blocks[k].out_end - 1
  IN  CASE q.domain = "chunk" /\ ~s.frame ->
             of(s.nodes, LAMBDA n : n.type = q.key, "header",
                LAMBDA n : {ChunkRanges(n.header + HeaderSize, n.length)})
        [] q.domain = "chunk" /\ s.frame /\ q.key = "fcTL" ->
             <<[cursor |-> s.fctl + HeaderSize,
                ranges |-> {ChunkRanges(s.fctl + HeaderSize,
                                        FctlSize - 12)}]>>
        [] q.domain = "chunk" /\ s.frame /\ q.key # "fcTL" ->
             of(s.w.spans, LAMBDA n : n.type = q.key, "offset",
                LAMBDA n : {ChunkRanges(n.offset, n.length)})
        [] q.domain = "block" ->
             of(blocks, LAMBDA b : b.type = q.key, "out_begin",
                LAMBDA b : bytes(b.in_begin, b.in_end))
        [] q.domain = "filter" ->
             of(s.lines, LAMBDA n : n.usable /\ n.filter = q.value,
                "offset",
                LAMBDA n : bytes(blocks[holding(n.offset)].in_begin,
                                 blocks[holding(n.offset)].in_end))
        [] OTHER ->
             of(facts, LAMBDA f : Matches(q, f.t), "out_begin",
                LAMBDA f : token(f)
                           \union (IF ~unended(f.block) THEN {}
                                   ELSE bytes(blocks[f.block].in_begin,
                                              blocks[f.block].in_end)))

(* The nearest on the asked side of the cursor; of two at one offset the   *)
(* one that is met first.                                                  *)
NearestOccurrence(q, all) ==
  LET beyond == {k \in DOMAIN all :
                   CASE q.direction = "first" -> TRUE
                     [] q.direction = "next" ->
                          q.after # <<>> /\ all[k].cursor > q.after[1]
                     [] q.direction = "previous" ->
                          q.after # <<>> /\ all[k].cursor < q.after[1]}
      near == {k \in beyond : \A j \in beyond :
                 IF q.direction = "previous"
                 THEN all[j].cursor < all[k].cursor
                      \/ (all[j].cursor = all[k].cursor /\ j <= k)
                 ELSE all[j].cursor > all[k].cursor
                      \/ (all[j].cursor = all[k].cursor /\ j >= k)}
  IN  IF near = {} THEN <<>> ELSE <<all[CHOOSE k \in near : TRUE]>>

(* "The last match inside the searched prefix is not necessarily the       *)
(* nearest one before the cursor, so the honest answer is the              *)
(* searched-range partial" (statistics_occurrence_query.cpp:692-694; lines *)
(* 258-259 say the same of blocks).  The code says partial of a scan that  *)
(* came to its budget; of one that failed it gives the last match it read. *)
ReadOf(s, q, stop) ==
  IF q.direction = "previous" /\ stop.status \in {"invalid", "error"}
  THEN SubSeq(s.w.facts, 1, stop.tokens) ELSE s.w.facts

(* An answer that is ready is the nearest occurrence, but for the previous *)
(* one of a scan that failed (ReadOf), and the bytes of the file are its   *)
(* own (AllOccurrences); one that says there is none is right about the    *)
(* whole stream; and one of the two is given when the index and the scan   *)
(* are whole.  The fcTL of a frame is an exception: "the owning fcTL has   *)
(* no indexed file position, so that key honestly reports a partial        *)
(* answer" (lines 837-838), but the code finds that of a frame of fdATs,   *)
(* with partial only beyond it, and says of one of IDATs, always, that     *)
(* there is none.                                                          *)
OccurrenceExact(s, q, stop) ==
  LET r == Occurrence(s, q, stop)
      near(facts) == NearestOccurrence(q, AllOccurrences(s, q, stop, facts))
      fctl == s.frame /\ q.domain = "chunk" /\ q.key = "fcTL"
      whole == /\ s.indexed = Len(s.w.at) /\ s.stages
               /\ stop.status = "ready"
               /\ (q.domain = "filter" => q.value \in 0..4)
  IN  /\ r.status = "ready" =>
           /\ near(ReadOf(s, q, stop)) # <<>>
           /\ r.ranges \in near(ReadOf(s, q, stop))[1].ranges
           /\ s.frame /\ q.domain # "chunk" => r.image # <<>>
      /\ r.status = "not_found" /\ ~fctl => near(s.w.facts) = <<>>
      /\ whole /\ ~fctl => r.status \in {"ready", "not_found"}
      /\ fctl /\ stop.status # "cancelled" =>
           r.status = IF \A k \in DOMAIN s.w.spans :
                            s.w.spans[k].type = "IDAT" THEN "not_found"
                      ELSE IF near(s.w.facts) = <<>> THEN "partial"
                      ELSE "ready"
=============================================================================
