---------------------------- MODULE DeflateIndex ---------------------------
(***************************************************************************)
(* The indexes built over a zlib stream: the blocks of scan_blocks(), the  *)
(* restart points of build_access_index() and the snapshots of             *)
(* build_session_index(), with the extractions that resume from them.      *)
(* Zlib itself is external: a stream is its segments (header, blocks and   *)
(* Adler-32 trailer), a segment its bits and the bytes it decodes to, which*)
(* it yields evenly.  A byte of output is its offset.                      *)
(***************************************************************************)
EXTENDS HuffmanCode

CONSTANTS
  InputChunk,       (* kInputChunk, bytes read at a time                   *)
  ScratchSize,      (* kScratchSize, bytes one inflate() yields at most    *)
  WindowSize,       (* kWindowSize                                         *)
  InitialCapacity,  (* kInitialBlockCapacity                               *)
  SnapshotBytes     (* kPerSnapshotBytes                                   *)

(***************************************************************************)
(* A stream s: header is "ok", "dict" or "bad"; a block has bits, bytes,   *)
(* last, and the bit at which it is corrupt (fault, 0 for none); adler_ok; *)
(* and size, the bytes of it that there are.                               *)
(***************************************************************************)
RoundUp(bits) == (bits + ByteBits - 1) \div ByteBits

HeaderBits == 2 * ByteBits

BlockBits(s, k) == SumTo(LAMBDA j : s.blocks[j].bits, k)
BlockBytes(s, k) == SumTo(LAMBDA j : s.blocks[j].bytes, k)

(* Segment 0 is the header, the one after the last block the trailer.      *)
SegmentEnd(s, k) ==
  IF k <= Len(s.blocks) THEN HeaderBits + BlockBits(s, k)
  ELSE (RoundUp(HeaderBits + BlockBits(s, Len(s.blocks))) + 4) * ByteBits

SegmentBegin(s, k) == IF k = 0 THEN 0 ELSE SegmentEnd(s, k - 1)

IsBlock(s, k) == k \in DOMAIN s.blocks

Faulty(s, z, to) ==
  IsBlock(s, z.segment) /\ s.blocks[z.segment].fault # 0
    /\ SegmentBegin(s, z.segment) + s.blocks[z.segment].fault <= to

(* The output there is once the bits up to "to" of the segment are read,   *)
(* and the bits it takes for so much output.                               *)
OutputAt(s, k, to) ==
  IF ~IsBlock(s, k) THEN BlockBytes(s, Len(s.blocks))
  ELSE BlockBytes(s, k - 1)
         + ((to - SegmentBegin(s, k)) * s.blocks[k].bytes)
             \div s.blocks[k].bits

BitAt(s, k, output) ==
  SegmentBegin(s, k)
    + ((output - BlockBytes(s, k - 1)) * s.blocks[k].bits
         + s.blocks[k].bytes - 1) \div s.blocks[k].bytes

FirstInflate == [bit |-> 0, segment |-> 0, output |-> 0, ret |-> "ok",
                 boundary |-> FALSE]

(* One inflate(), with Z_BLOCK if byBlock: it stops where the input or the *)
(* scratch buffer ends, and, by block, after the header and each block.    *)
Segment(s, fed, z) ==
  LET to == Least(SegmentEnd(s, z.segment), fed * ByteBits)
      output == IF z.segment = 0 THEN 0 ELSE OutputAt(s, z.segment, to)
      full == output > z.output + ScratchSize
      ended == to = SegmentEnd(s, z.segment) /\ ~full
      after == [z EXCEPT
                  !.output = IF full THEN @ + ScratchSize ELSE output,
                  !.bit = IF full THEN BitAt(s, z.segment, z.output
                                                             + ScratchSize)
                          ELSE to,
                  !.boundary = ended /\ z.segment <= Len(s.blocks),
                  !.segment = IF ended THEN @ + 1 ELSE @]
  IN  IF Faulty(s, z, to) THEN [z EXCEPT !.ret = "data", !.boundary = FALSE]
      ELSE IF ~ended THEN after
      ELSE IF z.segment = 0 /\ s.header # "ok"
      THEN [after EXCEPT !.boundary = FALSE, !.ret = s.header]
      ELSE IF z.segment <= Len(s.blocks) THEN after
      ELSE [after EXCEPT !.ret = IF s.adler_ok THEN "end" ELSE "data"]

Consumed(z) == RoundUp(z.bit)

-----------------------------------------------------------------------------
(***************************************************************************)
(* scan_blocks(): o holds the limits, 0 for none, the call of cancelled()  *)
(* that answers TRUE and the read that fails.                              *)
(***************************************************************************)
FirstScan ==
  [z |-> FirstInflate, fed |-> 0, polls |-> 0, reads |-> 0,
   saw_first |-> FALSE, header_bits |-> 0, prev_bit |-> 0, prev_output |-> 0,
   blocks |-> <<>>, capacity |-> 0, complete |-> FALSE, total |-> 0,
   adler |-> "absent", done |-> FALSE, stop |-> "invalid", stop_bit |-> 0,
   stop_output |-> 0]

(* assign_stop(): where the latest verified block ends.                    *)
StopAt(b, why) ==
  [b EXCEPT !.done = TRUE, !.stop = why, !.stop_bit = b.prev_bit,
            !.stop_output = b.prev_output]

CancelledScan(o, b) == o.cancel_at # 0 /\ b.polls + 1 >= o.cancel_at
PolledScan(b) == [b EXCEPT !.polls = @ + 1]

InputLimit(s, o) ==
  IF o.max_input = 0 THEN s.size ELSE Least(s.size, o.max_input)

(* refill(): the read is cut to the budget before it is made.              *)
RefillScan(s, o, b) ==
  LET want == Least(InputLimit(s, o) - b.fed, InputChunk)
  IN  IF Consumed(b.z) < b.fed THEN b
      ELSE IF CancelledScan(o, b) THEN StopAt(PolledScan(b), "cancelled")
      ELSE IF b.fed = s.size THEN StopAt(PolledScan(b), "invalid")
      ELSE IF want = 0 THEN StopAt(PolledScan(b), "budget")
      ELSE IF b.reads + 1 = o.fail_at
      THEN StopAt(PolledScan(b), "invalid")
      ELSE [PolledScan(b) EXCEPT !.fed = @ + want, !.reads = @ + 1]

(* Wrong: only the new buffer is held against the budget.                  *)
GrownAlone(capacity) ==
  [to |-> IF capacity = 0 THEN InitialCapacity ELSE capacity * 2,
   peak |-> IF capacity = 0 THEN InitialCapacity ELSE capacity * 2]

(* The growth of the vector, both buffers being alive while it moves.      *)
Grown(capacity) ==
  LET to == IF capacity = 0 THEN InitialCapacity ELSE capacity * 2
  IN  [to |-> to, peak |-> capacity + to]

(* append_block()                                                          *)
AppendBlock(o, b, block) ==
  LET grown == Grown(b.capacity)
      grows == Len(b.blocks) = b.capacity
  IN  IF o.max_blocks # 0 /\ Len(b.blocks) >= o.max_blocks
      THEN StopAt(b, "budget")
      ELSE IF grows /\ o.max_retained # 0 /\ grown.peak > o.max_retained
      THEN StopAt(b, "budget")
      ELSE [b EXCEPT !.blocks = Append(@, block),
                     !.capacity = IF grows THEN grown.to ELSE @]

(* What a return of inflate() at a boundary does: the first is the header. *)
AtBoundary(s, o, b) ==
  LET block == [begin |-> b.prev_bit, end |-> b.z.bit,
                from |-> b.prev_output, to |-> b.z.output,
                type |-> s.blocks[b.z.segment - 1].type,
                last |-> s.blocks[b.z.segment - 1].last]
      next(x) == IF x.done THEN x
                 ELSE [x EXCEPT !.prev_bit = b.z.bit,
                                !.prev_output = b.z.output]
  IN  IF ~b.saw_first
      THEN next([b EXCEPT !.saw_first = TRUE, !.header_bits = b.z.bit])
      ELSE next(AppendBlock(o, [b EXCEPT !.complete = block.last], block))

(* A failed inflate(); the type of a block is read in its first three bits.*)
Failed(s, b) ==
  LET bad == /\ b.z.ret = "data" /\ IsBlock(s, b.z.segment)
             /\ s.blocks[b.z.segment].fault = 3
  IN  [StopAt(b, "invalid") EXCEPT
         !.stop_bit = IF bad THEN b.prev_bit + 3 ELSE @,
         !.adler = IF b.z.ret = "data" /\ b.complete THEN "mismatch" ELSE @]

ScanStep(s, o, b) ==
  LET r == RefillScan(s, o, PolledScan(b))
      i == [r EXCEPT !.z = Segment(s, r.fed, r.z)]
  IN  IF b.done THEN b
      ELSE IF CancelledScan(o, b) THEN StopAt(PolledScan(b), "cancelled")
      ELSE IF r.done THEN r
      ELSE IF o.max_output # 0 /\ i.z.output > o.max_output
      THEN StopAt(i, "budget")
      ELSE IF i.z.boundary THEN AtBoundary(s, o, i)
      ELSE CASE i.z.ret = "ok" -> i
             [] i.z.ret = "end" ->
                  [i EXCEPT !.done = TRUE, !.stop = "complete",
                            !.total = i.z.output, !.adler = "match"]
             [] OTHER -> Failed(s, i)

(* The header of a preset dictionary is longer, whether or not it is had.  *)
ScanBlocks(s, o) ==
  Iterated(LAMBDA b : ScanStep(s, o, b),
           [FirstScan EXCEPT !.header_bits =
              IF s.header = "dict" THEN 6 * ByteBits ELSE 0],
           2 * (s.size * ByteBits + BlockBytes(s, Len(s.blocks)) + 2))

BlockForOutput(b, o) ==
  LET has == {k \in DOMAIN b.blocks :
                b.blocks[k].from <= o /\ o < b.blocks[k].to}
  IN  IF has = {} THEN 0 ELSE CHOOSE k \in has : \A j \in has : k <= j

-----------------------------------------------------------------------------
(***************************************************************************)
(* The access index.  A point keeps the byte of its boundary, the bits of  *)
(* that byte it primes with, its output offset and the window before it.   *)
(***************************************************************************)
FirstAccess ==
  [z |-> FirstInflate, fed |-> 0, points |-> <<>>, last |-> 0, total |-> 0,
   done |-> FALSE, success |-> FALSE]

(* prime_bits counts the bits of the byte that lie before the boundary.    *)
Point(z) ==
  [input_byte |-> z.bit \div ByteBits, prime_bits |-> z.bit % ByteBits,
   output |-> z.output,
   dictionary |-> {o \in 0..(z.output - 1) : o >= z.output - WindowSize}]

AccessStep(s, cap, interval, a) ==
  LET want == Least(s.size - a.fed, InputChunk)
      r == IF Consumed(a.z) < a.fed THEN a ELSE [a EXCEPT !.fed = @ + want]
      i == [r EXCEPT !.z = Segment(s, r.fed, r.z)]
      due == i.points = <<>> \/ i.z.output - i.last >= interval
  IN  IF a.done THEN a
      ELSE IF Consumed(a.z) = a.fed /\ want = 0 THEN [a EXCEPT !.done = TRUE]
      ELSE IF i.z.output > cap THEN [i EXCEPT !.done = TRUE]
      ELSE IF i.z.boundary
      THEN IF due THEN [i EXCEPT !.points = Append(@, Point(i.z)),
                                 !.last = i.z.output]
           ELSE i
      ELSE IF i.z.ret = "ok" THEN i
      ELSE [i EXCEPT !.done = TRUE, !.success = i.z.ret = "end",
                     !.total = i.z.output]

AccessIndex(s, cap, interval) ==
  Iterated(LAMBDA a : AccessStep(s, cap, interval, a), FirstAccess,
           2 * (s.size * ByteBits + BlockBytes(s, Len(s.blocks)) + 2))

(* Wrong: the search stops one entry short of the nearest.                 *)
NearestBefore(outputs, o) ==
  LET reach == {k \in DOMAIN outputs : outputs[k] < o}
  IN  IF reach = {} THEN 1 ELSE CHOOSE k \in reach : \A j \in reach : j <= k

(* The binary search for the last entry at or before o; the first is at 0. *)
Nearest(outputs, o) ==
  LET Halved(x) ==
        LET mid == x.lo + (x.hi - x.lo) \div 2
        IN  IF x.lo + 1 >= x.hi THEN x
            ELSE IF outputs[mid] <= o THEN [x EXCEPT !.lo = mid]
            ELSE [x EXCEPT !.hi = mid]
  IN  Iterated(Halved, [lo |-> 1, hi |-> Len(outputs) + 1], Len(outputs)).lo

(* Raw inflate of a resumed stream yields the bytes from its output on if  *)
(* the bits it is fed, the primed ones and then whole bytes, are those of  *)
(* the stream from a block on, and back references reach no further than   *)
(* the dictionary.                                                         *)
Resumes(s, point) ==
  /\ point.prime_bits = 0
  /\ \A o \in 0..(point.output - 1) :
       o >= point.output - WindowSize => o \in point.dictionary

(* The loop that drops "skip" bytes and keeps "length" of those that come. *)
Taken(s, from, offset, length) ==
  LET Take(x) ==
        LET produced == Least(ScratchSize, BlockBytes(s, Len(s.blocks)) - x.at)
            dropped == Least(x.skip, produced)
            take == Least(length - Len(x.data), produced - dropped)
        IN  [at |-> x.at + produced, skip |-> x.skip - dropped,
             data |-> x.data \o [k \in 1..take |-> x.at + dropped + k - 1]]
  IN  Iterated(Take, [at |-> from, skip |-> offset - from, data |-> <<>>],
               BlockBytes(s, Len(s.blocks)) + 1).data

(* extract_output(): the data, or <<>> where it fails.                     *)
Extract(s, a, offset, length) ==
  LET point == a.points[Nearest([k \in DOMAIN a.points |-> a.points[k].output],
                                offset)]
  IN  IF \/ ~a.success \/ a.points = <<>> \/ offset + length > a.total
         \/ ~Resumes(s, point)
      THEN <<>>
      ELSE Taken(s, point.output, offset, length)

-----------------------------------------------------------------------------
(***************************************************************************)
(* The session index: snapshots of the inflater, by output and by memory.  *)
(***************************************************************************)
CaptureIfDue(x, interval, budget) ==
  LET due == x.snapshots = <<>> \/ x.z.output - x.last >= interval
      fits == x.snapshots = <<>> \/ x.retained + SnapshotBytes <= budget
  IN  IF due /\ fits
      THEN [x EXCEPT !.snapshots = Append(@, x.z.output),
                     !.retained = @ + SnapshotBytes, !.last = x.z.output]
      ELSE x

(* inflate() with Z_NO_FLUSH runs on over boundaries until the scratch is  *)
(* full: here it is let run to the next point the scratch ends.            *)
SessionStep(s, cap, interval, budget, x) ==
  LET Go(z) == IF z.ret # "ok" \/ z.output >= x.z.output + ScratchSize THEN z
               ELSE LET n == Segment(s, s.size, z)
                    IN  IF n.output > x.z.output + ScratchSize
                        THEN [z EXCEPT !.output = x.z.output + ScratchSize,
                                !.bit = BitAt(s, z.segment,
                                              x.z.output + ScratchSize)]
                        ELSE n
      z == Iterated(Go, x.z, Len(s.blocks) + 2)
      i == [x EXCEPT !.z = z]
      stalled == z = x.z
  IN  IF x.done THEN x
      ELSE IF z.output > cap \/ stalled THEN [i EXCEPT !.done = TRUE]
      ELSE IF z.ret = "ok" THEN CaptureIfDue(i, interval, budget)
      ELSE [i EXCEPT !.done = TRUE, !.success = z.ret = "end",
                     !.total = z.output]

SessionIndex(s, cap, interval, budget) ==
  Iterated(LAMBDA x : SessionStep(s, cap, interval, budget, x),
           CaptureIfDue([z |-> FirstInflate, snapshots |-> <<>>, last |-> 0,
                         retained |-> 0, done |-> FALSE, success |-> FALSE,
                         total |-> 0], interval, budget),
           BlockBytes(s, Len(s.blocks)) + 2)

ExtractSession(s, x, offset, length) ==
  LET from == x.snapshots[Nearest(x.snapshots, offset)]
  IN  IF ~x.success \/ x.snapshots = <<>> \/ offset + length > x.total
      THEN <<>>
      ELSE Taken(s, from, offset, length)

-----------------------------------------------------------------------------
(***************************************************************************)
(* What the indexes promise.                                               *)
(***************************************************************************)
Whole(s) ==
  /\ s.header = "ok" /\ s.adler_ok
  /\ \A k \in DOMAIN s.blocks : s.blocks[k].fault = 0
  /\ s.size * ByteBits >= SegmentEnd(s, Len(s.blocks) + 1)

(* A scan lists a prefix of the blocks, each with its bits and bytes, all  *)
(* of them if and only if it says complete, and stops at the end of the    *)
(* last it lists, within its budgets, whatever chunks the input comes in.  *)
BlocksExact(s, o, b) ==
  /\ b.done
  /\ \A k \in DOMAIN b.blocks :
       /\ b.blocks[k].begin = SegmentBegin(s, k)
       /\ b.blocks[k].end = SegmentEnd(s, k)
       /\ b.blocks[k].from = BlockBytes(s, k - 1)
       /\ b.blocks[k].to = BlockBytes(s, k)
       /\ b.blocks[k].type = s.blocks[k].type
  /\ b.stop = "complete" =>
       Whole(s) /\ Len(b.blocks) = Len(s.blocks) /\ b.adler = "match"
  /\ b.stop # "complete" /\ b.saw_first =>
       /\ b.stop_bit - SegmentEnd(s, Len(b.blocks)) \in {0, 3}
       /\ b.stop_output = BlockBytes(s, Len(b.blocks))
  /\ b.adler = "mismatch" => Len(b.blocks) = Len(s.blocks) /\ ~s.adler_ok
  /\ Whole(s) /\ o = [k \in DOMAIN o |-> 0] => b.stop = "complete"
  /\ o.max_blocks # 0 => Len(b.blocks) <= o.max_blocks
  /\ o.max_input # 0 => b.fed <= o.max_input
  /\ o.max_retained # 0 => b.capacity <= o.max_retained
       /\ (b.capacity > InitialCapacity =>
             b.capacity + b.capacity \div 2 <= o.max_retained)
  /\ \A at \in 0..(BlockBytes(s, Len(b.blocks)) - 1) :
       LET k == BlockForOutput(b, at)
       IN  k # 0 /\ at \in BlockBytes(s, k - 1)..(BlockBytes(s, k) - 1)

Ranges(total) == {r \in (0..total) \X (1..total) : r[1] + r[2] <= total}

Expected(r) == [k \in 1..r[2] |-> r[1] + k - 1]

(* A snapshot is the nearest kept one, and an extraction from it yields    *)
(* the very bytes asked for; so does one from a byte-aligned point.        *)
IndexesExact(s, cap, interval, budget) ==
  LET a == AccessIndex(s, cap, interval)
      x == SessionIndex(s, cap, interval, budget)
      total == BlockBytes(s, Len(s.blocks))
  IN  /\ a.success = (Whole(s) /\ total <= cap)
      /\ x.success = (Whole(s) /\ total <= cap)
      /\ x.retained <= Greatest(budget, SnapshotBytes)
      /\ x.success =>
           \A r \in Ranges(total) :
             /\ ExtractSession(s, x, r[1], r[2]) = Expected(r)
             /\ \A k \in DOMAIN x.snapshots : x.snapshots[k] <= r[1] =>
                  x.snapshots[Nearest(x.snapshots, r[1])] >= x.snapshots[k]
      /\ a.success /\ (\A k \in DOMAIN a.points : a.points[k].prime_bits = 0)
           => \A r \in Ranges(total) : Extract(s, a, r[1], r[2]) = Expected(r)

(* Every range of an indexed stream can be extracted, from whatever point  *)
(* is nearest: what access_points.h says of the index.                     *)
ExtractionExact(s, cap, interval) ==
  LET a == AccessIndex(s, cap, interval)
  IN  a.success => \A r \in Ranges(a.total) :
                     Extract(s, a, r[1], r[2]) = Expected(r)
=============================================================================
