----------------------------- MODULE PngFormat -----------------------------
(***************************************************************************)
(* The containers of a PNG: the index of chunks (chunk_index.cpp), that of *)
(* an animation (animation_index.cpp) and the streams of the compressed    *)
(* bytes of the image and of one frame (virtual_idat_stream.cpp,           *)
(* virtual_frame_stream.cpp).                                              *)
(*                                                                         *)
(* A file is a signature, a list of chunks and how many bytes of it there  *)
(* are; what is left after the chunks is too short for another one.  A     *)
(* chunk has a type, a length and the fields that are read from its data.  *)
(***************************************************************************)
EXTENDS Integers, Sequences, SequencesExt

CONSTANTS
  SequenceMax,  (* the largest sequence number                             *)
  NodeBytes,    (* sizeof(ChunkNode), AnimationIndex, FrameRecord,         *)
  IndexBytes,   (* FrameDataSpan, AnimationIssue with the name of a rule   *)
  FrameBytes,
  SpanBytes,
  IssueBytes

SignatureSize == 8
HeaderSize == 8
CrcSize == 4

PosOf(f, k) ==
  FoldLeft(LAMBDA pos, c : pos + HeaderSize + c.length + CrcSize,
           SignatureSize, SubSeq(f.chunks, 1, k - 1))

DataOf(f, k) == PosOf(f, k) + HeaderSize

(* Wrong: the CRC of a chunk is not asked for.                             *)
CutAtData(f, k) ==
  LET left == f.size - PosOf(f, k)
  IN  IF left < HeaderSize THEN "header"
      ELSE IF f.chunks[k].length > left - HeaderSize THEN "data" ELSE "no"

(* Where the envelope of chunk k is cut, if it is.                         *)
CutAt(f, k) ==
  LET left == f.size - PosOf(f, k)
  IN  CASE left < HeaderSize -> "header"
        [] left >= HeaderSize /\ f.chunks[k].length > left - HeaderSize ->
             "data"
        [] left >= HeaderSize /\ f.chunks[k].length <= left - HeaderSize
             /\ CrcSize > left - HeaderSize - f.chunks[k].length -> "crc"
        [] OTHER -> "no"

CutOffset(f, k) ==
  CASE CutAt(f, k) = "header" -> PosOf(f, k)
    [] CutAt(f, k) = "data" -> DataOf(f, k)
    [] OTHER -> DataOf(f, k) + f.chunks[k].length

-----------------------------------------------------------------------------
(* index_chunks(): lim has max_chunks, max_metadata and the question at    *)
(* which the caller cancels, 0 for never.  A scan that has stopped has an  *)
(* issue or has met its end.                                               *)
Node(f, k) == [type |-> f.chunks[k].type, header |-> PosOf(f, k),
               length |-> f.chunks[k].length]

ChunkIssue(s, issue, offset) ==
  [s EXCEPT !.issues = Append(@, <<issue, offset>>), !.done = TRUE]

IndexStep(f, lim, s) ==
  LET k == Len(s.chunks) + 1
      pos == PosOf(f, k)
      next == [s EXCEPT !.chunks = Append(@, Node(f, k))]
      end == PosOf(f, k + 1)
  IN  CASE s.done -> s
        [] ~s.done /\ k = lim.cancel_at -> ChunkIssue(s, "cancelled", pos)
        [] ~s.done /\ k # lim.cancel_at /\ f.size - pos < HeaderSize ->
             IF pos < f.size THEN ChunkIssue(s, "header", pos)
             ELSE [s EXCEPT !.done = TRUE]
        [] OTHER ->
             IF CutAt(f, k) # "no"
             THEN ChunkIssue(s, CutAt(f, k), CutOffset(f, k))
             ELSE IF \/ k > lim.max_chunks
                     \/ k * NodeBytes > lim.max_metadata
             THEN ChunkIssue(s, "resource", pos)
             ELSE IF f.chunks[k].type # "IEND" THEN next
             ELSE IF end < f.size THEN ChunkIssue(next, "trailing", end)
             ELSE [next EXCEPT !.done = TRUE]

IndexChunks(f, lim) ==
  LET start == [chunks |-> <<>>, issues |-> <<>>, done |-> FALSE]
      scan[n \in 0..Len(f.chunks) + 1] ==
        IF n = 0 THEN start ELSE IndexStep(f, lim, scan[n - 1])
  IN  IF f.size < SignatureSize THEN ChunkIssue(start, "signature", f.size)
      ELSE IF ~f.signature THEN ChunkIssue(start, "bad signature", 0)
      ELSE scan[Len(f.chunks) + 1]

-----------------------------------------------------------------------------
(* index_animation(): lim has max_frames, max_chunks, max_metadata and     *)
(* cancel_at.  "room" is the capacity of a vector.                         *)
FirstAnimation ==
  [k |-> 1, status |-> "static", stop |-> "none", num_frames |-> 0,
   canvas |-> <<0, 0>>, color |-> 0, known |-> FALSE, default |-> FALSE,
   frames |-> <<>>, room |-> 0, issues |-> <<>>, retained |-> IndexBytes,
   saw |-> {}, count |-> 0, expected |-> 0, exhausted |-> FALSE]

Stopped(s) == s.stop # "none"

StopAs(s, status, stop) == [s EXCEPT !.status = status, !.stop = stop]

OverBudget(s) == StopAs(s, "partial", "budget")

Affords(s, lim, bytes) == bytes <= lim.max_metadata - s.retained

(* Without room for its issue a format error is reported as a budget.      *)
StopFormat(s, lim, rule, offset) ==
  IF ~Affords(s, lim, IssueBytes) THEN OverBudget(s)
  ELSE StopAs([s EXCEPT !.issues = Append(@, <<rule, offset>>),
                        !.retained = @ + IssueBytes],
              IF s.frames = <<>> THEN "invalid" ELSE "partial", "format")

HasPayload(frame) == \E k \in DOMAIN frame.data : frame.data[k].length # 0

(* The frame that is open is the last one.                                 *)
DiscardCurrent(s) ==
  IF s.frames = <<>> THEN s ELSE [s EXCEPT !.frames = Front(@)]

Doubled(room) == IF room = 0 THEN 1 ELSE 2 * room

GrowFrames(s, lim) ==
  LET room == IF Doubled(s.room) > lim.max_frames THEN lim.max_frames
              ELSE Doubled(s.room)
      bytes == (room - s.room) * FrameBytes
  IN  IF Len(s.frames) < s.room THEN s
      ELSE IF room <= s.room \/ ~Affords(s, lim, bytes) THEN OverBudget(s)
      ELSE [s EXCEPT !.room = room, !.retained = @ + bytes]

(* append_span() to the open frame.                                        *)
AppendSpan(s, lim, offset, length) ==
  LET last == Len(s.frames)
      frame == s.frames[last]
      full == Len(frame.data) = frame.room
      room == IF full THEN Doubled(frame.room) ELSE frame.room
      bytes == (room - frame.room) * SpanBytes
  IN  IF ~Affords(s, lim, bytes) THEN OverBudget(s)
      ELSE [s EXCEPT !.retained = @ + bytes,
                     !.frames[last].room = room,
                     !.frames[last].data =
                        Append(@, [offset |-> offset, length |-> length])]

(* Wrong: a gap in the sequence is let through.                            *)
InSequenceLax(s, sequence) == ~s.exhausted /\ sequence >= s.expected

InSequence(s, sequence) == ~s.exhausted /\ sequence = s.expected

Counted(s, sequence) ==
  IF sequence = SequenceMax THEN [s EXCEPT !.exhausted = TRUE]
  ELSE [s EXCEPT !.expected = sequence + 1]

-----------------------------------------------------------------------------
(* The branches of the scan; c is the chunk and pos its header.            *)
OnHeader(s, lim, c, pos) ==
  IF c.length # 13 THEN StopFormat(s, lim, "frame.geometry", pos)
  ELSE [s EXCEPT !.canvas = <<c.width, c.height>>, !.color = c.color,
                 !.known = TRUE]

OnPalette(s, lim, c, pos) ==
  IF "PLTE" \in s.saw \/ "IDAT" \in s.saw \/ c.length \notin 1..768
       \/ c.length % 3 # 0
  THEN StopFormat(s, lim, "frame.data", pos)
  ELSE IF ~Affords(s, lim, c.length) THEN OverBudget(s)
  ELSE [s EXCEPT !.retained = @ + c.length]

OnTransparency(s, lim, c, pos) ==
  IF \/ "tRNS" \in s.saw \/ "IDAT" \in s.saw
     \/ ~ \/ s.color = 0 /\ c.length = 2
          \/ s.color = 2 /\ c.length = 6
          \/ s.color = 3 /\ c.length <= 256
  THEN StopFormat(s, lim, "frame.data", pos)
  ELSE IF ~Affords(s, lim, c.length) THEN OverBudget(s)
  ELSE [s EXCEPT !.retained = @ + c.length]

OnControl(s, lim, c, pos) ==
  IF "acTL" \in s.saw \/ "IDAT" \in s.saw \/ c.length # 8
  THEN StopFormat(s, lim, "actl.order", pos)
  ELSE IF c.num_frames = 0 THEN StopFormat(s, lim, "actl.count", pos)
  ELSE [s EXCEPT !.num_frames = c.num_frames]

Fills(c, canvas) ==
  c.x = 0 /\ c.y = 0 /\ c.width = canvas[1] /\ c.height = canvas[2]

InCanvas(c, canvas) ==
  /\ c.width # 0 /\ c.height # 0 /\ c.x <= canvas[1] /\ c.y <= canvas[2]
  /\ c.width <= canvas[1] - c.x /\ c.height <= canvas[2] - c.y

OnFrameControl(s, lim, c, pos) ==
  LET first == "IDAT" \notin s.saw /\ s.frames = <<>>
      grown == GrowFrames(Counted(s, c.sequence), lim)
  IN  IF "acTL" \notin s.saw \/ c.length # 26
      THEN StopFormat(s, lim, "frame.control", pos)
      ELSE IF s.frames # <<>> /\ ~HasPayload(Last(s.frames))
      THEN StopFormat(DiscardCurrent(s), lim, "frame.data", pos)
      ELSE IF ~InSequence(s, c.sequence)
      THEN StopFormat(s, lim, "sequence", pos)
      ELSE IF Len(s.frames) >= lim.max_frames THEN OverBudget(s)
      ELSE IF \/ ~s.known \/ ~InCanvas(c, s.canvas)
              \/ first /\ ~Fills(c, s.canvas)
      THEN StopFormat(s, lim, "frame.geometry", pos)
      ELSE IF Stopped(grown) THEN grown
      ELSE [grown EXCEPT
              !.frames = Append(@, [sequence |-> c.sequence,
                                    uses_idat |-> FALSE, data |-> <<>>,
                                    room |-> 0]),
              !.default = @ \/ first]

OnImageData(s, lim, c, pos) ==
  IF s.default /\ Len(s.frames) = 1
  THEN AppendSpan([s EXCEPT !.frames[1].uses_idat = TRUE], lim,
                  pos + HeaderSize, c.length)
  ELSE s

(* Every error drops the frame that is open.                               *)
OnFrameData(s, lim, c, pos) ==
  LET added == AppendSpan(Counted(s, c.sequence), lim, pos + HeaderSize + 4,
                          c.length - 4)
  IN  IF "acTL" \notin s.saw \/ s.frames = <<>> \/ c.length < 4
      THEN StopFormat(DiscardCurrent(s), lim, "frame.data", pos)
      ELSE IF ~InSequence(s, c.sequence)
      THEN DiscardCurrent(StopFormat(s, lim, "sequence", pos))
      ELSE IF Stopped(added) THEN DiscardCurrent(added)
      ELSE added

OnChunk(s, lim, c, pos) ==
  CASE c.type = "IHDR" -> OnHeader(s, lim, c, pos)
    [] c.type = "PLTE" -> OnPalette(s, lim, c, pos)
    [] c.type = "tRNS" -> OnTransparency(s, lim, c, pos)
    [] c.type = "acTL" -> OnControl(s, lim, c, pos)
    [] c.type = "fcTL" -> OnFrameControl(s, lim, c, pos)
    [] c.type = "IDAT" -> OnImageData(s, lim, c, pos)
    [] c.type = "fdAT" -> OnFrameData(s, lim, c, pos)
    [] OTHER -> s

-----------------------------------------------------------------------------
(* What follows the loop: the count and a payload for every frame.         *)
AtEnd(f, s, lim) ==
  IF "acTL" \notin s.saw THEN s
  ELSE IF Len(s.frames) # s.num_frames
  THEN StopFormat(s, lim, "frame.count", f.size)
  ELSE IF s.frames # <<>> /\ ~HasPayload(Last(s.frames))
  THEN StopFormat(DiscardCurrent(s), lim, "frame.data", f.size)
  ELSE [s EXCEPT !.status = "complete"]

AtIend(f, s, lim, c, pos) ==
  LET end == pos + HeaderSize + CrcSize
  IN  IF c.length # 0 THEN StopFormat(s, lim, "envelope", pos)
      ELSE IF end # f.size THEN StopFormat(s, lim, "envelope", end)
      ELSE AtEnd(f, s, lim)

Animations == {"acTL", "fcTL", "fdAT"}

AnimationStep(f, lim, s) ==
  LET k == s.k
      pos == PosOf(f, k)
      c == f.chunks[k]
      counted == [s EXCEPT !.count = IF c.type \in Animations THEN @ + 1
                                     ELSE @]
      read == OnChunk(counted, lim, c, pos)
  IN  IF Stopped(s) \/ k = 0 THEN s
      ELSE IF pos >= f.size
      THEN StopFormat(DiscardCurrent(s), lim, "envelope", pos)
      ELSE IF k = lim.cancel_at THEN StopAs(s, "cancelled", "cancelled")
      ELSE IF k > Len(f.chunks) \/ CutAt(f, k) # "no"
      THEN StopFormat(s, lim, "envelope", CutOffset(f, k))
      ELSE IF counted.count > lim.max_chunks THEN OverBudget(s)
      ELSE IF c.type = "IEND"
      THEN [AtIend(f, s, lim, c, pos) EXCEPT !.k = 0]
      ELSE [read EXCEPT !.saw = @ \union {c.type}, !.k = k + 1]

(* The scan has ended when it has stopped or met its end (k = 0).          *)
IndexAnimation(f, lim) ==
  LET start == FirstAnimation
      scan[n \in 0..Len(f.chunks) + 1] ==
        IF n = 0 THEN start ELSE AnimationStep(f, lim, scan[n - 1])
  IN  IF lim.max_frames = 0 \/ lim.max_chunks = 0
           \/ lim.max_metadata < IndexBytes
      THEN OverBudget([start EXCEPT !.retained = 0])
      ELSE IF f.size < SignatureSize
      THEN StopFormat(start, lim, "envelope", f.size)
      ELSE IF ~f.signature THEN StopFormat(start, lim, "envelope", 0)
      ELSE scan[Len(f.chunks) + 1]

-----------------------------------------------------------------------------
(* A stream over spans of the file.  Segments without bytes are kept by    *)
(* VirtualIDATStream and dropped by the stream of a frame; both pass them. *)
StartsOf(spans) ==
  [k \in 1..Len(spans) + 1 |->
     FoldLeft(LAMBDA sum, span : sum + span.length, 0,
              SubSeq(spans, 1, k - 1))]

TotalOf(spans) == StartsOf(spans)[Len(spans) + 1]

IdatSpans(index) ==
  LET idats == SelectSeq(index.chunks, LAMBDA n : n.type = "IDAT")
  IN  [k \in DOMAIN idats |-> [offset |-> idats[k].header + HeaderSize,
                               length |-> idats[k].length]]

ValidSpan(f, span) ==
  span.offset <= f.size /\ span.length <= f.size - span.offset

(* Wrong: a range that starts in one segment is taken from it alone.       *)
TakenWhole(spans, k, pos, remaining) == remaining

(* What the k-th segment gives of a range from pos on.                     *)
TakenOf(spans, k, pos, remaining) ==
  LET left == StartsOf(spans)[k + 1] - pos
  IN  IF remaining < left THEN remaining ELSE left

(* logical_to_physical(), and read() of the same ranges.                   *)
LogicalToPhysical(spans, offset, length) ==
  LET walk[k \in 0..Len(spans)] ==
        IF k = 0 THEN [ranges |-> <<>>, pos |-> offset, remaining |-> length]
        ELSE LET w == walk[k - 1]
                 starts == StartsOf(spans)
                 take == TakenOf(spans, k, w.pos, w.remaining)
             IN  IF w.remaining = 0 \/ w.pos >= starts[k + 1] THEN w
                 ELSE [ranges |-> Append(w.ranges,
                         [offset |-> spans[k].offset + w.pos - starts[k],
                          length |-> take]),
                       pos |-> w.pos + take,
                       remaining |-> w.remaining - take]
  IN  IF offset > TotalOf(spans) \/ length > TotalOf(spans) - offset
      THEN [ok |-> FALSE, ranges |-> <<>>]
      ELSE [ok |-> walk[Len(spans)].remaining = 0,
            ranges |-> walk[Len(spans)].ranges]

(* A range without bytes is anchored at the segment that goes on after it, *)
(* or at the end of the last.                                              *)
ZeroAnchor(spans, offset) ==
  LET starts == StartsOf(spans)
      after == {k \in DOMAIN spans : offset < starts[k + 1]}
      k == CHOOSE j \in after : \A i \in after : j <= i
  IN  IF spans = <<>> THEN <<>>
      ELSE IF after = {}
      THEN <<[offset |-> Last(spans).offset + Last(spans).length,
              length |-> 0]>>
      ELSE <<[offset |-> spans[k].offset + offset - starts[k], length |-> 0]>>

FrameRanges(spans, offset, length) ==
  IF length = 0 /\ offset <= TotalOf(spans)
  THEN [ok |-> TRUE, ranges |-> ZeroAnchor(spans, offset)]
  ELSE LogicalToPhysical(spans, offset, length)

(* -1 for a byte of no segment; the stream of a frame has its end, too.    *)
PhysicalToLogical(spans, physical, withEnd) ==
  LET inside == {k \in DOMAIN spans :
                   physical \in spans[k].offset ..
                                spans[k].offset + spans[k].length - 1}
      k == CHOOSE j \in inside : TRUE
  IN  IF inside # {}
      THEN StartsOf(spans)[k] + physical - spans[k].offset
      ELSE IF withEnd /\ spans # <<>>
                /\ physical = Last(spans).offset + Last(spans).length
      THEN TotalOf(spans) ELSE -1

(* make_frame_stream() and make_idat_stream() without the empty spans.     *)
NonEmpty(spans) == SelectSeq(spans, LAMBDA span : span.length # 0)

MakeStream(f, spans) ==
  [made |-> \A k \in DOMAIN spans : ValidSpan(f, spans[k]),
   spans |-> NonEmpty(spans)]

-----------------------------------------------------------------------------
(* The chunks that are whole, to the first IEND.                           *)
WholeChunks(f) ==
  LET whole == {k \in DOMAIN f.chunks :
                  /\ PosOf(f, k + 1) <= f.size
                  /\ \A j \in 1..k - 1 : f.chunks[j].type # "IEND"}
  IN  SubSeq(f.chunks, 1, Max({0} \union whole))

(* The index has the whole chunks in their places, as many as the limits   *)
(* allow; without an issue the file is all of them.                        *)
ChunksExact(f, lim) ==
  LET r == IndexChunks(f, lim)
      all == WholeChunks(f)
  IN  /\ r.done /\ Len(r.issues) <= 1
      /\ f.signature /\ f.size >= SignatureSize =>
           /\ \A k \in DOMAIN r.chunks : r.chunks[k] = Node(f, k)
           /\ Len(r.chunks) <= lim.max_chunks
           /\ Len(r.chunks) <= Len(all)
           /\ r.issues = <<>> =>
                PosOf(f, Len(r.chunks) + 1) = f.size
           /\ Len(r.chunks) < Len(all) =>
                r.issues[1][1] \in {"cancelled", "resource"}

(* The data of the frame of the n-th fcTL: the fdATs before the next one,  *)
(* and the IDATs when it comes before all of them.                         *)
Controls(f) ==
  LET ks == SelectSeq([k \in DOMAIN f.chunks |-> k],
                      LAMBDA k : f.chunks[k].type = "fcTL")
  IN  Append(ks, Len(f.chunks) + 1)

FrameSpans(f, n) ==
  LET from == Controls(f)[n]
      own == SelectSeq([k \in DOMAIN f.chunks |-> k],
               LAMBDA k : /\ k \in from .. Controls(f)[n + 1]
                          /\ \/ f.chunks[k].type = "fdAT"
                             \/ /\ f.chunks[k].type = "IDAT" /\ n = 1
                                /\ \A j \in 1..from : f.chunks[j].type # "IDAT")
  IN  [k \in DOMAIN own |->
         LET skip == IF f.chunks[own[k]].type = "fdAT" THEN 4 ELSE 0
         IN  [offset |-> DataOf(f, own[k]) + skip,
              length |-> f.chunks[own[k]].length - skip]]

(* Every frame that is told is a frame of the file, its data those chunks  *)
(* that belong to it and are all inside the file; only the last may lack   *)
(* some.  The sequence of a complete animation has no gap, and its frames  *)
(* are as many as it says, each with data.  The retained bytes are within  *)
(* the budget and at least those of what is kept.                          *)
AnimationExact(f, lim) ==
  LET r == IndexAnimation(f, lim)
      numbers == SelectSeq(f.chunks, LAMBDA c : c.type \in {"fcTL", "fdAT"})
  IN  /\ \A n \in DOMAIN r.frames :
           /\ IsPrefix(r.frames[n].data, FrameSpans(f, n))
           /\ n < Len(r.frames) \/ r.status = "complete" =>
                r.frames[n].data = FrameSpans(f, n) /\ HasPayload(r.frames[n])
           /\ MakeStream(f, r.frames[n].data).made
      /\ r.status = "complete" =>
           /\ Len(r.frames) = r.num_frames
           /\ \A k \in DOMAIN numbers : numbers[k].sequence = k - 1
      /\ r.status \in {"static", "complete"} =>
           /\ IndexChunks(f, [max_chunks |-> 100, max_metadata |-> 10000,
                              cancel_at |-> 0]).issues = <<>>
           /\ r.issues = <<>>
      /\ Len(r.issues) * IssueBytes + Len(r.frames) * FrameBytes
           <= r.retained
      /\ r.retained <= lim.max_metadata

(* A range of a stream is the bytes it names, in order, and every byte of  *)
(* it is found back; both kinds of streams agree.                          *)
BytesOf(ranges) ==
  FlattenSeq([k \in DOMAIN ranges |->
                [i \in 1..ranges[k].length |-> ranges[k].offset + i - 1]])

StreamExact(spans) ==
  LET all == BytesOf(spans)
  IN  /\ Len(all) = TotalOf(spans)
      /\ \A from \in 0..Len(all) + 1, length \in 0..Len(all) + 1 :
           LET ranges == LogicalToPhysical(spans, from, length)
               frame == FrameRanges(NonEmpty(spans), from, length)
           IN  /\ frame.ok = ranges.ok
               /\ length # 0 => frame = ranges
               /\ ranges.ok <=> from + length <= Len(all)
               /\ ranges.ok => BytesOf(ranges.ranges) =
                                 SubSeq(all, from + 1, from + length)
      /\ \A k \in DOMAIN all, withEnd \in BOOLEAN :
           PhysicalToLogical(NonEmpty(spans), all[k], withEnd) = k - 1
      /\ \A k \in 0..Len(all) - 1 :
           FrameRanges(NonEmpty(spans), k, 0).ranges =
             <<[offset |-> all[k + 1], length |-> 0]>>
=============================================================================
