---------------------------- MODULE PixelQueries ---------------------------
(***************************************************************************)
(* An image that is analysed (filtered_scanlines.cpp, stage_analysis.cpp,  *)
(* frame_analysis.cpp) and the questions where one of its samples is, what *)
(* is around it and which bytes it is made from (coordinate_query.cpp,     *)
(* stage_viewport.cpp, stage_pixel_process_view.cpp,                       *)
(* reconstruct_view_model.cpp, pixel_provenance.cpp).                      *)
(*                                                                         *)
(* A stage set st is [stop] and, when that is "ready", has its header, its *)
(* layout, the spans of its rows, and the bytes and samples of each stage. *)
(* Offsets count from 0.  The code adds them in words of which Word is a   *)
(* smaller one.                                                            *)
(***************************************************************************)
EXTENDS Reconstruction, PngFormat

RowMeta == 16
PassMeta == 32
Word == 2^16

CheckedAdd(left, right) ==
  IF right > Word - 1 - left THEN <<>> ELSE <<left + right>>

-----------------------------------------------------------------------------
(* The rows in the order of the data, each with its filter byte.           *)
Scanlines(layout) ==
  LET rows == RowList(layout)
      row(k) == [offset |-> 0, length |-> layout[rows[k][1]].row_bytes + 1]
      starts == StartsOf([k \in DOMAIN rows |-> row(k)])
  IN  [k \in DOMAIN rows |-> [row(k) EXCEPT !.offset = starts[k]]]

WorkingBytes(h, layout) ==
  LET bytes(p) == p.height * (p.row_bytes + RowMeta) + PassMeta
  IN  TotalBytes(layout) + h.height * RowBytes(h, h.width)
      + 2 * h.width * h.height * Channels(h.color)
      + FoldLeft(LAMBDA sum, p : sum + bytes(p), 0, layout)

NoStages(stop) == [stop |-> stop]

(* analyze_stages(): inflated is [ok, capped, bytes]; cancelled names the  *)
(* step in which the question whether to stop is answered yes.             *)
AnalyzeStages(h, inflated, max_bytes, cancelled) ==
  LET layout == Layout(h)
      r == Reconstruct(h, layout, inflated.bytes, 0)
  IN  IF cancelled = "start" THEN NoStages("cancelled")
      ELSE IF ~ValidHeader(h) THEN NoStages("invalid")
      ELSE IF WorkingBytes(h, layout) > max_bytes THEN NoStages("budget")
      ELSE IF cancelled = "inflate" THEN NoStages("cancelled")
      ELSE IF ~inflated.ok
      THEN NoStages(IF inflated.capped THEN "budget" ELSE "invalid")
      ELSE IF Len(inflated.bytes) # TotalBytes(layout)
      THEN NoStages("invalid")
      ELSE IF cancelled = "reconstruct" THEN NoStages("cancelled")
      ELSE IF r.status # "ok" THEN NoStages("invalid")
      ELSE IF cancelled = "native" THEN NoStages("cancelled")
      ELSE [stop |-> "ready", header |-> h, layout |-> layout,
            scanlines |-> Scanlines(layout), filtered |-> inflated.bytes,
            passes |-> r.passes, unfiltered |-> FlattenSeq(r.target),
            native |-> FlattenSeq([y \in 1..h.height |->
                         FlattenSeq(NativeSamples(h, r.target)[y])])]

(* delivery_context_from(): the bytes of PLTE and of tRNS.                 *)
DeliveryContext(color, palette, transparency) ==
  LET word(k) == transparency[2 * k - 1] * 256 + transparency[2 * k]
      entries == Len(palette) \div 3
      usable == Len(palette) \in 1..768 /\ Len(palette) % 3 = 0
  IN  [palette |-> IF color = 3 /\ usable
                   THEN [k \in 1..entries |->
                           SubSeq(palette, 3 * k - 2, 3 * k)]
                   ELSE <<>>,
       alphas |-> IF color = 3 /\ usable THEN transparency ELSE <<>>,
       transparent |-> CASE color = 0 /\ Len(transparency) = 2 -> <<word(1)>>
                         [] color = 2 /\ Len(transparency) = 6 ->
                              <<word(1), word(2), word(3)>>
                         [] OTHER -> <<>>]

(* analyze_frame(): the header of the canvas with the size of the frame.   *)
AnalyzeFrame(f, canvas, context, inflated, max_bytes, cancelled) ==
  LET h == [canvas EXCEPT !.width = f.width, !.height = f.height]
      st == AnalyzeStages(h, inflated, max_bytes, cancelled)
      rows == [y \in 1..h.height |-> [x \in 1..h.width |->
                 SubSeq(st.native, ((y - 1) * h.width + x - 1)
                                     * Channels(h.color) + 1,
                        ((y - 1) * h.width + x) * Channels(h.color))]]
      delivered == Deliver(h, rows, context, max_bytes,
                           IF cancelled = "deliver" THEN 2 ELSE 0)
      failed(stop) == [stop |-> stop, pixels |-> <<>>]
  IN  CASE st.stop = "cancelled" -> failed("cancelled")
        [] st.stop = "budget" -> failed("partial")
        [] st.stop = "invalid" -> failed("error")
        [] st.stop = "ready" ->
             IF delivered.status = "cancelled" THEN failed("cancelled")
             ELSE IF delivered.status # "ok" THEN failed("error")
             ELSE [stop |-> "ready", pixels |-> delivered.target]

-----------------------------------------------------------------------------
RowsBefore(layout, p) ==
  FoldLeft(LAMBDA rows, pass : rows + pass.height, 0,
           SubSeq(layout, 1, p - 1))

(* The pass that has the pixel, if any, and where in it.                   *)
Locate(layout, x, y) ==
  LET local(p) == [pass |-> p,
                   x |-> (x - layout[p].x_start) \div layout[p].x_step,
                   row |-> (y - layout[p].y_start) \div layout[p].y_step,
                   stream_row |-> RowsBefore(layout, p)
                     + (y - layout[p].y_start) \div layout[p].y_step]
      has(p) == /\ x >= layout[p].x_start /\ y >= layout[p].y_start
                /\ (x - layout[p].x_start) % layout[p].x_step = 0
                /\ (y - layout[p].y_start) % layout[p].y_step = 0
                /\ local(p).x < layout[p].width
                /\ local(p).row < layout[p].height
      in == {p \in DOMAIN layout : has(p)}
  IN  IF in = {} THEN <<>>
      ELSE <<local(CHOOSE p \in in : \A q \in in : p <= q)>>

(* A coordinate has pass and row, 0 when they are not given, and a channel,*)
(* the bits of a packed sample and a byte of it, each a sequence of one or *)
(* none.                                                                   *)
ValidCoordinate(c) ==
  /\ c.pass <= 7
  /\ c.byte # <<>> => /\ c.byte[1] <= 1 /\ c.packed = <<>>
                      /\ c.channel # <<>>
  /\ c.packed # <<>> => /\ c.packed[1].bits \in {1, 2, 4}
                        /\ c.packed[1].bit + c.packed[1].bits <= 8
                        /\ c.channel # <<>>

ChannelOf(c) == IF c.channel = <<>> THEN 0 ELSE c.channel[1]

ExpectedPass(h, at) == IF h.interlace THEN at.pass ELSE 0

(* The first bit of a sample of a row in which the pixel is at x.          *)
SampleBitAt(h, x, channel) == (x * Channels(h.color) + channel) * h.depth

(* What is said of the address besides x and y agrees with the image.      *)
AddressFits(h, c, at) ==
  /\ c.pass \in {0, ExpectedPass(h, at)} /\ c.row \in {0, at.row}
  /\ ChannelOf(c) < Channels(h.color)
  /\ c.packed # <<>> =>
       /\ h.depth < 8 /\ c.packed[1].bits = h.depth
       /\ c.packed[1].bit = SampleBitAt(h, at.x, ChannelOf(c)) % 8
  /\ c.byte # <<>> => h.depth >= 8 /\ c.byte[1] < h.depth \div 8

NoSummary(status) == [status |-> status]

(* Wrong: the place in the image is that in the row of the pass.           *)
SummaryOfPass(st, c, at) ==
  LET h == st.header
      in == SampleBitAt(h, at.x, ChannelOf(c))
      lane == IF c.byte = <<>> THEN 0 ELSE c.byte[1]
  IN  [status |-> "ready", pass |-> ExpectedPass(h, at), row |-> at.row,
       stream_row |-> at.stream_row,
       filtered |-> st.scanlines[at.stream_row + 1].offset + 1
                      + in \div 8 + lane,
       unfiltered |-> c.y * RowBytes(h, h.width) + in \div 8 + lane,
       filtered_bit |-> in % 8, unfiltered_bit |-> in % 8,
       bits |-> IF c.byte = <<>> THEN h.depth ELSE 8,
       native |-> (c.y * h.width + c.x) * Channels(h.color) + ChannelOf(c)]

SummaryOf(st, c, at) ==
  LET h == st.header
      in == SampleBitAt(h, at.x, ChannelOf(c))
      on == SampleBitAt(h, c.x, ChannelOf(c))
      lane == IF c.byte = <<>> THEN 0 ELSE c.byte[1]
  IN  [status |-> "ready", pass |-> ExpectedPass(h, at), row |-> at.row,
       stream_row |-> at.stream_row,
       filtered |-> st.scanlines[at.stream_row + 1].offset + 1
                      + in \div 8 + lane,
       unfiltered |-> c.y * RowBytes(h, h.width) + on \div 8 + lane,
       filtered_bit |-> IF c.byte = <<>> THEN in % 8 ELSE 0,
       unfiltered_bit |-> IF c.byte = <<>> THEN on % 8 ELSE 0,
       bits |-> IF c.byte = <<>> THEN h.depth ELSE 8,
       native |-> (c.y * h.width + c.x) * Channels(h.color) + ChannelOf(c)]

(* query_coordinate() of a selection [image, identity, stage].             *)
QueryCoordinate(st, selection) ==
  LET c == selection.image[1]
      at == Locate(st.layout, c.x, c.y)
  IN  IF selection.image = <<>> THEN NoSummary("none")
      ELSE IF ~ValidCoordinate(c) THEN NoSummary("range")
      ELSE IF \/ selection.identity # "static"
              \/ selection.stage \in {"file", "chunk", "trace"}
      THEN NoSummary("not_applicable")
      ELSE IF st.stop # "ready" THEN NoSummary("error")
      ELSE IF c.x >= st.header.width \/ c.y >= st.header.height
      THEN NoSummary("range")
      ELSE IF at = <<>> THEN NoSummary("range")
      ELSE IF ~AddressFits(st.header, c, at[1]) THEN NoSummary("range")
      ELSE SummaryOf(st, c, at[1])

-----------------------------------------------------------------------------
(* StageViewportProvider: st is a sequence of one stage set or none.       *)
Provider(st) == [st |-> st, request |-> <<>>, result |-> <<>>]

(* Wrong: what was answered of the last image is kept.                     *)
SetStagesKept(provider, st) == [provider EXCEPT !.st = st]

SetStages(provider, st) == Provider(st)

NoViewport(status) == [status |-> status, samples |-> <<>>]

Viewport(st, v) ==
  LET h == st[1].header
      n == Channels(h.color)
      row(y) == SubSeq(st[1].native, ((v.y + y) * h.width + v.x) * n + 1,
                       ((v.y + y) * h.width + v.x + v.width) * n)
  IN  IF st = <<>> THEN NoViewport("no_stage")
      ELSE IF st[1].stop # "ready" THEN NoViewport("no_stage")
      ELSE IF v.stage # "native" THEN NoViewport("not_applicable")
      ELSE IF \/ v.width = 0 \/ v.height = 0 \/ v.max_samples = 0
              \/ v.x + v.width > h.width \/ v.y + v.height > h.height
      THEN NoViewport("range")
      ELSE IF v.width * v.height * n > v.max_samples
      THEN NoViewport("budget")
      ELSE [status |-> "ready",
            samples |-> FlattenSeq([y \in 1..v.height |-> row(y - 1)])]

QueryViewport(provider, v) ==
  IF provider.request = <<v>> THEN provider
  ELSE [provider EXCEPT !.request = <<v>>,
                        !.result = <<Viewport(provider.st, v)>>]

-----------------------------------------------------------------------------
PassRow(st, p, row) ==
  SubSeq(st.passes[p], row * st.layout[p].row_bytes + 1,
         (row + 1) * st.layout[p].row_bytes)

(* The n-th byte of a row that is put together again, and what it is from. *)
FilterEvent(type, raw, out, prev, bpp, n) ==
  LET a == IF n > bpp THEN out[n - bpp] ELSE 0
      b == IF n <= Len(prev) THEN prev[n] ELSE 0
      c == IF n > bpp /\ n <= Len(prev) THEN prev[n - bpp] ELSE 0
  IN  [raw |-> raw[n], a |-> a, b |-> b, c |-> c,
       predictor |-> PredictorValue(type, a, b, c), recon |-> out[n]]

(* Wrong: the row before is that of the data, in whatever pass.            *)
RowAboveOfData(st, p, row) ==
  IF row > 0 THEN PassRow(st, p, row - 1)
  ELSE LET before == {q \in 1..p - 1 : st.layout[q].height > 0}
           q == CHOOSE k \in before : \A j \in before : j <= k
       IN  IF before = {} THEN <<>>
           ELSE PassRow(st, q, st.layout[q].height - 1)

RowAbove(st, p, row) == IF row = 0 THEN <<>> ELSE PassRow(st, p, row - 1)

(* filter_formula() of a row of the data.                                  *)
FilterFormula(st, stream_row) ==
  LET p == CHOOSE q \in DOMAIN st.layout :
             /\ stream_row >= RowsBefore(st.layout, q)
             /\ stream_row < RowsBefore(st.layout, q) + st.layout[q].height
      span == st.scanlines[stream_row + 1]
      type == st.filtered[span.offset + 1]
      raw == SubSeq(st.filtered, span.offset + 2, span.offset + span.length)
      bpp == FilterBpp(st.header)
      prev == RowAbove(st, p, stream_row - RowsBefore(st.layout, p))
      out == Unfilter(type, raw, prev, bpp)
  IN  IF st.stop # "ready" THEN [ok |-> FALSE, filter |-> 0, events |-> <<>>]
      ELSE IF stream_row >= Len(st.scanlines) \/ type > 4
      THEN [ok |-> FALSE, filter |-> 0, events |-> <<>>]
      ELSE [ok |-> TRUE, filter |-> type,
            events |-> [n \in DOMAIN raw |->
                          FilterEvent(type, raw, out, prev, bpp, n)]]

-----------------------------------------------------------------------------
(* build_stage_pixel_process_view(): three rows of five cells around the   *)
(* pixel for every channel, in the image or in its pass.                   *)
BytePosition(h, x, channel) ==
  LET at == SampleBitAt(h, x, channel)
  IN  [byte |-> at \div 8, bit |-> at % 8,
       bits |-> IF h.depth < 8 THEN h.depth ELSE 0]

Lanes(h) == IF h.depth = 16 THEN 2 ELSE 1

OutCell == [in |-> FALSE, x |-> 0, y |-> 0, at |-> 0, bit |-> 0, bits |-> 0,
            bytes |-> <<>>, samples |-> <<>>]

Cell(x, y, at, position, bytes, lanes, samples) ==
  [in |-> TRUE, x |-> x, y |-> y, at |-> at, bit |-> position.bit,
   bits |-> position.bits, bytes |-> SubSeq(bytes, at + 1, at + lanes),
   samples |-> samples]

NativeCell(st, x, y, channel) ==
  LET h == st.header
      position == BytePosition(h, x, channel)
      sample == (y * h.width + x) * Channels(h.color) + channel
  IN  IF ~(x \in 0..h.width - 1 /\ y \in 0..h.height - 1) THEN OutCell
      ELSE Cell(x, y, y * RowBytes(h, h.width) + position.byte, position,
                st.unfiltered, Lanes(h), <<st.native[sample + 1]>>)

PassCell(st, stage, p, x, row, channel) ==
  LET h == st.header
      pass == st.layout[p]
      position == BytePosition(h, x, channel)
      span == st.scanlines[RowsBefore(st.layout, p) + row + 1]
      ix == pass.x_start + x * pass.x_step
      iy == pass.y_start + row * pass.y_step
  IN  IF ~(x \in 0..pass.width - 1 /\ row \in 0..pass.height - 1)
      THEN OutCell
      ELSE IF stage = "filtered"
      THEN Cell(ix, iy, span.offset + 1 + position.byte, position,
                st.filtered, Lanes(h), <<>>)
      ELSE Cell(ix, iy, row * pass.row_bytes + position.byte, position,
                st.passes[p], Lanes(h), <<>>)

(* The byte of each channel and lane of the pixel, and what it is from.    *)
Calculations(st, at, formula) ==
  LET h == st.header
      byte(k) == BytePosition(h, at.x, k \div Lanes(h)).byte + (k % Lanes(h))
      n == Channels(h.color) * Lanes(h)
  IN  [k \in 1..n |->
         [channel |-> (k - 1) \div Lanes(h), lane |-> (k - 1) % Lanes(h),
          byte |-> byte(k - 1), event |-> formula.events[byte(k - 1) + 1],
          zero_a |-> /\ formula.events[byte(k - 1) + 1].a = 0
                     /\ byte(k - 1) < FilterBpp(h),
          zero_b |-> at.row = 0, zero_c |-> at.row = 0]]

ProcessView(st, stage, x, y) ==
  LET at == Locate(st.layout, x, y)[1]
      row == st.scanlines[at.stream_row + 1].offset
      cell(channel, dy, dx) ==
        IF stage = "native" THEN NativeCell(st, x + dx, y + dy, channel)
        ELSE PassCell(st, stage, at.pass, at.x + dx, at.row + dy, channel)
      failed(status) == [status |-> status]
  IN  IF st.stop # "ready" THEN failed("no_stage")
      ELSE IF x >= st.header.width \/ y >= st.header.height
      THEN failed("range")
      ELSE [status |-> "ready", at |-> at,
            filter |-> IF stage = "native" THEN 0 ELSE st.filtered[row + 1],
            cells |-> [channel \in 0..Channels(st.header.color) - 1 |->
                         [dy \in -1..1 |->
                            [dx \in -2..2 |-> cell(channel, dy, dx)]]],
            calculations |->
              IF stage # "defiltered" THEN <<>>
              ELSE Calculations(st, at, FilterFormula(st, at.stream_row))]

(* build_reconstruct_view(): the steps of the bytes around the first one   *)
(* of the pixel.                                                           *)
ReconstructView(st, x, y, radius) ==
  LET h == st.header
      at == Locate(st.layout, x, y)[1]
      byte == SampleBitAt(h, at.x, 0) \div 8
      formula == FilterFormula(st, at.stream_row)
      first == IF byte > radius THEN byte - radius ELSE 0
      last == IF byte + radius + 1 < Len(formula.events)
              THEN byte + radius + 1 ELSE Len(formula.events)
      failed(status) == [status |-> status]
  IN  IF st.stop # "ready" THEN failed("no_stage")
      ELSE IF x >= h.width \/ y >= h.height THEN failed("range")
      ELSE [status |-> "ready", at |-> at, selected |-> byte, first |-> first,
            sample |-> (y * h.width + x) * Channels(h.color),
            filtered |-> st.scanlines[at.stream_row + 1].offset + 1 + byte,
            unfiltered |-> y * RowBytes(h, h.width)
                             + SampleBitAt(h, x, 0) \div 8,
            steps |-> SubSeq(formula.events, first + 1, last)]

-----------------------------------------------------------------------------
(* query_pixel_provenance().  The trace t has the byte at which the        *)
(* deflate data begins and its tokens [from, to, begin, end], with bits of *)
(* the input and bytes of the output; spans are those of the file.         *)
TokenBits(t, token) == [from |-> 8 * t.data_begin + token.from,
                        to |-> 8 * t.data_begin + token.to]

(* Wrong: every segment is taken from the bit at which the first begins.   *)
TakeBitsOfEach(s, range) ==
  LET room == 8 * range.length - s.bit
      take == IF s.left < room THEN s.left ELSE room
  IN  [s EXCEPT !.left = @ - take,
         !.bits = @ \union [offset : {range.offset}, bit : {s.bit},
                            bits : {take} \ {0}]]

TakeBits(s, range) ==
  LET room == 8 * range.length - s.bit
      take == IF s.left < room THEN s.left ELSE room
  IN  [s EXCEPT !.left = @ - take, !.bit = 0,
         !.bits = @ \union [offset : {range.offset}, bit : {s.bit},
                            bits : {take} \ {0}]]

MapTokenBits(spans, t, token) ==
  LET in == TokenBits(t, token)
      byte == in.from \div 8
      physical == LogicalToPhysical(spans, byte, CeilDiv(in.to, 8) - byte)
      s == FoldLeft(TakeBits, [left |-> in.to - in.from, bit |-> in.from % 8,
                               bits |-> {}], physical.ranges)
  IN  IF in.to <= in.from THEN [ok |-> TRUE, logical |-> {}, physical |-> {}]
      ELSE [ok |-> physical.ok /\ s.left = 0, physical |-> s.bits,
            logical |-> {[offset |-> byte, bit |-> in.from % 8,
                          bits |-> in.to - in.from]}]

(* The filtered bytes of those a byte is put together from; the distance   *)
(* to the one on the left is taken from below as a word.                   *)
SameRow(span, index, n) ==
  CheckedAdd(span.offset + 1 + index, (n - index) % Word)

FirstRowOfPass(at) == at.stream_row - at.row

PreviousRow(st, at, n) ==
  <<st.scanlines[FirstRowOfPass(at) + 1].offset + 1 + n>>

FilterDependencies(st, at, index, filter) ==
  LET bpp == FilterBpp(st.header)
      left == filter \in {1, 3, 4} /\ index >= bpp
      up == filter \in {2, 3, 4} /\ at.row > 0
      corner == filter = 4 /\ at.row > 0 /\ index >= bpp
      span == st.scanlines[at.stream_row + 1]
      same == SameRow(span, index, index - bpp)
  IN  [ok |-> left => same # <<>>,
       bytes |-> (IF left THEN Range(same) ELSE {})
          \union (IF up THEN Range(PreviousRow(st, at, index)) ELSE {})
          \union (IF corner THEN Range(PreviousRow(st, at, index - bpp))
                  ELSE {})]

Provenance(st, spans, t, x, y, channel) ==
  LET h == st.header
      at == Locate(st.layout, x, y)[1]
      first == SampleBitAt(h, at.x, channel)
      on == SampleBitAt(h, x, channel)
      formula == FilterFormula(st, at.stream_row)
      bytes == CeilDiv((first % 8) + h.depth, 8)
      own == st.scanlines[at.stream_row + 1].offset + 1 + first \div 8
      from == {FilterDependencies(st, at, first \div 8 + i, formula.filter) :
                 i \in 0..bytes - 1}
      inflated == own..own + bytes - 1 \union UNION {d.bytes : d \in from}
      tokens == {k \in DOMAIN t.tokens :
                   \E b \in inflated : b \in t.tokens[k].begin ..
                                              t.tokens[k].end - 1}
      mapped == {MapTokenBits(spans, t, t.tokens[k]) : k \in tokens}
      failed == [ok |-> FALSE]
  IN  IF st.stop # "ready" THEN failed
      ELSE IF \/ x >= h.width \/ y >= h.height
              \/ channel >= Channels(h.color) THEN failed
      ELSE IF ~t.ok \/ t.output # st.filtered THEN failed
      ELSE IF \E d \in from : ~d.ok THEN failed
      ELSE IF \E m \in mapped : ~m.ok THEN failed
      ELSE [ok |-> TRUE, inflated |-> inflated, tokens |-> tokens,
            native |-> 2 * ((y * h.width + x) * Channels(h.color) + channel),
            filtered |-> [offset |-> own, bit |-> first % 8,
                          bits |-> h.depth],
            reconstructed |-> [offset |-> y * RowBytes(h, h.width)
                                            + on \div 8,
                               bit |-> on % 8, bits |-> h.depth],
            logical |-> UNION {m.logical : m \in mapped},
            physical |-> UNION {m.physical : m \in mapped}]

-----------------------------------------------------------------------------
(* The sample in the bytes at a place.                                     *)
SampleIn(h, bytes, at, bit) ==
  IF h.depth < 8 THEN SampleBits(bytes, 8 * at + bit, h.depth)
  ELSE IF h.depth = 8 THEN bytes[at + 1]
  ELSE bytes[at + 1] * 256 + bytes[at + 2]

(* The rows that are put together, in the places of the filtered ones.     *)
Undone(st) ==
  LET rows == RowList(st.layout)
  IN  FlattenSeq([k \in DOMAIN rows |->
                    <<0>> \o PassRow(st, rows[k][1], rows[k][2])])

Coordinate(x, y, channel) ==
  [x |-> x, y |-> y, pass |-> 0, row |-> 0, channel |-> <<channel>>,
   packed |-> <<>>, byte |-> <<>>]

Selected(c) == [image |-> <<c>>, identity |-> "static", stage |-> "native"]

(* The places that are told of a sample have it, however it is addressed;  *)
(* an address that does not agree with the image is refused.               *)
CoordinateExact(st, undone, sample, x, y, channel) ==
  LET h == st.header
      c == Coordinate(x, y, channel)
      q == QueryCoordinate(st, Selected(c))
      full == [c EXCEPT !.pass = q.pass, !.row = q.row]
      packed(bit) == [c EXCEPT !.packed = <<[bit |-> bit, bits |-> h.depth]>>]
      byte(n) == QueryCoordinate(st, Selected([c EXCEPT !.byte = <<n>>]))
      value(n) == (sample \div 256^(h.depth \div 8 - 1 - n)) % 256
  IN  /\ q.status = "ready"
      /\ QueryCoordinate(st, Selected(full)) = q
      /\ SampleIn(h, undone, q.filtered, q.filtered_bit) = sample
      /\ SampleIn(h, st.unfiltered, q.unfiltered, q.unfiltered_bit) = sample
      /\ st.native[q.native + 1] = sample
      /\ \A bit \in 0..8 - h.depth :
           QueryCoordinate(st, Selected(packed(bit))) =
             IF h.depth < 8 /\ bit = q.filtered_bit THEN q
             ELSE NoSummary("range")
      /\ \A n \in 0..2 :
           IF n >= h.depth \div 8 THEN byte(n) = NoSummary("range")
           ELSE /\ undone[byte(n).filtered + 1] = value(n)
                /\ st.unfiltered[byte(n).unfiltered + 1] = value(n)
      /\ \A p \in 1..8 : p # q.pass =>
           QueryCoordinate(st, Selected([c EXCEPT !.pass = p])).status
             = "range"
      /\ QueryCoordinate(st, Selected([c EXCEPT !.row = q.row + 1])).status
           = "range"

(* The cells have the samples of the pixels they are said to be; what is   *)
(* before and after a byte is what the cells on the left and above have.   *)
ViewsExact(st, undone, samples, x, y) ==
  LET h == st.header
      native == ProcessView(st, "native", x, y)
      filtered == ProcessView(st, "filtered", x, y)
      v == ProcessView(st, "defiltered", x, y)
      w == ReconstructView(st, x, y, 2)
      pass == st.layout[v.at.pass]
      bytes(channel, dy, dx) == v.cells[channel][dy][dx].bytes
      before(in, channel, dy, dx, lane) ==
        IF v.cells[channel][dy][dx].in
        THEN in = bytes(channel, dy, dx)[lane + 1] ELSE in = 0
      has(cell, channel) ==
        cell.in => SampleIn(h, cell.bytes, 0, cell.bit)
                     = samples[cell.y + 1][cell.x + 1][channel + 1]
  IN  /\ \A channel \in DOMAIN v.cells, dy \in -1..1, dx \in -2..2 :
           LET cell == native.cells[channel][dy][dx]
               put == v.cells[channel][dy][dx]
               raw == filtered.cells[channel][dy][dx]
           IN  /\ has(cell, channel) /\ has(put, channel)
               /\ cell.in <=> /\ x + dx \in 0..h.width - 1
                              /\ y + dy \in 0..h.height - 1
               /\ cell.in => /\ <<cell.x, cell.y>> = <<x + dx, y + dy>>
                             /\ cell.samples = <<samples[cell.y + 1][cell.x
                                                        + 1][channel + 1]>>
               /\ put.in => <<put.x, put.y>> = <<x + dx * pass.x_step,
                                                y + dy * pass.y_step>>
               /\ raw.in = put.in
               /\ raw.in => SubSeq(undone, raw.at + 1, raw.at + Lanes(h))
                              = put.bytes
      /\ Len(v.calculations) = Channels(h.color) * Lanes(h)
      /\ \A k \in DOMAIN v.calculations :
           LET n == v.calculations[k]
               e == n.event
           IN  /\ e.recon = bytes(n.channel, 0, 0)[n.lane + 1]
               /\ e.raw = filtered.cells[n.channel][0][0].bytes[n.lane + 1]
               /\ (e.raw + e.predictor) % 256 = e.recon
               /\ before(e.b, n.channel, -1, 0, n.lane)
               /\ h.depth >= 8 =>
                    /\ before(e.a, n.channel, 0, -1, n.lane)
                    /\ before(e.c, n.channel, -1, -1, n.lane)
      /\ w.status = "ready" /\ w.selected - w.first + 1 \in DOMAIN w.steps
      /\ LET step == w.steps[w.selected - w.first + 1]
         IN  /\ step.recon = undone[w.filtered + 1]
             /\ step.raw = st.filtered[w.filtered + 1]
             /\ h.depth >= 8 => step.recon = st.unfiltered[w.unfiltered + 1]
      /\ st.native[w.sample + 1] = samples[y + 1][x + 1][1]

(* What a sample is made from: its bytes, those its filter takes, and the  *)
(* bits of the file of every token that has one of them.  "The             *)
(* reverse-filter formula may depend on left, previous-row and upper-left  *)
(* bytes" (docs/development/trace-semantics.md:18-22): the code answers    *)
(* this with two exceptions.  A question with a byte on the left is always *)
(* refused, as index - data_index is taken in an unsigned word             *)
(* (pixel_provenance.cpp:213-216); and what is told as the previous row is *)
(* the first row of the pass (lines 225-226), which are the same in its    *)
(* second row alone.                                                       *)
ProvenanceExact(st, spans, t, undone, sample, x, y, channel) ==
  LET h == st.header
      p == Provenance(st, spans, t, x, y, channel)
      q == QueryCoordinate(st, Selected(Coordinate(x, y, channel)))
      span == st.scanlines[q.stream_row + 1]
      row == span.offset + 1
      bpp == FilterBpp(h)
      own == q.filtered .. q.filtered + CeilDiv(h.depth, 8) - 1
      filter == st.filtered[span.offset + 1]
      left == {b - bpp : b \in {c \in own : /\ filter \in {1, 3, 4}
                                           /\ c - bpp >= row}}
      up(rows) == IF filter \in {2, 3, 4} /\ q.row > 0
                  THEN {b - rows * span.length : b \in own} ELSE {}
      corner == {b - span.length : b \in {c \in left : /\ filter = 4
                                                        /\ q.row > 0}}
      formula == own \union left \union up(1) \union corner
      file == BytesOf(spans)
      bits(k) == {8 * file[i \div 8 + 1] + (i % 8) :
                    i \in TokenBits(t, t.tokens[k]).from ..
                          TokenBits(t, t.tokens[k]).to - 1}
  IN  /\ p.ok <=> left = {}
      /\ p.ok =>
           /\ SampleIn(h, undone, p.filtered.offset, p.filtered.bit) = sample
           /\ SampleIn(h, st.unfiltered, p.reconstructed.offset,
                       p.reconstructed.bit) = sample
           /\ st.native[p.native \div 2 + 1] = sample
           /\ p.inflated = IF q.row <= 1 THEN formula
                           ELSE own \union up(q.row)
           /\ p.tokens = {k \in DOMAIN t.tokens :
                            t.tokens[k].begin .. t.tokens[k].end - 1
                              \intersect p.inflated # {}}
           /\ UNION {8 * r.offset + r.bit .. 8 * r.offset + r.bit
                       + r.bits - 1 : r \in p.physical}
                = UNION {bits(k) : k \in p.tokens}
           /\ \A r \in p.physical : r.bit <= 7

(* An analysis ends with everything or nothing: its rows cover the data,   *)
(* what it keeps is within the budget, and one that is stopped says so.    *)
StagesExact(h, data, samples) ==
  LET inflated == [ok |-> TRUE, capped |-> FALSE, bytes |-> data]
      need == WorkingBytes(h, Layout(h))
      st == AnalyzeStages(h, inflated, need, "none")
      steps == {"start", "inflate", "reconstruct", "native"}
      frame(cancelled) ==
        AnalyzeFrame(h, [h EXCEPT !.width = 1, !.height = 1],
                     DeliveryContext(h.color, [k \in 1..768 |-> k % 256],
                                     <<0, 1>>),
                     inflated, 100000, cancelled)
      done == frame("none")
  IN  /\ st.stop = "ready"
      /\ Last(st.scanlines).offset + Last(st.scanlines).length = Len(data)
      /\ \A k \in DOMAIN st.scanlines : k > 1 =>
           st.scanlines[k].offset = st.scanlines[k - 1].offset
                                      + st.scanlines[k - 1].length
      /\ Len(data) + Len(st.unfiltered) + Len(FlattenSeq(st.passes))
           + 2 * Len(st.native) + Len(st.scanlines) * RowMeta
           + Len(st.passes) * PassMeta <= need
      /\ AnalyzeStages(h, inflated, need - 1, "none") = NoStages("budget")
      /\ AnalyzeStages(h, [inflated EXCEPT !.bytes = Tail(@)], need, "none")
           = NoStages("invalid")
      /\ \A c \in steps :
           /\ AnalyzeStages(h, inflated, need, c) = NoStages("cancelled")
           /\ frame(c).stop = "cancelled"
      /\ frame("deliver").stop = "cancelled"
      /\ done.stop = "ready" /\ Len(done.pixels) = h.height
      /\ \A y \in 1..h.height, x \in 1..h.width :
           done.pixels[y][x][4] = 0 =>
             CASE h.color = 0 -> samples[y][x] = <<1>>
               [] h.color = 3 -> samples[y][x] = <<0>>
               [] h.color = 4 -> samples[y][x][2] < 256
               [] h.color = 6 -> samples[y][x][4] < 256
               [] OTHER -> FALSE

(* A part of the image has the samples of it, and of no image before.      *)
ViewportExact(st, samples) ==
  LET h == st.header
      n == Channels(h.color)
      of(x, y, w, height, max) ==
        [stage |-> "native", x |-> x, y |-> y, width |-> w,
         height |-> height, max_samples |-> max]
      other == [st EXCEPT !.native = [k \in DOMAIN @ |-> 70000]]
      asked(v) == QueryViewport(QueryViewport(Provider(<<st>>), v), v)
  IN  \A x \in 0..h.width, y \in 0..h.height, w, height \in 0..2 :
        LET v == of(x, y, w, height, 4 * n)
            r == asked(v).result[1]
        IN  /\ r.status = "ready" <=>
                 w * height > 0 /\ x + w <= h.width /\ y + height <= h.height
            /\ r.samples # <<>> => r.samples =
                 FlattenSeq([k \in 1..w * height |->
                   samples[y + (k - 1) \div w + 1][x + ((k - 1) % w) + 1]])
            /\ Range(QueryViewport(SetStages(asked(v), <<other>>), v)
                      .result[1].samples) \subseteq {70000}
            /\ QueryViewport(SetStages(asked(v), <<>>), v).result
                 = <<NoViewport("no_stage")>>
            /\ r.status = "ready" =>
                 Viewport(<<st>>, of(x, y, w, height, w * height * n - 1))
                   \in {NoViewport("budget"), NoViewport("range")}

(* An image whose k-th row has filter (k + t) % 5, analysed.               *)
Analysed(h, samples, t) ==
  LET data == Encoded(h, samples, t)
      st == AnalyzeStages(h, [ok |-> TRUE, capped |-> FALSE, bytes |-> data],
                          100000, "none")
  IN  [samples |-> samples, data |-> data, st |-> st, undone |-> Undone(st)]

PixelsExact(image, spans, trace) ==
  LET h == image.st.header
      told == [trace EXCEPT !.output = image.data]
  IN  /\ StagesExact(h, image.data, image.samples)
      /\ ViewportExact(image.st, image.samples)
      /\ \A x \in 0..h.width - 1, y \in 0..h.height - 1 :
           /\ ViewsExact(image.st, image.undone, image.samples, x, y)
           /\ \A channel \in 0..Channels(h.color) - 1 :
                LET sample == image.samples[y + 1][x + 1][channel + 1]
                IN  /\ CoordinateExact(image.st, image.undone, sample, x, y,
                                       channel)
                    /\ ProvenanceExact(image.st, spans, told, image.undone,
                                       sample, x, y, channel)
      /\ QueryCoordinate(image.st, Selected(Coordinate(h.width, 0, 0)))
           = NoSummary("range")
=============================================================================
