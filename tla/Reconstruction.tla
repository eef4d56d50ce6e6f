--------------------------- MODULE Reconstruction ---------------------------
(***************************************************************************)
(* From filtered bytes to pixels: the layout of the scanlines              *)
(* (scanline_layout.cpp), the reverse filters (reverse_filter.cpp), the    *)
(* image put together from its passes (pass_reconstruction.cpp,            *)
(* bit_util.h), its samples (native_samples.cpp), the pixels of 8 bits     *)
(* (rgba_delivery.cpp) and how one pixel is put on another                 *)
(* (canvas_composition.cpp).                                               *)
(*                                                                         *)
(* A header h has width, height, depth, color and interlace.  Bytes are    *)
(* 0..255; products do not reach the limits of the code's words.           *)
(***************************************************************************)
EXTENDS Integers, Sequences, SequencesExt

ValidDepth(depth) == depth \in {1, 2, 4, 8, 16}
ValidColor(color) == color \in {0, 2, 3, 4, 6}

Channels(color) ==
  CASE color \in {0, 3} -> 1 [] color = 2 -> 3 [] color = 4 -> 2
    [] color = 6 -> 4 [] OTHER -> 0

CeilDiv(value, div) == (value + div - 1) \div div

PixelBits(h) == Channels(h.color) * h.depth

RowBytes(h, width) == CeilDiv(width * PixelBits(h), 8)

FilterBpp(h) == CeilDiv(PixelBits(h), 8)

-----------------------------------------------------------------------------
(* Adam7: where each pass starts and its steps, x before y.                *)
Adam7 == <<<<0, 0, 8, 8>>, <<4, 0, 8, 8>>, <<0, 4, 4, 8>>, <<2, 0, 4, 4>>,
           <<0, 2, 2, 4>>, <<1, 0, 2, 2>>, <<0, 1, 1, 2>>>>

(* Wrong: what is left over does not make a row or a column.               *)
PassExtentFloor(full, start, step) ==
  IF full <= start THEN 0 ELSE (full - start) \div step

PassExtent(full, start, step) ==
  IF full <= start THEN 0 ELSE CeilDiv(full - start, step)

(* A pass without columns has no rows, either.                             *)
PassOf(h, p) ==
  LET grid == IF h.interlace THEN Adam7[p] ELSE <<0, 0, 1, 1>>
      width == PassExtent(h.width, grid[1], grid[3])
      height == PassExtent(h.height, grid[2], grid[4])
      empty == width = 0 \/ height = 0
  IN  [x_start |-> grid[1], y_start |-> grid[2], x_step |-> grid[3],
       y_step |-> grid[4],
       width |-> IF empty THEN 0 ELSE width,
       height |-> IF empty THEN 0 ELSE height,
       row_bytes |-> IF empty THEN 0 ELSE RowBytes(h, width)]

ValidHeader(h) ==
  ValidDepth(h.depth) /\ ValidColor(h.color) /\ h.width # 0 /\ h.height # 0

Layout(h) == [p \in 1..IF h.interlace THEN 7 ELSE 1 |-> PassOf(h, p)]

TotalBytes(layout) ==
  FoldLeft(LAMBDA sum, pass : sum + pass.height * (pass.row_bytes + 1), 0,
           layout)

TotalPixels(layout) ==
  FoldLeft(LAMBDA sum, pass : sum + pass.width * pass.height, 0, layout)

-----------------------------------------------------------------------------
Distance(a, b) == IF a < b THEN b - a ELSE a - b

(* Wrong: of two that are as close, the later is taken.                    *)
PaethLast(a, b, c) ==
  LET p == a + b - c
  IN  IF Distance(p, a) < Distance(p, b) /\ Distance(p, a) < Distance(p, c)
      THEN a
      ELSE IF Distance(p, b) < Distance(p, c) THEN b ELSE c

PaethPredictor(a, b, c) ==
  LET p == a + b - c
  IN  IF Distance(p, a) <= Distance(p, b) /\ Distance(p, a) <= Distance(p, c)
      THEN a
      ELSE IF Distance(p, b) <= Distance(p, c) THEN b ELSE c

(* Wrong: the sum of the average is kept in a byte.                        *)
PredictorInBytes(type, a, b, c) ==
  CASE type = 0 -> 0 [] type = 1 -> a [] type = 2 -> b
    [] type = 3 -> ((a + b) % 256) \div 2
    [] type = 4 -> PaethPredictor(a, b, c)

PredictorValue(type, a, b, c) ==
  CASE type = 0 -> 0 [] type = 1 -> a [] type = 2 -> b
    [] type = 3 -> (a + b) \div 2
    [] type = 4 -> PaethPredictor(a, b, c)

(* unfilter_scanline(): prev is empty for the first row of a pass.         *)
Unfilter(type, raw, prev, bpp) ==
  LET out[n \in 0..Len(raw)] ==
        IF n = 0 THEN <<>>
        ELSE LET done == out[n - 1]
                 a == IF n > bpp THEN done[n - bpp] ELSE 0
                 b == IF n <= Len(prev) THEN prev[n] ELSE 0
                 c == IF n > bpp /\ n <= Len(prev) THEN prev[n - bpp] ELSE 0
             IN  Append(done,
                        (raw[n] + PredictorValue(type, a, b, c)) % 256)
  IN  out[Len(raw)]

-----------------------------------------------------------------------------
SampleBits(row, at, bits) ==
  (row[at \div 8 + 1] \div 2^(8 - (at % 8) - bits)) % 2^bits

PutSampleBits(row, at, bits, value) ==
  LET weight == 2^(8 - (at % 8) - bits)
  IN  [row EXCEPT ![at \div 8 + 1] =
         @ + (value - SampleBits(row, at, bits)) * weight]

(* One pixel from a row of a pass to the row of the image.                 *)
PlacePixel(h, target, x, row, sx) ==
  LET bytes == PixelBits(h) \div 8
  IN  IF h.depth < 8
      THEN PutSampleBits(target, x * h.depth, h.depth,
                     SampleBits(row, sx * h.depth, h.depth))
      ELSE [k \in DOMAIN target |->
              IF k \in x * bytes + 1 .. (x + 1) * bytes
              THEN row[sx * bytes + k - x * bytes] ELSE target[k]]

PlaceRow(h, target, pass, row) ==
  FoldLeft(LAMBDA t, sx : PlacePixel(h, t, pass.x_start + sx * pass.x_step,
                                     row, sx),
           target, [sx \in 1..pass.width |-> sx - 1])

(* The rows in the order of the data: the pass and the row of the pass.    *)
RowList(layout) ==
  FlattenSeq([p \in DOMAIN layout |->
                [r \in 1..layout[p].height |-> <<p, r - 1>>]])

Zeros(n) == [k \in 1..n |-> 0]

NoImage(why) == [status |-> why, target |-> <<>>, passes |-> <<>>]

(* The questions whether to stop: one first, one per pass, one per row.    *)
Questions(rows, k) == 1 + rows[k][1] + k

(* reconstruct_image(): "cancelled" is the question that is answered yes,  *)
(* 0 for none.                                                             *)
ReconstructRow(h, layout, rows, filtered, cancelled, s, k) ==
  LET pass == layout[rows[k][1]]
      row == Unfilter(filtered[s.cursor + 1],
                      SubSeq(filtered, s.cursor + 2,
                             s.cursor + 1 + pass.row_bytes),
                      IF rows[k][2] = 0 THEN <<>> ELSE s.prev, FilterBpp(h))
      y == pass.y_start + rows[k][2] * pass.y_step
  IN  IF s.status # "ok" THEN s
      ELSE IF cancelled \in 1..Questions(rows, k)
      THEN [s EXCEPT !.status = "cancelled"]
      ELSE IF filtered[s.cursor + 1] > 4
      THEN [s EXCEPT !.status = "filter"]
      ELSE [s EXCEPT !.cursor = @ + pass.row_bytes + 1, !.prev = row,
                     !.passes[rows[k][1]] = @ \o row,
                     !.target[y + 1] = PlaceRow(h, @, pass, row)]

Reconstruct(h, layout, filtered, cancelled) ==
  LET rows == RowList(layout)
      blank == [y \in 1..h.height |-> Zeros(RowBytes(h, h.width))]
      start == [status |-> "ok", cursor |-> 0, prev |-> <<>>,
                passes |-> [p \in DOMAIN layout |-> <<>>], target |-> blank]
      s == FoldLeft(LAMBDA t, k : ReconstructRow(h, layout, rows, filtered,
                                                 cancelled, t, k),
                    start, [k \in DOMAIN rows |-> k])
  IN  IF cancelled = 1 THEN NoImage("cancelled")
      ELSE IF ~ValidHeader(h) \/ Len(filtered) # TotalBytes(layout)
      THEN NoImage("header")
      ELSE IF s.status # "ok" THEN NoImage(s.status)
      ELSE IF cancelled \in 1..1 + Len(layout) + Len(rows)
      THEN NoImage("cancelled")
      ELSE [status |-> "ok", target |-> s.target, passes |-> s.passes]

-----------------------------------------------------------------------------
(* extract_native_samples(): big-endian samples, padding is not read.      *)
SampleAt(h, row, n) ==
  IF h.depth < 8 THEN SampleBits(row, n * h.depth, h.depth)
  ELSE IF h.depth = 8 THEN row[n + 1]
  ELSE row[2 * n + 1] * 256 + row[2 * n + 2]

NativeSamples(h, target) ==
  [y \in 1..h.height |->
     [x \in 1..h.width |->
        [c \in 1..Channels(h.color) |->
           SampleAt(h, target[y], (x - 1) * Channels(h.color) + c - 1)]]]

ValidCombo(depth, color) ==
  \/ color = 0 /\ ValidDepth(depth)
  \/ color \in {2, 4, 6} /\ depth \in {8, 16}
  \/ color = 3 /\ depth \in {1, 2, 4, 8}

ToByte(sample, depth) ==
  IF depth = 16 THEN sample \div 256
  ELSE (sample * 255) \div (2^depth - 1)

(* The palette is only of a color 3, the transparent color of 0 and 2.     *)
AlphaOf(context, sample) == IF sample = context.transparent THEN 0 ELSE 255

RgbaPixel(h, context, sample) ==
  LET v == [c \in DOMAIN sample |-> ToByte(sample[c], h.depth)]
  IN  CASE h.color = 0 ->
             <<v[1], v[1], v[1], AlphaOf(context, sample)>>
        [] h.color = 2 ->
             <<v[1], v[2], v[3], AlphaOf(context, sample)>>
        [] h.color = 3 ->
             Append(context.palette[sample[1] + 1],
                    IF sample[1] < Len(context.alphas)
                    THEN context.alphas[sample[1] + 1] ELSE 255)
        [] h.color = 4 -> <<v[1], v[1], v[1], v[2]>>
        [] h.color = 6 -> v

InPalette(h, context, samples) ==
  h.color = 3 => \A y \in DOMAIN samples : \A x \in DOMAIN samples[y] :
                   samples[y][x][1] < Len(context.palette)

(* deliver_rgba8(): the questions are one first, one per row, one last.    *)
Deliver(h, samples, context, max_bytes, cancelled) ==
  LET bad == {y \in DOMAIN samples :
                ~InPalette(h, context, SubSeq(samples, y, y))}
      asked == IF bad = {} THEN h.height + 2
               ELSE 1 + CHOOSE y \in bad : \A z \in bad : y <= z
  IN  IF cancelled = 1 THEN NoImage("cancelled")
      ELSE IF ~ValidCombo(h.depth, h.color) THEN NoImage("header")
      ELSE IF h.width * h.height * 4 > max_bytes THEN NoImage("limit")
      ELSE IF h.color = 3 /\ context.palette = <<>> THEN NoImage("palette")
      ELSE IF cancelled \in 1..asked THEN NoImage("cancelled")
      ELSE IF bad # {} THEN NoImage("palette")
      ELSE [status |-> "ok",
            target |-> [y \in 1..h.height |->
                          [x \in 1..h.width |->
                             RgbaPixel(h, context, samples[y][x])]]]

-----------------------------------------------------------------------------
(* blend_into() with kOver for one pixel; c is a channel.                  *)
Over(source, canvas) ==
  LET sa == source[4]
      da == canvas[4]
      den == sa * 255 + da * (255 - sa)
      mix(c) == source[c] * sa * 255 + canvas[c] * da * (255 - sa)
  IN  [c \in 1..4 |->
         IF c = 4 THEN (den + 127) \div 255
         ELSE IF den = 0 THEN 0 ELSE (mix(c) + den \div 2) \div den]

-----------------------------------------------------------------------------
(* Every pixel is in one pass and the passes have nothing else.            *)
LayoutExact(h) ==
  LET layout == Layout(h)
      at(p) == {<<layout[p].x_start + sx * layout[p].x_step,
                  layout[p].y_start + r * layout[p].y_step>> :
                  sx \in 0..layout[p].width - 1,
                  r \in 0..layout[p].height - 1}
  IN  /\ UNION {at(p) : p \in DOMAIN layout} =
           (0..h.width - 1) \X (0..h.height - 1)
      /\ TotalPixels(layout) = h.width * h.height

(* The filters undone by their definition: the value of Paeth is that of   *)
(* the three that is closest, the first of those as close.                 *)
Closest(a, b, c) ==
  LET v == <<a, b, c>>
      far == [k \in 1..3 |-> IF a + b - c < v[k] THEN v[k] - (a + b - c)
                             ELSE a + b - c - v[k]]
  IN  v[CHOOSE k \in 1..3 : /\ \A j \in 1..3 : far[k] <= far[j]
                            /\ \A j \in 1..k - 1 : far[j] # far[k]]

Predicted(type, a, b, c) ==
  <<0, a, b, (a + b) \div 2, Closest(a, b, c)>>[type + 1]

FilterExact(n) ==
  \A type \in 0..4 : PredictorValue(type, n[1], n[2], n[3])
                      = Predicted(type, n[1], n[2], n[3])

FilterRow(type, row, prev, bpp) ==
  LET before(of, n) == IF n > 0 /\ n <= Len(of) THEN of[n] ELSE 0
  IN  [n \in DOMAIN row |->
         (row[n] - Predicted(type, before(row, n - bpp), before(prev, n),
                             before(prev, n - bpp))) % 256]

(* The bytes of a row of pixels, as its bits one after the other.          *)
BitsOf(value, depth) == [k \in 1..depth |-> (value \div 2^(depth - k)) % 2]

PackRow(pixels, depth) ==
  LET bits == FlattenSeq([x \in DOMAIN pixels |->
                FlattenSeq([c \in DOMAIN pixels[x] |->
                  BitsOf(pixels[x][c], depth)])])
      bit(k) == IF k <= Len(bits) THEN bits[k] ELSE 0
  IN  [n \in 1..CeilDiv(Len(bits), 8) |->
         FoldLeft(LAMBDA v, k : 2 * v + bit(8 * (n - 1) + k), 0,
                  [k \in 1..8 |-> k])]

(* The filtered bytes of an image; the k-th row has filter (k + t) % 5.    *)
Encoded(h, samples, t) ==
  LET layout == Layout(h)
      rows == RowList(layout)
      packed == [k \in DOMAIN rows |->
        LET pass == layout[rows[k][1]]
            y == pass.y_start + rows[k][2] * pass.y_step
        IN  PackRow([x \in 1..pass.width |->
                       samples[y + 1][pass.x_start + (x - 1) * pass.x_step
                                      + 1]], h.depth)]
  IN  FlattenSeq([k \in DOMAIN rows |->
        <<(k + t) % 5>> \o
        FilterRow((k + t) % 5, packed[k],
                  IF rows[k][2] = 0 THEN <<>> ELSE packed[k - 1],
                  FilterBpp(h))])

(* An image that is filtered, in passes or not, comes back sample by       *)
(* sample; and nothing of it is told of data that is not whole or that is  *)
(* cancelled on the way.                                                   *)
ReconstructExact(h, samples, t) ==
  LET layout == Layout(h)
      data == Encoded(h, samples, t)
      r == Reconstruct(h, layout, data, 0)
      odd == Reconstruct(h, layout, [data EXCEPT ![1] = 5], 0)
      rows == Len(RowList(layout))
  IN  /\ TotalBytes(layout) = Len(data)
      /\ r.status = "ok" /\ NativeSamples(h, r.target) = samples
      /\ odd = NoImage("filter")
      /\ Reconstruct(h, layout, Tail(data), 0) = NoImage("header")
      /\ \A n \in {1, 3, 1 + Len(layout) + rows} :
           Reconstruct(h, layout, data, n) = NoImage("cancelled")

(* A pixel that is delivered has four bytes; black and white stay, levels  *)
(* keep their order and the alpha is that of the file.                     *)
DeliverExact(h, samples, context) ==
  LET d == Deliver(h, samples, context, 1000, 0)
      max == 2^h.depth - 1
  IN  /\ d.status = "ok" <=> InPalette(h, context, samples)
      /\ d.status # "ok" => d.target = <<>>
      /\ d.status = "ok" => \A y \in 1..h.height, x \in 1..h.width :
           LET px == d.target[y][x]
               s == samples[y][x]
           IN  /\ Len(px) = 4 /\ \A c \in 1..4 : px[c] \in 0..255
               /\ h.color # 3 =>
                    /\ \A c \in 1..Len(s) :
                         /\ s[c] = 0 => px[IF Len(s) = 2 /\ c = 2 THEN 4
                                           ELSE c] = 0
                         /\ s[c] = max => px[IF Len(s) = 2 /\ c = 2 THEN 4
                                             ELSE c] = 255
                    /\ h.color \in {0, 2} =>
                         (px[4] = 0 <=> s = context.transparent)
      /\ Deliver(h, samples, context, h.width * h.height * 4 - 1, 0).target
           = <<>>

(* What is opaque covers, what is clear changes nothing that is seen, and  *)
(* the result is between the two.                                          *)
OverExact(source, canvas) ==
  LET r == Over(source, canvas)
  IN  /\ source[4] = 255 => r = source
      /\ source[4] = 0 /\ canvas[4] # 0 => r = canvas
      /\ \A c \in 1..3 : source[4] + canvas[4] > 0 =>
           \/ r[c] \in source[c]..canvas[c]
           \/ r[c] \in canvas[c]..source[c]
      /\ r[4] >= source[4] /\ r[4] >= canvas[4] /\ r[4] <= 255
=============================================================================
