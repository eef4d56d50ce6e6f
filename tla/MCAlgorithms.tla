---------------------------- MODULE MCAlgorithms ---------------------------
(***************************************************************************)
(* The sequential algorithms of the libraries, each on its own small       *)
(* inputs: Next draws one input for one of them.  The artifact store and   *)
(* the files of the index cache take their own steps.                      *)
(***************************************************************************)
EXTENDS TokenDecoder, DeflateIndex, IndexCodec, Stores, MCPng, MCStatistics,
        MCQueries

VARIABLES kind, drawn, sample

(* A Deflate of two literals and two lengths, with bytes of four bits.     *)
MCLengths == <<<<2, 0>>, <<3, 1>>>>
MCDistances == <<<<1, 0>>, <<2, 1>>, <<4, 1>>>>
MCFixedLiterals == <<2, 2, 2, 3, 4, 4>>
MCFixedDistances == <<2, 2, 2, 2>>
MCCountWidths == <<1, 1, 1>>
MCCodeLengthOrder == <<5, 0, 2, 1, 3, 6, 7, 4>>
MCRepeats == <<<<2, 1, 3>>, <<2, 1, 3>>, <<3, 1, 4>>>>

MCMagic == <<7>>

BitStrings(n) == [1..n -> {0, 1}]

(* Fixed blocks: two literals and three tokens of every kind, with bits    *)
(* that fill the last byte, or any five bits.                              *)
Padded(bits) == bits \o [k \in 1..((-Len(bits)) % ByteBits) |-> 0]

Words ==
  {<<0, 0>>, <<0, 1>>, <<1, 0>>, <<1, 1, 0, 0, 0>>, <<1, 1, 0, 0, 1, 0>>,
   <<1, 1, 0, 0, 1, 1>>, <<1, 1, 1, 0, 0, 0, 1, 0>>, <<1, 1, 1, 0, 1, 0, 0>>,
   <<1, 1, 0, 1, 0, 0>>, <<1, 1, 1, 1>>, <<1, 1, 0, 1, 1>>}

FixedStream ==
  {Padded(<<1, 1, 0, 0, 0, 0, 1>> \o u \o v \o w) : u, v, w \in Words}
  \union {<<1, 1, 0>> \o s : s \in BitStrings(5)}

(* A stored block, of which the second has no data, before a fixed one.    *)
StoredStream ==
  {<<0, 0, 0, p, 1, 0, n, 1, a, b, 0, 1>> \o <<1, 1, 0>> \o s :
     p, n, a, b \in {0, 1}, s \in BitStrings(5)}
  \union {<<0, 0, 0, 0, 0, 0, 1, 1>> \o <<0, 0, 0, 0, 0, 0, 1, 1>>
          \o <<1, 1, 0>> \o s : s \in BitStrings(5)}

(* The alphabet of the code lengths has 1, 2 and "repeat"; six bits give   *)
(* the lengths of two literals, the end, a length and d + 1 distances.     *)
DynamicStream ==
  {<<1, 0, 1>> \o <<1, d, 0>> \o <<0, 1>> \o <<0, 0>> \o <<0, 1>>
     \o <<x, 0>> \o s \o data :
     d, x \in {0, 1}, s \in BitStrings(6),
     data \in {<<0, 0, 1, 1, 0, 1, 0, 0>>, <<1, 1, 0, 1, 1, 1, 0, 0>>}}

Interruptions == {<<0, 0>>, <<2, 0>>, <<4, 0>>, <<5, 0>>, <<0, 2>>,
   <<0, 3>>}

Input(bits, i) == [bits |-> bits, cancel_at |-> i[1], fail_at |-> i[2]]

Quiet(input) == Input(input.bits, <<0, 0>>)

Budgets ==
  {[Unlimited EXCEPT !.rich = FALSE, !.max_tokens = b[1], !.max_output = b[2],
                     !.max_input = b[3], !.stop_at = b[4]] :
     b \in {<<0, 0, 0, 0>>, <<1, 0, 0, 0>>, <<0, 1, 0, 0>>,
            <<0, 2, 0, 0>>, <<0, 0, 2, 0>>, <<0, 0, 0, 2>>}}

Wrapped == [size |-> 20, cm |-> 8, fcheck_ok |-> TRUE, cinfo |-> 7,
            fdict |-> FALSE, too_large |-> FALSE]

TokenSamples ==
  [input : {Input(bits, <<0, 0>>) :
              bits \in FixedStream \union StoredStream},
   opts : Budgets, w : {Wrapped}]
  \union
  [input : {Input(bits, i) :
              bits \in DynamicStream \union StoredStream \union
                {Padded(<<1, 1, 0, 0, 0, 0, 1>> \o u \o <<1, 0>>) :
                   u \in Words},
              i \in Interruptions},
   opts : {[Unlimited EXCEPT !.rich = FALSE]},
   w : {Wrapped}]
  \union
  [input : {Input(Padded(<<1, 1, 0, 0, 0, 0, 1, 1, 0>>), <<0, 0>>)},
   opts : Budgets,
   w : {[size |-> z, cm |-> c, fcheck_ok |-> f, cinfo |-> i, fdict |-> d,
         too_large |-> FALSE] :
          z \in {1, 2, 5, 6, 8, 9, 10}, c \in {7, 8}, f, d \in BOOLEAN,
          i \in {7, 8}}]

CodeSamples == [1..4 -> 0..3]

(* Streams of up to two blocks, whole, cut, corrupt or with a bad end.     *)
Blocks(n) ==
  {[k \in 1..n |-> [bits |-> b[k][1], bytes |-> b[k][2], fault |-> f[k],
                    last |-> k = n, type |-> b[k][1] % 3]] :
     b \in [1..n -> {<<8, 0>>, <<5, 3>>, <<8, 4>>}],
     f \in [1..n -> {0, 3, 4}]}

Streams ==
  {[header |-> h, blocks |-> bs, adler_ok |-> a, size |-> z] :
     h \in {"ok"}, bs \in Blocks(1) \union Blocks(2) \union
       {<<bs[1]>> \o <<[bs[1] EXCEPT !.bits = 3]>> \o <<bs[2]>> :
          bs \in {t \in Blocks(2) : t[1].fault = 0}},
     a \in BOOLEAN, z \in {7, 8, 20}}
  \union
  {[header |-> h, blocks |-> <<[bits |-> 5, bytes |-> 1, fault |-> 0,
                               last |-> TRUE, type |-> 1]>>,
    adler_ok |-> TRUE, size |-> z] : h \in {"dict", "bad"}, z \in {1, 2, 9}}

(* What there is of a stream is no more than all of it.                    *)
Present(s) ==
  LET whole == SegmentEnd(s, Len(s.blocks) + 1) \div ByteBits
  IN  [s EXCEPT !.size = Least(@, whole)]

NoLimits == [max_input |-> 0, max_output |-> 0, max_blocks |-> 0,
             max_retained |-> 0, cancel_at |-> 0, fail_at |-> 0]

Limits ==
  {NoLimits, [NoLimits EXCEPT !.max_input = 4],
   [NoLimits EXCEPT !.max_output = 4], [NoLimits EXCEPT !.max_blocks = 1],
   [NoLimits EXCEPT !.max_retained = 2], [NoLimits EXCEPT !.max_retained = 4],
   [NoLimits EXCEPT !.cancel_at = 5], [NoLimits EXCEPT !.cancel_at = 8],
   [NoLimits EXCEPT !.fail_at = 3]}

ScanSamples == [s : {Present(s) : s \in Streams}, o : Limits]

IndexSamples ==
  [s : {Present(s) : s \in Streams}, cap : {5, 20}, interval : {0, 2, 4},
   budget : {0, 2, 4}]

(* Data with everything in range, and some where one field is not, a list  *)
(* is empty or the points are out of order.                                *)
CodecBlocks ==
  {<<0, 2, 1, 3, 9, 0, 4>>, <<1, 0, 0, 9, 9, 4, 4>>, <<0, 3, 0, 1, 2, 3, 4>>,
   <<0, 1, 2, 1, 2, 3, 4>>, <<0, 1, 0, 2, 1, 3, 4>>, <<0, 1, 0, 2, 3, 4, 3>>}

CodecPoint(f, d) == [fields |-> f, dictionary |-> d]

CodecPoints ==
  {<<>>} \union [1..1 -> {CodecPoint(<<0, q, 1, 0>>, d) : q \in {7, 8},
                                                    d \in {<<>>, <<5>>}}]
  \union {<<CodecPoint(<<0, 0, 1, 0>>, <<>>),
            CodecPoint(<<1, 3, 1, 10>>, <<1, 8>>), CodecPoint(f, d)>> :
            f \in {<<2, 1, 1, 12>>, <<2, 1, 1, 9>>}, d \in {<<>>, <<1, 2, 3>>}}

Optionals == {<<<<>>, <<>>, <<>>, <<>>>>, <<<<1>>, <<>>, <<10>>, <<>>>>,
              <<<<>>, <<8>>, <<>>, <<80>>>>}

CodecSamples ==
  [blocks : {<<>>} \union [1..1 -> CodecBlocks] \union
            {<<<<0, 0, 0, 1, 2, 3, 4>>, <<0, 2, 1, 3, 9, 0, 4>>>>},
   head : {<<16, 4, 8, 7, 1, 2, 1, 0, 2>>,
           <<16, 4, 8, 7, 1, 2, 0, 1, 3>>},
   optionals : Optionals, points : CodecPoints,
   foot : {<<10, 8, 7, 1>>, <<1, 0, 0, 0>>}]

Draw(k, samples) ==
  /\ kind = k /\ ~drawn
  /\ drawn' = TRUE /\ sample' \in samples
  /\ UNCHANGED <<kind, storesVars>>

Init ==
  /\ kind \in {"tokens", "code", "blocks", "index", "codec", "file", "stream",
              "detail", "number",
              "layout", "filter", "image", "pixel", "blend",
              "counts", "export",
              "occurrence", "canvas", "query",
              "store", "cache"}
  /\ drawn = FALSE /\ sample = 0
  /\ StoresInit

Next == \/ Draw("tokens", TokenSamples)
        \/ Draw("code", CodeSamples)
        \/ Draw("blocks", ScanSamples)
        \/ Draw("index", IndexSamples)
        \/ Draw("codec", CodecSamples)
        \/ Draw("file", FileSamples)
        \/ Draw("stream", SpanSamples)
        \/ Draw("detail", DetailSamples)
        \/ Draw("number", NumberSamples)
        \/ Draw("layout", LayoutSamples)
        \/ Draw("filter", NeighborSamples)
        \/ Draw("image", ImageSamples)
        \/ Draw("pixel", PixelSamples)
        \/ Draw("blend", BlendSamples)
        \/ Draw("counts", CountSamples)
        \/ Draw("export", ExportSamples)
        \/ Draw("occurrence", OccurrenceSamples)
        \/ Draw("canvas", CanvasSamples)
        \/ Draw("query", PixelQuerySamples)
        \/ /\ kind = "store" /\ StoreNext
           /\ UNCHANGED <<kind, drawn, sample, cacheVars>>
        \/ /\ kind = "cache" /\ CacheNext
           /\ UNCHANGED <<kind, drawn, sample, storeVars>>

drawVars == <<kind, drawn, sample, storesVars>>

Spec == Init /\ [][Next]_drawVars

-----------------------------------------------------------------------------
(* The step that draws an input: the properties look at what it drew.      *)
Drawn(k) == kind = k /\ ~drawn /\ drawn'

(* What is asked of the largest computations, as a function of the input,  *)
(* so that a result that is named twice is computed once.                  *)
ScansExactly ==
  [t \in TokenSamples |->
     /\ TokensExact(TokenDecode(t.w, Quiet(t.input), 7))
     /\ ScanExact(ScanTokens(t.w, t.input, t.opts), t.opts,
                  TokenDecode(t.w, Quiet(t.input), 0))]

CountsExactly ==
  [c \in CountSamples |-> StatisticsExact(c.how, c.r, CountsOf(c))]

ExportsExactly ==
  [e \in ExportSamples |->
     /\ ExportExact(e.d, Export(e.d, <<<<"1">>>>), <<<<"1">>>>)
     /\ FrameExportExact(e.d, e.f)]

(* The rich decode is exact; a scan under budgets, an observer, a          *)
(* cancellation or a failed read has told a prefix of it, with totals that *)
(* agree; and the codes are the canonical ones (token_decoder.cpp).        *)
TokensAreExact ==
  [][/\ Drawn("tokens") => ScansExactly[sample']
     /\ Drawn("code") => CodeExact(sample', 3)]_drawVars

(* The block list is that of the stream as far as it was read, within its  *)
(* budgets; a range taken from the nearest snapshot is that of the whole   *)
(* stream; and the bytes of an index that are read back give the index or  *)
(* an error (block_index.cpp, session_index.cpp, index_cache.cpp).         *)
IndexesAreExact ==
  [][/\ Drawn("blocks") =>
           BlocksExact(sample'.s, sample'.o, ScanBlocks(sample'.s, sample'.o))
     /\ Drawn("index") =>
           IndexesExact(sample'.s, sample'.cap, sample'.interval,
                        sample'.budget)
     /\ Drawn("codec") => CodecExact(<<3>>, <<4>>, sample')]_drawVars

(* The chunks and the animation that are told are those of the file as far *)
(* as it is whole and the limits allow, and the streams over their data    *)
(* give every range its bytes; what is told of a chunk is all of it        *)
(* (chunk_index.cpp, animation_index.cpp, virtual_idat_stream.cpp,         *)
(* virtual_frame_stream.cpp, chunk_detail.cpp).                            *)
ContainersAreExact ==
  [][/\ Drawn("file") =>
           /\ ChunksExact(sample'.f, sample'.lim)
           /\ AnimationExact(sample'.f, sample'.lim)
     /\ Drawn("stream") => StreamExact(sample')
     /\ Drawn("detail") => DetailExact(sample')
     /\ Drawn("number") => ScaledExact(sample', 2)]_drawVars

(* The comment on prime_bits (access_points.h 28): a range taken from the  *)
(* nearest access point is that of the whole stream.                       *)
ExtractionsAreExact ==
  [][Drawn("index") =>
       ExtractionExact(sample'.s, sample'.cap, sample'.interval)]_drawVars

(* The scanlines of a header cover its pixels once; an image that is       *)
(* filtered row by row, in passes or not, is put together again sample by  *)
(* sample and delivered with its colors and its alpha; and a pixel is put  *)
(* over another between the two (png-reconstruction).                      *)
ImagesAreExact ==
  [][/\ Drawn("layout") => LayoutExact(sample')
     /\ Drawn("filter") => FilterExact(sample')
     /\ Drawn("image") =>
           ReconstructExact(sample'.h, sample'.samples, sample'.t)
     /\ Drawn("pixel") =>
           DeliverExact(sample'.h, sample'.samples, sample'.context)
     /\ Drawn("blend") => OverExact(sample'.source, sample'.canvas)]_drawVars

(* Every section of the statistics has counted what it says it has, its    *)
(* totals are those of its buckets, it is complete only when everything    *)
(* was counted, and the JSON and the CSV tell the same numbers, each of    *)
(* them known (statistics.cpp, statistics_adapter.cpp,                     *)
(* statistics_collector.cpp, serialization_sections.cpp).  Two things are  *)
(* not as their comments say and are stated as the code has them, exactly: *)
(* after an overflow the part of the rejected sample that did fit stays in *)
(* the numbers (statistics.h:202-207 has the update of a match "atomic"    *)
(* and the totals a "verified prefix"; see LeftBy), and the overview of a  *)
(* document is ready with the IDATs of a scan of the chunks that stopped   *)
(* (statistics_collector.cpp:602-605 asks for "fully verified scans"; see  *)
(* ReadyTotals).                                                           *)
CountsAreExact ==
  [][/\ Drawn("counts") => CountsExactly[sample']
     /\ Drawn("export") => ExportsExactly[sample']]_drawVars

(* The place in the file that is told for a bucket is that of the nearest  *)
(* occurrence, and none only when there is none; the value of a pixel of   *)
(* the canvas is traced to the frames that made it, page by page; and the  *)
(* places and the bytes that are told of a sample of an image are the ones *)
(* that have it and that it is made from                                   *)
(* (statistics_occurrence_query.cpp, canvas_pixel_query.cpp,               *)
(* coordinate_query.cpp, stage_analysis.cpp and the views of a pixel).     *)
(* Five things are not as the comments and documents quoted at ReadOf,     *)
(* AllOccurrences, OccurrenceExact and ProvenanceExact have them, and are  *)
(* stated as the code does them, exactly: the previous occurrence of a     *)
(* scan whose read failed is the last that was read; the fcTL of a frame   *)
(* of IDATs is said not to be there; the header that is told of an fdAT is *)
(* its type and its sequence number; the bytes of a sample with one on its *)
(* left are refused; and the previous row is the first one of the pass.    *)
QueriesAreExact ==
  [][/\ Drawn("occurrence") =>
           OccurrenceExact(sample'.s, sample'.q, sample'.stop)
     /\ Drawn("canvas") => CanvasExact(sample'.d, sample'.r, sample'.lim)
     /\ Drawn("query") =>
           PixelsExact(sample'.image, sample'.spans, sample'.trace)]_drawVars

=============================================================================
