----------------------------- MODULE MCQueries ------------------------------
(* Inputs for the queries about an analysed file.                          *)
EXTENDS CanvasQuery, PixelQueries, Occurrences, MCPng

(* Animations of three frames that have the pixel or not, with pages so    *)
(* small that the query is cut at every place.                             *)

CanvasFrame(x, blend, dispose, ok) ==
  [x |-> x, y |-> 0, width |-> 2, height |-> 1, blend |-> blend,
   dispose |-> dispose, ok |-> ok]

CanvasFrames ==
  {CanvasFrame(x, b, o, TRUE) :
     x \in {0, 2}, b \in {"source", "over"},
     o \in {"none", "background", "previous"}}

CanvasDocument(frames) == [canvas |-> <<4, 1>>, frames |-> frames]

PageLimits(nodes, history, bytes, pending) ==
  [nodes |-> nodes, history |-> history, bytes |-> bytes,
   pending |-> pending]

CanvasLimits ==
  {PageLimits(4096, 1024, 32768, 1024), PageLimits(1, 1024, 32768, 1024),
   PageLimits(2, 1024, 32768, 1024), PageLimits(4096, 1, 32768, 1024),
   PageLimits(4096, 1024, 1, 1024), PageLimits(4096, 1024, 2, 1024)}

CanvasRequest(frame, stage, x, cancel_at) ==
  [frame |-> frame, stage |-> stage, x |-> x, y |-> 0, cursor |-> <<>>,
   cancel_at |-> cancel_at]

CanvasSamples ==
  [d : {CanvasDocument(f) : f \in CanvasFrames \X CanvasFrames \X
          {f \in CanvasFrames : f.blend = "over"}},
   r : {CanvasRequest(2, s, 1, 0) : s \in CanvasStages},
   lim : CanvasLimits]
  \union
  [d : {CanvasDocument(<<CanvasFrame(0, "over", o, ok),
                         CanvasFrame(x, "over", "none", TRUE)>>) :
          o \in {"none", "previous"}, x \in {0, 2}, ok \in BOOLEAN},
   r : {CanvasRequest(n, s, 1, c) :
          n \in -1..2, s \in CanvasStages, c \in 0..8},
   lim : {PageLimits(4096, 1024, 32768, 1024),
          PageLimits(2, 1024, 32768, 1024)}]

-----------------------------------------------------------------------------
(* Small images, plain and interlaced, with tokens of one and of two bytes *)
(* in a file whose segments end inside a token.                             *)

PixelTokens(bytes) ==
  [k \in 1..(2 * bytes) \div 3 + 1 |->
     [from |-> 5 * (k - 1), to |-> 5 * k, begin |-> (3 * (k - 1)) \div 2,
      end |-> (3 * k) \div 2]]

PixelSegments(bytes) ==
  <<[offset |-> 9, length |-> 3], [offset |-> 20, length |-> 1],
    [offset |-> 40, length |-> 4], [offset |-> 60, length |-> bytes]>>

PixelTrace(bytes) ==
  [ok |-> TRUE, output |-> <<>>, data_begin |-> 2,
   tokens |-> PixelTokens(bytes)]

PixelQuerySamples ==
  LET headers == {HeaderOf(s[1], s[2], combo, i) :
                    s \in {<<1, 3>>, <<5, 3>>}, combo \in Combos,
                    i \in BOOLEAN}
      sample(h, t) ==
        [image |-> Analysed(h, SamplesOf(h, <<97, 55, 29, 3>>), t),
         spans |-> PixelSegments(TotalBytes(Layout(h))),
         trace |-> PixelTrace(TotalBytes(Layout(h)))]
  IN  {sample(h, t) : h \in headers, t \in {0, 2, 3}}

-----------------------------------------------------------------------------
(* Streams of three blocks, some of them without output, in one span or in *)
(* more.                                                                   *)

OccToken(kind, bits, out, length, distance) ==
  [kind |-> kind, bits |-> bits, out |-> out, length |-> length,
   distance |-> distance]

OccLiteral(bits) == OccToken("literal", bits, 1, 0, 0)
OccMatch(bits, length, distance) ==
  OccToken("match", bits, length, length, distance)
OccEob(bits) == OccToken("eob", bits, 0, 0, 0)

OccBlock(type, header, tokens) ==
  [type |-> type, header |-> header, tokens |-> tokens]

OccFixed(tokens) == OccBlock("fixed", 3, tokens \o <<OccEob(7)>>)
OccStored(n) ==
  OccBlock("stored", 0, [k \in 1..n |-> OccLiteral(8)] \o <<OccEob(0)>>)
OccDynamic(header, tokens) ==
  OccBlock("dynamic", header, tokens \o <<OccEob(2)>>)

OccBlockLists ==
  {<<OccFixed(<<OccLiteral(8), OccMatch(12, 3, 1)>>),
     OccDynamic(21, <<OccLiteral(3), OccMatch(5, 2, 4)>>)>>,
   <<OccStored(2), OccStored(0), OccFixed(<<OccLiteral(9)>>)>>,
   <<OccFixed(<<>>), OccFixed(<<>>), OccDynamic(30, <<OccMatch(4, 3, 1)>>)>>,
   <<OccDynamic(20, <<OccLiteral(1), OccLiteral(1)>>), OccStored(1),
     OccStored(0)>>}

OccSpan(offset, length, type) ==
  [offset |-> offset, length |-> length, type |-> type]

OccSpans(n, type) ==
  {<<OccSpan(141, n, type)>>,
   <<OccSpan(141, 3, type), OccSpan(160, 0, type),
     OccSpan(180, 1, type), OccSpan(200, n - 4, type)>>}

OccStreams(types) ==
  UNION {{Stream(bs, spans) :
            spans \in UNION {OccSpans(StreamBytes(bs), t) : t \in types}} :
           bs \in OccBlockLists}

OccNodes == <<[type |-> "IHDR", header |-> 8, length |-> 13],
              [type |-> "IDAT", header |-> 33, length |-> 4],
              [type |-> "IDAT", header |-> 49, length |-> 0],
              [type |-> "IEND", header |-> 61, length |-> 0]>>

OutputOf(w) == w.at[Len(w.at)].out_end

(* The lines of an image with one byte each; the last is not in it.        *)
OccLines(w) ==
  [k \in 1..OutputOf(w) + 1 |-> [offset |-> k - 1, filter |-> k % 3,
                                 usable |-> k <= OutputOf(w)]]

OccSubject(w, n, frame) ==
  [w |-> w, indexed |-> n, frame |-> frame, nodes |-> OccNodes,
   stages |-> TRUE, lines |-> OccLines(w), fctl |-> 141 - 12 - 38, y |-> 5]

OccCursors(offsets) ==
  {<<"first", <<>>>>, <<"next", <<>>>>, <<"previous", <<>>>>}
  \union ({"next", "previous"} \X {<<n>> : n \in offsets})

OccQuestions(keys, offsets) ==
  {[domain |-> k[1], key |-> k[2], value |-> k[3], direction |-> c[1],
    after |-> c[2]] :
     k \in keys, c \in OccCursors(offsets)}

OccChunkKeys == {"chunk"} \X {"IDAT", "fdAT", "fcTL", "IEND"} \X {0}
OccBlockKeys == {"block"} \X {"stored", "fixed", "dynamic"} \X {0}
OccFilterKeys == {"filter"} \X {""} \X {1, 7}
OccTokenKeys ==
  ({"token"} \X {"literal", "match", "eob"} \X {0})
  \union {<<"length", "", 3>>, <<"distance", "", 4>>}

OccWhole(w) == [status |-> "ready", tokens |-> Len(w.facts)]

OccStops(w) ==
  {OccWhole(w), [status |-> "cancelled", tokens |-> 0]}
  \union {[status |-> "budget", tokens |-> n] : n \in 0..Len(w.facts) - 1}
  \union {[status |-> status, tokens |-> n] :
            status \in {"invalid", "error"}, n \in {0, 2}}

OccDirect(w, frames, keys, offsets) ==
  [s : {OccSubject(w, n, frame) : n \in 0..Len(w.at), frame \in frames},
   q : OccQuestions(keys, offsets), stop : {OccWhole(w)}]

OccurrenceSamples ==
  UNION {OccDirect(w, BOOLEAN, OccChunkKeys, {33, 49, 141, 180}) :
           w \in OccStreams({"IDAT", "fdAT"})}
  \union
  UNION {OccDirect(w, BOOLEAN, OccBlockKeys, {0, 2, 4})
         \union OccDirect(w, BOOLEAN, OccFilterKeys, {0, 2, 4})
         \union
         [s : {OccSubject(w, n, FALSE) : n \in 1..Len(w.at)},
          q : OccQuestions(OccTokenKeys, {0, 1, 2, 4}), stop : OccStops(w)] :
           w \in OccStreams({"IDAT"})}
=============================================================================
