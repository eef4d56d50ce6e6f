------------------------------- MODULE MCPng --------------------------------
(* Inputs for the algorithms that read a file: its chunks and its image.   *)
EXTENDS PngFormat, ChunkDetail, Reconstruction

(* Small files: four lists of chunks, with one chunk removed, doubled,     *)
(* moved or replaced, whole, cut or with bytes after the end.              *)

Ihdr == [type |-> "IHDR", length |-> 13, width |-> 2, height |-> 2,
         color |-> 3]
Plain(type, length) == [type |-> type, length |-> length]
Actl(n) == [type |-> "acTL", length |-> 8, num_frames |-> n]
Fctl(n, w, x) == [type |-> "fcTL", length |-> 26, sequence |-> n,
                  width |-> w, height |-> 2, x |-> x, y |-> 0]
Fdat(n, length) == [type |-> "fdAT", length |-> length, sequence |-> n]
Iend == Plain("IEND", 0)

FileLists ==
  {<<Ihdr, Actl(2), Fctl(0, 2, 0), Plain("IDAT", 2), Fctl(1, 1, 1),
     Fdat(2, 5), Iend>>,
   <<Ihdr, Actl(1), Plain("IDAT", 2), Fctl(0, 1, 0), Fdat(1, 4), Fdat(2, 6),
     Fdat(3, 5), Iend>>,
   <<Ihdr, Plain("PLTE", 6), Plain("tRNS", 2), Actl(3), Fctl(0, 2, 0),
     Plain("IDAT", 0), Plain("IDAT", 3), Fctl(1, 1, 0), Fdat(2, 6),
     Fctl(3, 2, 0), Fdat(4, 5), Iend>>,
   <<Ihdr, Plain("PLTE", 3), Plain("IDAT", 1), Plain("tEXt", 1), Iend>>}

OddChunks ==
  {Ihdr, Actl(0), Actl(1), Fctl(0, 1, 0), Fctl(1, 1, 2), Fctl(1, 0, 0),
   Fctl(2, 2, 0), Fctl(3, 1, 0), Fdat(1, 6), Fdat(2, 3), Fdat(2, 4),
   Fdat(4, 5), Plain("IDAT", 1), Plain("PLTE", 4), Plain("tRNS", 300),
   Plain("IEND", 1), [Ihdr EXCEPT !.length = 12]}

Variants(list) ==
  LET n == Len(list)
  IN  {list} \union {RemoveAt(list, k) : k \in 1..n}
      \union {InsertAt(list, k, list[k]) : k \in 1..n}
      \union {[list EXCEPT ![k] = list[k + 1], ![k + 1] = list[k]] :
                k \in 1..n - 1}
      \union {[list EXCEPT ![k] = odd] : k \in 1..n, odd \in OddChunks}

FileOf(list, more) ==
  LET f == [signature |-> TRUE, size |-> 0, chunks |-> list]
  IN  [f EXCEPT !.size = PosOf(f, Len(list) + 1) + more]

AllLimits == [max_chunks |-> 20, max_frames |-> 5, max_metadata |-> 1000,
              cancel_at |-> 0]

SmallLimits ==
  {AllLimits, [AllLimits EXCEPT !.max_chunks = 3],
   [AllLimits EXCEPT !.max_frames = 1], [AllLimits EXCEPT !.max_frames = 2],
   [AllLimits EXCEPT !.max_metadata = 22],
   [AllLimits EXCEPT !.max_metadata = 30],
   [AllLimits EXCEPT !.cancel_at = 3], [AllLimits EXCEPT !.max_frames = 0]}

Cuts == {-60, -40, -25, -13, -12, -5, -4, -1, 3}

FileSamples ==
  LET lists == UNION {Variants(list) : list \in FileLists}
  IN  {[f |-> FileOf(list, 0), lim |-> lim] : list \in lists,
                                             lim \in SmallLimits}
      \union {[f |-> FileOf(list, more), lim |-> AllLimits] :
                list \in lists, more \in Cuts}
      \union {[f |-> [FileOf(<<Ihdr, Iend>>, 0) EXCEPT !.signature = ok,
                                                       !.size = size],
               lim |-> AllLimits] : ok \in BOOLEAN, size \in 0..10}

(* Chunks of every length around those that are asked for, and texts of   *)
(* up to five bytes.                                                       *)
DetailSamples ==
  {[type |-> type, length |-> length, readable |-> ok, bytes |-> <<>>] :
     type \in DOMAIN FixedLength \union {"PLTE", "tRNS", "IDAT", "xxxx"},
     length \in 0..14 \union {31, 32, 33, 768, 771, 1024, 1025},
     ok \in BOOLEAN}
  \union
  UNION {{[type |-> type, length |-> n, readable |-> ok, bytes |-> bytes] :
            type \in Texts, ok \in BOOLEAN, bytes \in [1..n -> {0, 1}]} :
           n \in 0..5}

NumberSamples == 0..130

(* Spans in the order of the file.                                         *)
SpanSamples ==
  {[k \in 1..Len(ls) |->
      [offset |-> 10 * k + ls[1], length |-> ls[k]]] :
     ls \in {<<>>} \union UNION {[1..n -> 0..2] : n \in 1..4}}

-----------------------------------------------------------------------------
(* Small images of every color and depth, plain and interlaced.            *)

HeaderOf(w, h, combo, i) ==
  [width |-> w, height |-> h, color |-> combo[1], depth |-> combo[2],
   interlace |-> i]

Combos == {c \in {0, 2, 3, 4, 6} \X {1, 2, 4, 8, 16} : ValidCombo(c[2], c[1])}

LayoutSamples ==
  {HeaderOf(w, h, <<0, 1>>, i) : w, h \in 1..17, i \in BOOLEAN}

Slopes == {<<0, 0, 0, 0>>, <<97, 55, 29, 3>>, <<250, 7, 129, 255>>}

(* Two levels, or a slope over the whole range of the samples.             *)
SamplesOf(h, m) ==
  [y \in 1..h.height |-> [x \in 1..h.width |-> [c \in 1..Channels(h.color) |->
     ((m[1] * x + m[2] * y + m[3] * c + m[4])
        * (IF h.depth = 16 THEN 257 ELSE 1)) % 2^h.depth]]]

ImageSamples ==
  LET headers == {HeaderOf(s[1], s[2], combo, i) :
                    s \in {<<1, 1>>, <<1, 3>>, <<3, 2>>, <<5, 5>>},
                    combo \in Combos, i \in BOOLEAN}
      image(h, m, t) == [h |-> h, samples |-> SamplesOf(h, m), t |-> t]
  IN  {image(h, <<97, 55, 29, 3>>, t) : h \in headers, t \in 0..4}
      \union {image(h, m, 2) : h \in headers, m \in Slopes}

ContextFor(n, transparent) ==
  [palette |-> [k \in 1..n |-> <<k - 1, (2 * k) % 256, 255>>],
   alphas |-> <<0, 7>>, transparent |-> transparent]

PixelSamples ==
  UNION {{[h |-> h, samples |-> SamplesOf(h, m),
           context |-> ContextFor(n, t)] :
            m \in Slopes \union {<<2^h.depth - 1, 0, 0, 0>>},
            n \in {0, 2, 256},
            t \in {<<>>, SamplesOf(h, <<0, 0, 0, 0>>)[1][1]}} :
           h \in {HeaderOf(2, 2, combo, FALSE) : combo \in Combos}}

BlendSamples ==
  [source : {<<a, 9, 255, s>> : a \in {0, 100, 255}, s \in 0..255},
   canvas : {<<5, b, 0, d>> : b \in {0, 255},
                              d \in {0, 1, 127, 128, 254, 255}}]

NeighborSamples ==
  [1..3 -> 0..5] \union [1..3 -> {0, 2, 85, 127, 128, 170, 254, 255}]
=============================================================================
