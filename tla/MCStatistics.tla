---------------------------- MODULE MCStatistics ---------------------------
(* Requests about small documents and frames.                              *)
EXTENDS StatisticsExport

MCSample(type, bytes, bad) == [type |-> type, bytes |-> bytes, bad |-> bad]

MCBlock(type, bits, bytes) ==
  [type |-> type, bits |-> bits, bytes |-> bytes, bad |-> FALSE]

MCFact(type, bits, bytes, length, distance) ==
  [type |-> type, bits |-> bits, bytes |-> bytes, length |-> length,
   distance |-> distance, bad |-> FALSE]

WideLimits ==
  [samples |-> 9, chunk_types |-> 9, lengths |-> 9, distances |-> 9]

MCRequest ==
  [lim |-> WideLimits, cancel_at |-> 0, totals |-> <<>>,
   chunks |-> <<MCSample("IHDR", 3, FALSE), MCSample("IDAT", 2, FALSE),
                MCSample("IDAT", 1, FALSE), MCSample("IEND", 0, FALSE)>>,
   present |-> {"chunks", "stages", "blocks", "tokens"},
   stages |-> [success |-> TRUE,
               lines |-> <<MCSample(1, 2, FALSE), MCSample(4, 2, FALSE),
                           MCSample(1, 2, FALSE)>>],
   stream |-> [success |-> TRUE,
               blocks |-> <<MCBlock("stored", 5, 0),
                           MCBlock("dynamic", 9, 6)>>,
               facts |-> <<MCFact("eob", 0, 0, 0, 0),
                           MCFact("literal", 2, 1, 0, 0),
                           MCFact("match", 3, 3, 3, 1),
                           MCFact("match", 3, 2, 2, 1),
                           MCFact("match", 3, 3, 3, 4),
                           MCFact("eob", 1, 0, 0, 0)>>,
               output |-> 6],
   memory_ok |-> TRUE, readable |-> TRUE,
   spans |-> <<MCSample("IDAT", 2, FALSE), MCSample("fdAT", 1, FALSE)>>,
   layout_bytes |-> 6]

MCLimits ==
  {[samples |-> s, chunk_types |-> c, lengths |-> l, distances |-> d] :
     s \in {2, 5, 9}, c \in {1, 9}, l, d \in {1, 9}}
  \union {[WideLimits EXCEPT !.samples = 0],
          [WideLimits EXCEPT !.chunk_types = 0],
          [WideLimits EXCEPT !.distances = 0]}

(* A cancellation at every question; each fault on its own and with it;    *)
(* each limit.                                                             *)
Faults(r) ==
  {r, [r EXCEPT !.stages.success = FALSE], [r EXCEPT !.stream.success = FALSE],
   [r EXCEPT !.stream.success = FALSE, !.stream.blocks = <<>>],
   [r EXCEPT !.stages.lines[2].bad = TRUE],
   [r EXCEPT !.stages.lines[1].type = 9],
   [r EXCEPT !.memory_ok = FALSE], [r EXCEPT !.readable = FALSE],
   [r EXCEPT !.spans[1].type = "other"], [r EXCEPT !.layout_bytes = 5],
   [r EXCEPT !.stream.facts[4].distance = 0],
   [r EXCEPT !.spans = <<>>], [r EXCEPT !.totals = <<3, 6>>]}
  \union {[r EXCEPT !.present = p] :
             p \in SUBSET {"chunks", "stages", "blocks", "tokens"}}

(* Sums that do not fit, in one of the sections or in all of them.         *)
Large(r) ==
  {[r EXCEPT !.chunks[k].bytes = CountMax - d] : k \in 1..4, d \in 0..3}
  \union {[r EXCEPT !.stages.lines[k].bytes = CountMax - d] :
             k \in 1..3, d \in 0..4}
  \union {[r EXCEPT !.stream.blocks[k].bits = CountMax - d] :
             k \in 1..2, d \in {0, 5, 9}}
  \union {[r EXCEPT !.stream.facts[k].bytes = CountMax - d] :
             k \in {2, 4}, d \in 0..8}

CountSamples ==
  [how : {"collect", "adapt", "document", "frame"},
   r : {[f EXCEPT !.cancel_at = c] : f \in Faults(MCRequest), c \in 0..21}
       \union {[f EXCEPT !.lim = lim] : f \in Faults(MCRequest),
                                       lim \in MCLimits}
       \union {[MCRequest EXCEPT !.lim = lim, !.cancel_at = c] :
                  lim \in MCLimits, c \in {4, 9}}
       \union Large(MCRequest)]

CountsOf(s) ==
  CASE s.how = "collect" -> Collect(s.r) [] s.how = "adapt" -> Adapt(s.r)
    [] s.how = "document" -> CollectDocument(s.r)
    [] s.how = "frame" -> CollectFrame(s.r)

(* Names and texts with every special character.                           *)
MCTexts == {<<>>, <<"a">>, <<"a", "comma", "quote">>, <<"quote", "quote">>,
            <<"lf", "a">>, <<"cr">>, <<"backslash", "n", "control">>,
            <<"tab", "comma", "lf", "quote">>}

MCNamed(a, b) ==
  [MCRequest EXCEPT !.totals = <<3, 6>>,
     !.chunks = <<MCSample(a, 3, FALSE), MCSample(b, 2, FALSE),
                  MCSample(<<"x">>, 1, FALSE)>>]

MCErrors(t) == [id \in SectionIds |-> IF id = "blocks" THEN t ELSE <<>>]

MCFrame == [index |-> 2, width |-> 3, height |-> 4, payload |-> 3,
            overhead |-> 38, inflated |-> 6, animation |-> TRUE]

ExportSamples ==
  LET texts == [acc : {Collect(MCNamed(a, b)) :
                         a, b \in {t \in MCTexts : Len(t) \in 1..3}},
                errors : {MCErrors(<<>>)}]
               \union [acc : {Collect(MCNamed(<<"x">>, <<"y">>))},
                       errors : {MCErrors(t) : t \in MCTexts}]
      ends == [acc : {Collect([MCNamed(<<"x">>, <<"y">>) EXCEPT
                                !.cancel_at = c, !.totals = t,
                                !.lim.samples = n]) :
                        c \in {0, 2, 5, 7}, n \in {0, 2, 9},
                        t \in {<<>>, <<3, 6>>}},
               errors : {MCErrors(<<>>)}]
      odd == {[acc |-> FinishAll(EmptyAccumulator, {"overview", id}, status,
                                 complete, scope),
               errors |-> MCErrors(<<>>)] :
                id \in SectionIds,
                status \in {"unavailable", "ready", "partial"},
                complete \in BOOLEAN, scope \in {"whole", "prefix"}}
  IN  [d : texts \union ends \union odd, f : {MCFrame}]
      \union [d : texts, f : {[MCFrame EXCEPT !.inflated = 0],
                             [MCFrame EXCEPT !.animation = FALSE]}]
=============================================================================
