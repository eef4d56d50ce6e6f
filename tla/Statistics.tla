----------------------------- MODULE Statistics -----------------------------
(***************************************************************************)
(* The statistics of a document and of a frame: the accumulator and        *)
(* collect() (statistics.cpp), the adapter of finished analyses            *)
(* (statistics_adapter.cpp), the pipeline of a document                    *)
(* (statistics_collector.cpp) and that of a frame (frame_statistics.cpp).  *)
(*                                                                         *)
(* What is counted is a function n from <<section, bucket, metric>> to     *)
(* numbers; the totals of a section are in its bucket <<>>, and there is a *)
(* bucket <<v>> of a type of chunk, a length or a distance once it is seen *)
(* A caller may ask to stop: the questions are numbered, and from the one  *)
(* of cancel_at on (0 for none) the answer is yes.                         *)
(***************************************************************************)
EXTENDS Integers, Sequences, FiniteSets, SequencesExt

CONSTANTS CountMax,    (* the largest number                               *)
          CheckEvery   (* a question every so many samples                 *)

SectionIds == {"overview", "chunks", "filters", "blocks", "tokens",
               "lengths", "distances"}

TokenGroup == {"tokens", "lengths", "distances"}

GroupOf(id) == IF id = "tokens" THEN TokenGroup ELSE {id}

StateOf(status, complete, scope) ==
  [status |-> status, complete |-> complete, scope |-> scope]

NotSealed == StateOf("unavailable", FALSE, "none")

Metrics == [chunks |-> <<"count", "bytes">>, filters |-> <<"count", "bytes">>,
            blocks |-> <<"count", "bits", "bytes">>,
            tokens |-> <<"count", "bits", "bytes">>,
            lengths |-> <<"count">>, distances |-> <<"count">>]

All == <<>>

MetricKeys(id, buckets) ==
  {<<id, b, Metrics[id][k]>> : b \in buckets, k \in DOMAIN Metrics[id]}

FixedKeys ==
  MetricKeys("chunks", {All})
  \union MetricKeys("filters", {All} \union {<<f>> : f \in 0..4})
  \union MetricKeys("blocks", {All, <<"stored">>, <<"fixed">>, <<"dynamic">>})
  \union MetricKeys("tokens", {All, <<"literal">>, <<"match">>, <<"eob">>})
  \union {<<"filters", All, "invalid">>}

EmptyAccumulator ==
  [state |-> [id \in SectionIds |-> NotSealed],
   n |-> [k \in FixedKeys |-> 0],
   samples |-> [id \in {"chunks", "filters", "blocks", "tokens"} |-> 0],
   totals |-> <<>>]

BucketsOf(acc, id) ==
  {k[2] : k \in {j \in DOMAIN acc.n : j[1] = id}} \ {All}

-----------------------------------------------------------------------------
(* Wrong: the last end of a section stays.                                 *)
FinishLast(acc, id, status, complete, scope) ==
  [acc EXCEPT !.state[id] = StateOf(status, complete, scope)]

(* finish(): the first end of a section stays.                             *)
SealSection(acc, id, status, complete, scope) ==
  IF acc.state[id].status # "unavailable" THEN acc
  ELSE [acc EXCEPT !.state[id] =
          IF status = "ready" /\ complete /\ scope # "whole"
          THEN StateOf("partial", FALSE, scope)
          ELSE StateOf(status, complete, scope)]

FinishAll(acc, ids, status, complete, scope) ==
  [acc EXCEPT !.state =
     [id \in SectionIds |->
        IF id \in ids
        THEN SealSection(acc, id, status, complete, scope).state[id]
        ELSE acc.state[id]]]

MarkReady(acc, ids) == FinishAll(acc, ids, "ready", TRUE, "whole")

WithKeys(n, keys) ==
  [k \in DOMAIN n \union keys |-> IF k \in DOMAIN n THEN n[k] ELSE 0]

(* Wrong: the sums after one that does not fit are made all the same.      *)
CheckedAddsOn(n, adds) ==
  FoldLeft(LAMBDA r, a :
             LET known == WithKeys(r.n, {a[1]})
             IN  IF a[2] > CountMax - known[a[1]] THEN [r EXCEPT !.ok = FALSE]
                 ELSE [r EXCEPT !.n = [known EXCEPT ![a[1]] = @ + a[2]]],
           [n |-> n, ok |-> TRUE], adds)

(* The sums of one sample, in their order, until one does not fit: those   *)
(* before it stay.  A length or a distance has its bucket from its first   *)
(* count on.                                                               *)
CheckedAdds(n, adds) ==
  FoldLeft(LAMBDA r, a :
             LET known == WithKeys(r.n, {a[1]})
             IN  IF ~r.ok THEN r
                 ELSE IF a[2] > CountMax - known[a[1]]
                 THEN [r EXCEPT !.ok = FALSE]
                 ELSE [r EXCEPT !.n = [known EXCEPT ![a[1]] = @ + a[2]]],
           [n |-> n, ok |-> TRUE], adds)

Refused(acc, ids, status) ==
  [acc |-> FinishAll(acc, ids, status, FALSE, "prefix"), ok |-> FALSE]

CountSample(acc, id, adds) ==
  LET r == CheckedAdds(acc.n, adds)
      a == [acc EXCEPT !.n = r.n]
  IN  IF r.ok THEN [acc |-> [a EXCEPT !.samples[id] = @ + 1], ok |-> TRUE]
      ELSE Refused(a, GroupOf(id), "overflow")

(* A sample gives its values to the totals, then to its bucket.            *)
ValuesTo(id, bucket, values) ==
  [k \in DOMAIN values |-> <<<<id, bucket, Metrics[id][k]>>, values[k]>>]

BothOf(id, bucket, values) ==
  ValuesTo(id, All, values) \o ValuesTo(id, bucket, values)

AddChunk(acc, lim, s) ==
  LET seen == BucketsOf(acc, "chunks")
      keys == MetricKeys("chunks", {<<s.type>>})
  IN  IF <<s.type>> \notin seen /\ Cardinality(seen) >= lim.chunk_types
      THEN Refused(acc, {"chunks"}, "budget")
      ELSE CountSample([acc EXCEPT !.n = WithKeys(@, keys)], "chunks",
                   BothOf("chunks", <<s.type>>, <<1, s.bytes>>))

AddFilter(acc, lim, s) ==
  IF s.type \notin 0..4
  THEN CountSample(acc, "filters", <<<<<<"filters", All, "invalid">>, 1>>>>)
  ELSE CountSample(acc, "filters",
                   BothOf("filters", <<s.type>>, <<1, s.bytes>>))

AddBlock(acc, lim, s) ==
  CountSample(acc, "blocks",
              BothOf("blocks", <<s.type>>, <<1, s.bits, s.bytes>>))

(* Wrong: a length is counted before there is room for the distance.       *)
AddTokenEarly(acc, lim, s) ==
  LET length == <<"lengths", <<s.length>>, "count">>
      one == [acc EXCEPT !.n = CheckedAdds(@, <<<<length, 1>>>>).n]
      distances == BucketsOf(acc, "distances")
  IN  IF s.type # "match"
      THEN CountSample(acc, "tokens", BothOf("tokens", <<s.type>>,
                                         <<1, s.bits, s.bytes>>))
      ELSE IF <<s.distance>> \notin distances
                /\ Cardinality(distances) >= lim.distances
      THEN Refused(one, TokenGroup, "budget")
      ELSE CountSample(one, "tokens",
                   BothOf("tokens", <<s.type>>, <<1, s.bits, s.bytes>>)
                   \o <<<<<<"distances", <<s.distance>>, "count">>, 1>>>>)

(* A match has its length and its distance checked before any of it is     *)
(* counted.                                                                *)
AddToken(acc, lim, s) ==
  LET both == BothOf("tokens", <<s.type>>, <<1, s.bits, s.bytes>>)
      length == <<"lengths", <<s.length>>, "count">>
      distance == <<"distances", <<s.distance>>, "count">>
      full(id, value, limit) ==
        /\ <<value>> \notin BucketsOf(acc, id)
        /\ Cardinality(BucketsOf(acc, id)) >= limit
  IN  IF s.type # "match" THEN CountSample(acc, "tokens", both)
      ELSE IF s.length = 0 \/ s.distance = 0
      THEN Refused(acc, TokenGroup, "invalid")
      ELSE IF full("lengths", s.length, lim.lengths)
                \/ full("distances", s.distance, lim.distances)
      THEN Refused(acc, TokenGroup, "budget")
      ELSE CountSample(acc, "tokens",
                       both \o <<<<length, 1>>, <<distance, 1>>>>)

NoBudget(lim, id) ==
  \/ lim.samples = 0
  \/ id = "chunks" /\ lim.chunk_types = 0
  \/ id = "tokens" /\ (lim.lengths = 0 \/ lim.distances = 0)

Add(acc, lim, id, s) ==
  IF acc.state[id].status # "unavailable" THEN [acc |-> acc, ok |-> FALSE]
  ELSE IF NoBudget(lim, id) \/ acc.samples[id] >= lim.samples
  THEN Refused(acc, GroupOf(id), "budget")
  ELSE CASE id = "chunks" -> AddChunk(acc, lim, s)
         [] id = "filters" -> AddFilter(acc, lim, s)
         [] id = "blocks" -> AddBlock(acc, lim, s)
         [] id = "tokens" -> AddToken(acc, lim, s)

(* set_compression_totals()                                                *)
SetTotals(acc, compressed, inflated) ==
  IF acc.state["overview"].status # "unavailable" THEN acc
  ELSE [acc EXCEPT !.totals = <<compressed, inflated>>]

CompleteSnapshot(acc) ==
  \A id \in SectionIds : acc.state[id] = StateOf("ready", TRUE, "whole")

-----------------------------------------------------------------------------
(* A run over one request r: its accumulator, the questions so far,        *)
(* whether the samples of the section at hand stopped and whether the run  *)
(* was cancelled, and how many samples of it were taken.                   *)
RunOf(acc) == [acc |-> acc, asked |-> 0, stopped |-> FALSE,
               cancelled |-> FALSE, fed |-> 0]

Ask(t) == [t EXCEPT !.asked = @ + 1]

Cancelled(r, t) == r.cancel_at # 0 /\ t.asked >= r.cancel_at

SealRun(t, ids, status, scope) ==
  [t EXCEPT !.acc = FinishAll(@, ids, status, FALSE, scope)]

FeedOne(r, id, t, k, sample) ==
  LET asks == (k - 1) % CheckEvery = 0
      u == IF asks THEN Ask(t) ELSE t
      a == Add(u.acc, r.lim, id, sample)
  IN  CASE t.stopped -> t
        [] ~t.stopped /\ asks /\ Cancelled(r, u) ->
             [SealRun(u, GroupOf(id), "cancelled", "prefix")
                EXCEPT !.stopped = TRUE, !.cancelled = TRUE]
        [] ~t.stopped /\ ~(asks /\ Cancelled(r, u)) /\ sample.bad ->
             [SealRun(u, GroupOf(id), "invalid", "prefix")
                EXCEPT !.stopped = TRUE]
        [] OTHER -> [u EXCEPT !.acc = a.acc, !.stopped = ~a.ok,
                              !.fed = IF a.ok THEN @ + 1 ELSE @]

FeedAll(r, id, t, samples) ==
  FoldLeft(LAMBDA u, k : FeedOne(r, id, u, k, samples[k]),
           [t EXCEPT !.stopped = FALSE, !.fed = 0],
           [k \in DOMAIN samples |-> k])

(* The samples of a section that is whole when all of them are taken.      *)
FeedWhole(r, id, t, samples) ==
  LET u == FeedAll(r, id, t, samples)
  IN  IF Len(samples) > r.lim.samples
      THEN [SealRun(t, GroupOf(id), "budget", "none")
              EXCEPT !.stopped = TRUE, !.fed = 0]
      ELSE IF u.stopped THEN u
      ELSE [u EXCEPT !.acc = MarkReady(@, GroupOf(id))]

(* Those of a prefix, which ends with a status of its own.                 *)
FeedPrefix(r, id, t, samples, status) ==
  LET u == FeedAll(r, id, t, samples)
  IN  IF u.stopped THEN u
      ELSE [SealRun(u, {id}, status,
                    IF samples = <<>> THEN "none" ELSE "prefix")
              EXCEPT !.stopped = TRUE]

FirstOf(samples, n) ==
  SubSeq(samples, 1, IF n < Len(samples) THEN n ELSE Len(samples))

BytesOfIdat(chunks, count) ==
  FoldLeft(LAMBDA sum, c : IF c.type = "IDAT" THEN sum + c.bytes ELSE sum, 0,
           SubSeq(chunks, 1, count))

HasIdat(chunks, count) == \E k \in 1..count : chunks[k].type = "IDAT"

NoBudgets(acc) == FinishAll(acc, SectionIds, "budget", FALSE, "none")

-----------------------------------------------------------------------------
(* collect(): the sections one after the other until one stops.            *)
CollectNext(r, id, t, samples) ==
  IF t.stopped THEN t ELSE FeedWhole(r, id, t, samples)

Collect(r) ==
  LET start == IF r.totals = <<>> THEN EmptyAccumulator
               ELSE MarkReady(SetTotals(EmptyAccumulator, r.totals[1],
                                    r.totals[2]), {"overview"})
      t1 == CollectNext(r, "chunks", RunOf(start), r.chunks)
      t2 == CollectNext(r, "filters", t1, r.stages.lines)
      t3 == CollectNext(r, "blocks", t2, r.stream.blocks)
      t4 == CollectNext(r, "tokens", t3, r.stream.facts)
  IN  IF 0 \in {r.lim.samples, r.lim.chunk_types, r.lim.lengths,
                r.lim.distances}
      THEN NoBudgets(EmptyAccumulator)
      ELSE t4.acc

-----------------------------------------------------------------------------
(* collect_statistics(): each source that is there; a cancellation ends    *)
(* the run, another failure only its section.                              *)
StageSamples(r, t) ==
  IF ~r.stages.success THEN SealRun(t, {"filters"}, "invalid", "none")
  ELSE FeedWhole(r, "filters", t, r.stages.lines)

AdaptBlocks(r, t) ==
  IF ~r.stream.success
  THEN FeedPrefix(r, "blocks", t, r.stream.blocks, "invalid")
  ELSE FeedWhole(r, "blocks", t, r.stream.blocks)

AdaptTokens(r, t) ==
  IF ~r.stream.success
  THEN [SealRun(t, TokenGroup, "invalid", "none") EXCEPT !.stopped = TRUE]
  ELSE FeedWhole(r, "tokens", t, r.stream.facts)

(* The overview tells why the totals are not known.                        *)
MirrorFirst(acc, ids) ==
  LET bad == SelectSeq(ids, LAMBDA id : acc.state[id].status # "ready")
  IN  IF bad = <<>> THEN acc
      ELSE SealSection(acc, "overview", acc.state[bad[1]].status, FALSE,
                       "none")

Adapt(r) ==
  LET of(id, t, next) == IF id \in r.present /\ ~t.cancelled THEN next ELSE t
      known(id, t) == id \in r.present /\ ~t.stopped
      start == RunOf(EmptyAccumulator)
      t1 == of("chunks", start, FeedWhole(r, "chunks", start, r.chunks))
      t2 == of("stages", t1, StageSamples(r, t1))
      t3 == of("blocks", t2, AdaptBlocks(r, t2))
      t4 == of("tokens", t3, AdaptTokens(r, t3))
      compressed == known("chunks", t1) /\ HasIdat(r.chunks, Len(r.chunks))
      inflated == \/ known("blocks", t3) /\ ~t2.cancelled
                  \/ known("tokens", t4) /\ ~t3.cancelled
  IN  IF r.lim.samples = 0 THEN NoBudgets(EmptyAccumulator)
      ELSE IF compressed /\ inflated
      THEN MarkReady(SetTotals(t4.acc, BytesOfIdat(r.chunks, Len(r.chunks)),
                           r.stream.output), {"overview"})
      ELSE IF t4.cancelled THEN t4.acc
      ELSE MirrorFirst(t4.acc, SelectSeq(<<"chunks", "blocks", "tokens">>,
             LAMBDA id : id = "chunks" \/ id \in r.present))

-----------------------------------------------------------------------------
(* collect_document_statistics(): the block scan and the token scan ask on *)
(* their own, here once per block and once per so many tokens.             *)
ScanAsks(t, n) == [t EXCEPT !.asked = @ + n]

(* A scan that was cancelled is never met by its own branch: the question  *)
(* after the scan has the same answer.                                     *)
DocumentBlocks(r, t) ==
  LET asked == Ask(t)
      scanned == Ask(ScanAsks(asked, Len(r.stream.blocks)))
      whole == r.stream.success /\ Len(r.stream.blocks) <= r.lim.samples
      blocks == FirstOf(r.stream.blocks, r.lim.samples)
      seal(u, scope) ==
        [SealRun(SealRun(u, {"blocks"}, "cancelled", scope), TokenGroup,
                 "cancelled", "none") EXCEPT !.cancelled = TRUE]
  IN  CASE t.cancelled -> [t EXCEPT !.stopped = TRUE]
        [] ~t.cancelled /\ Cancelled(r, asked) ->
             [seal(asked, "none") EXCEPT !.stopped = TRUE]
        [] ~t.cancelled /\ ~Cancelled(r, asked) /\ Cancelled(r, scanned) ->
             [seal(scanned, IF blocks = <<>> THEN "none" ELSE "prefix")
                EXCEPT !.stopped = TRUE]
        [] OTHER ->
             IF whole THEN FeedWhole(r, "blocks", scanned, blocks)
             ELSE FeedPrefix(r, "blocks", scanned, blocks,
                             IF Len(r.stream.blocks) > r.lim.samples
                             THEN "budget" ELSE "invalid")

(* One fact: the scan's own question, the observer and the observer's.     *)
DocumentFact(r, t, k) ==
  LET asks == k % CheckEvery = 0
      before == IF asks THEN Ask(t) ELSE t
      a == Add(before.acc, r.lim, "tokens", r.stream.facts[k])
      told == [before EXCEPT !.acc = a.acc, !.stopped = ~a.ok, !.fed = @ + 1]
      after == IF asks THEN Ask(told) ELSE told
  IN  CASE t.stopped -> t
        [] ~t.stopped /\ asks /\ Cancelled(r, before) ->
             [SealRun(before, TokenGroup, "cancelled", "prefix")
                EXCEPT !.stopped = TRUE]
        [] ~t.stopped /\ ~(asks /\ Cancelled(r, before)) /\ ~a.ok -> told
        [] OTHER ->
             IF asks /\ Cancelled(r, after)
             THEN [SealRun(after, TokenGroup, "cancelled", "prefix")
                     EXCEPT !.stopped = TRUE]
             ELSE after

DocumentTokens(r, t) ==
  LET asked == Ask(t)
      facts == FirstOf(r.stream.facts, r.lim.samples)
      u == FoldLeft(LAMBDA v, k : DocumentFact(r, v, k),
                    [asked EXCEPT !.stopped = FALSE, !.fed = 0],
                    [k \in DOMAIN facts |-> k])
  IN  CASE t.cancelled -> [t EXCEPT !.stopped = TRUE]
        [] ~t.cancelled /\ Cancelled(r, asked) ->
             [SealRun(asked, TokenGroup, "cancelled", "none")
                EXCEPT !.cancelled = TRUE, !.stopped = TRUE]
        [] ~t.cancelled /\ ~Cancelled(r, asked) /\ u.stopped ->
             SealRun(u, TokenGroup, "partial", "prefix")
        [] OTHER ->
             IF Len(r.stream.facts) > r.lim.samples
             THEN [SealRun(u, TokenGroup, "budget", "prefix")
                     EXCEPT !.stopped = TRUE]
             ELSE IF ~r.stream.success
             THEN [SealRun(u, TokenGroup, "invalid", "prefix")
                     EXCEPT !.stopped = TRUE]
             ELSE [u EXCEPT !.acc = MarkReady(@, TokenGroup)]

(* A size is known once an IDAT was taken, whether the chunks were all     *)
(* taken or not; only a run that was cancelled asks for all of them.       *)
Overview(r, t, taken, chunks_ready, inflated) ==
  LET totals == MarkReady(SetTotals(t.acc, BytesOfIdat(r.chunks, taken),
                                IF inflated THEN r.stream.output ELSE 0),
                      {"overview"})
  IN  IF t.cancelled
      THEN FinishAll(IF chunks_ready /\ inflated THEN totals ELSE t.acc,
                     {"overview", "blocks"} \union TokenGroup, "cancelled",
                     FALSE, "none")
      ELSE IF HasIdat(r.chunks, taken) /\ inflated THEN totals
      ELSE MirrorFirst(t.acc, <<"chunks", "blocks">>)

CollectDocument(r) ==
  LET start == Ask(RunOf(EmptyAccumulator))
      t1 == FeedWhole(r, "chunks", Ask(start), r.chunks)
      t2 == IF "stages" \in r.present /\ ~t1.cancelled THEN StageSamples(r, t1)
            ELSE t1
      t3 == DocumentBlocks(r, t2)
      t4 == DocumentTokens(r, t3)
      sealed(status) == FinishAll(EmptyAccumulator, SectionIds, status, FALSE,
                                  "none")
  IN  IF ~r.memory_ok \/ 0 \in {r.lim.samples, r.lim.chunk_types,
                                r.lim.lengths, r.lim.distances}
      THEN sealed("budget")
      ELSE IF Cancelled(r, start) \/ Cancelled(r, Ask(start))
      THEN sealed("cancelled")
      ELSE IF ~r.readable THEN sealed("error")
      ELSE Overview(r, t4, t1.fed, ~t1.stopped, ~t3.stopped \/ ~t4.stopped)

-----------------------------------------------------------------------------
(* collect_frame_statistics(): spans are those of the frame's stream with  *)
(* the type that is read before each; "other" when there is none.          *)
FrameVerified(r) ==
  r.spans # <<>> /\ \A k \in DOMAIN r.spans : r.spans[k].type # "other"

FrameChunks(r, t) ==
  LET asked == Ask(t)
      first == Add(asked.acc, r.lim, "chunks",
                   [type |-> "fcTL", bytes |-> 26])
      samples == [k \in DOMAIN r.spans |->
                    [r.spans[k] EXCEPT !.bytes =
                       IF r.spans[k].type = "fdAT" THEN @ + 4 ELSE @]]
      u == FeedAll(r, "chunks", [asked EXCEPT !.acc = first.acc], samples)
  IN  IF Cancelled(r, asked)
      THEN SealRun(asked, {"chunks"}, "cancelled", "prefix")
      ELSE IF ~FrameVerified(r)
      THEN SealRun(asked, {"chunks"}, "partial", "prefix")
      ELSE IF ~first.ok THEN [asked EXCEPT !.acc = first.acc]
      ELSE IF u.stopped THEN u
      ELSE [u EXCEPT !.acc = MarkReady(@, {"chunks"})]

FrameFilters(r, t) ==
  LET asked == Ask(t)
      lines == [k \in DOMAIN r.stages.lines |->
                  [r.stages.lines[k] EXCEPT !.bad =
                     @ \/ r.stages.lines[k].type \notin 0..4]]
      u == FeedAll(r, "filters", asked, lines)
  IN  IF Cancelled(r, asked)
      THEN SealRun(asked, {"filters"}, "cancelled", "prefix")
      ELSE IF u.stopped THEN u
      ELSE [u EXCEPT !.acc = MarkReady(@, {"filters"})]

FrameBlocks(r, t) ==
  LET asked == Ask(t)
      u == FeedAll(r, "blocks", asked, r.stream.blocks)
  IN  IF Cancelled(r, asked)
      THEN SealRun(asked, {"blocks"}, "cancelled", "prefix")
      ELSE IF r.stream.blocks = <<>>
      THEN SealRun(asked, {"blocks"}, "error", "prefix")
      ELSE IF u.stopped THEN u
      ELSE IF r.stream.success THEN [u EXCEPT !.acc = MarkReady(@, {"blocks"})]
      ELSE SealRun(u, {"blocks"}, "partial", "prefix")

(* The observer's question stops the scan without a status of its own.     *)
FrameFact(r, t, k) ==
  LET asks == (k - 1) % CheckEvery = 0
      u == IF asks THEN Ask(t) ELSE t
      a == Add(u.acc, r.lim, "tokens", r.stream.facts[k])
  IN  IF t.stopped THEN t
      ELSE IF asks /\ Cancelled(r, u) THEN [u EXCEPT !.stopped = TRUE]
      ELSE [u EXCEPT !.acc = a.acc, !.stopped = ~a.ok]

FrameTokens(r, t) ==
  LET u == FoldLeft(LAMBDA v, k : FrameFact(r, v, k),
                    [t EXCEPT !.stopped = FALSE],
                    [k \in DOMAIN r.stream.facts |-> k])
  IN  IF u.stopped THEN SealRun(u, TokenGroup, "partial", "prefix")
      ELSE IF ~r.stream.success
      THEN SealRun(u, TokenGroup, "invalid", "prefix")
      ELSE [u EXCEPT !.acc = MarkReady(@, TokenGroup)]

FrameOverview(r, t) ==
  LET asked == Ask(t)
      payload == FoldLeft(LAMBDA sum, s : sum + s.bytes, 0, r.spans)
  IN  IF ~Cancelled(r, asked) /\ FrameVerified(r) /\ r.stream.success
           /\ r.layout_bytes = r.stream.output
      THEN MarkReady(SetTotals(t.acc, payload, r.layout_bytes), {"overview"})
      ELSE SealSection(t.acc, "overview", "partial", FALSE, "prefix")

(* The first question is asked before anything is done.                    *)
CollectFrame(r) ==
  LET start == Ask(RunOf(EmptyAccumulator))
      t == FrameTokens(r, FrameBlocks(r, FrameFilters(r, FrameChunks(r,
             start))))
  IN  IF Cancelled(r, start) \/ ~r.memory_ok THEN EmptyAccumulator
      ELSE FrameOverview(r, t)

-----------------------------------------------------------------------------
(* What the numbers say.                                                   *)
TakenSamples(acc, id, samples) ==
  FirstOf(samples, acc.samples[IF id \in TokenGroup THEN "tokens" ELSE id])

BucketOf(id, s) == CASE id = "lengths" -> <<s.length>>
                     [] id = "distances" -> <<s.distance>>
                     [] OTHER -> <<s.type>>

ValueOf(s, metric) == CASE metric = "bits" -> s.bits
                        [] metric = "bytes" -> s.bytes
                        [] OTHER -> 1

InKey(key, s) ==
  /\ key[1] \in {"lengths", "distances"} => s.type = "match"
  /\ key[1] = "filters" => (key[3] = "invalid" <=> s.type \notin 0..4)
  /\ key[2] = All \/ key[2] = BucketOf(key[1], s)

Tally(samples, key) ==
  FoldLeft(LAMBDA sum, s :
             IF InKey(key, s) THEN sum + ValueOf(s, key[3]) ELSE sum,
           0, samples)

(* The numbers one sample goes to, in the order of the sums.               *)
KeysOf(id, s) ==
  LET of(section, bucket) ==
        [k \in DOMAIN Metrics[section] |->
           <<section, bucket, Metrics[section][k]>>]
  IN  IF id = "filters" /\ s.type \notin 0..4
      THEN <<<<"filters", All, "invalid">>>>
      ELSE of(id, All) \o of(id, <<s.type>>)
           \o (IF id = "tokens" /\ s.type = "match"
               THEN of("lengths", <<s.length>>)
                    \o of("distances", <<s.distance>>)
               ELSE <<>>)

(* "Totals collected before cancellation, overflow or a budget limit are   *)
(* preserved as a verified prefix" and a match "updates the token bucket   *)
(* and the length/distance histograms atomically" (statistics.h:202-207):  *)
(* this holds but for an overflow, where the sample that did not fit has   *)
(* left in the numbers the part of it that came before the first sum that  *)
(* did not fit (statistics.cpp:131-138, 169-176, 207-216, 286-315).        *)
LeftBy(counter, taken, s) ==
  LET keys == KeysOf(counter, s)
      misfits == {k \in DOMAIN keys :
                    Tally(taken, keys[k]) + ValueOf(s, keys[k][3]) > CountMax}
  IN  {keys[k] : k \in {j \in DOMAIN keys : \A m \in misfits : j < m}}

(* A section has counted the samples it took, each in full and in its      *)
(* bucket alone, and after an overflow what LeftBy says of the next one,   *)
(* which does not fit; one that is complete took all of them.              *)
SectionExact(acc, id, samples, whole) ==
  LET counter == IF id \in TokenGroup THEN "tokens" ELSE id
      taken == TakenSamples(acc, id, samples)
      state == acc.state[id]
      next == samples[Len(taken) + 1]
      left == IF state.status = "overflow" THEN LeftBy(counter, taken, next)
              ELSE {}
  IN  /\ acc.samples[counter] <= Len(samples)
      /\ state.status = "overflow" =>
           /\ Len(taken) < Len(samples)
           /\ \E k \in DOMAIN KeysOf(counter, next) :
                KeysOf(counter, next)[k] \notin left
      /\ \A k \in {j \in DOMAIN acc.n : j[1] = id} :
           acc.n[k] = Tally(taken, k)
                      + (IF k \in left THEN ValueOf(next, k[3]) ELSE 0)
      /\ state.complete => taken = samples /\ whole
      /\ state.status \in {"ready"} <=> state.complete
      /\ state.status = "unavailable" <=> state = NotSealed

SampledSections == {"chunks", "filters", "blocks", "tokens", "lengths",
                    "distances"}

SamplesFor(how, r) ==
  [id \in SampledSections |->
     CASE id = "chunks" /\ how = "frame" ->
            <<[type |-> "fcTL", bytes |-> 26, bad |-> FALSE]>>
            \o [k \in DOMAIN r.spans |->
                  [r.spans[k] EXCEPT !.bytes =
                     IF r.spans[k].type = "fdAT" THEN @ + 4 ELSE @]]
       [] id = "chunks" /\ how # "frame" -> r.chunks
       [] id = "filters" -> r.stages.lines
       [] id = "blocks" -> r.stream.blocks
       [] OTHER -> r.stream.facts]

GoodLines(how, r) ==
  \A k \in DOMAIN r.stages.lines :
     ~r.stages.lines[k].bad
     /\ (how = "frame" => r.stages.lines[k].type \in 0..4)

(* The totals of an overview that is ready.  "Both values must come from   *)
(* fully verified scans before the section reports them"                   *)
(* (statistics_collector.cpp:602-605) holds but for the pipeline of a      *)
(* document whose scan of the chunks stopped after an IDAT: it reports the *)
(* bytes of the IDATs it took as those of the document (lines 259, 626).   *)
ReadyTotals(how, r, acc) ==
  LET took == acc.samples["chunks"]
  IN  CASE how = "collect" -> acc.totals = r.totals
        [] how = "frame" ->
             acc.totals = <<FoldLeft(LAMBDA sum, s : sum + s.bytes, 0,
                                     r.spans), r.stream.output>>
        [] how = "adapt" ->
             acc.totals = <<BytesOfIdat(r.chunks, Len(r.chunks)),
                            r.stream.output>>
        [] how = "document" ->
             /\ acc.totals = <<BytesOfIdat(r.chunks, took), r.stream.output>>
             /\ took = Len(r.chunks) \/ HasIdat(r.chunks, took)

(* A section that was never reached says nothing; the pipeline of a        *)
(* document always ends all of its own.                                    *)
Ended(how, r, acc) ==
  how = "document" =>
    \A id \in SectionIds \ {"filters", "overview"} :
       acc.state[id].status # "unavailable"

StatisticsExact(how, r, acc) ==
  LET samples == SamplesFor(how, r)
      whole(id) == CASE id = "filters" -> /\ how \in {"adapt", "document"} =>
                                               r.stages.success
                                          /\ GoodLines(how, r)
                     [] id = "chunks" -> \/ how # "frame"
                                         \/ FrameVerified(r)
                     [] OTHER -> r.stream.success \/ how = "collect"
      overview == acc.state["overview"]
      matches == acc.n[<<"tokens", <<"match">>, "count">>]
      sum(id) == FoldLeft(LAMBDA n, k : n + acc.n[k], 0,
                          SetToSeq(MetricKeys(id, BucketsOf(acc, id))))
  IN  /\ \A id \in SampledSections :
           SectionExact(acc, id, samples[id], whole(id))
      /\ \A id \in TokenGroup : acc.state[id] = acc.state["tokens"]
      /\ acc.state["tokens"].status # "overflow" =>
           sum("lengths") = matches /\ sum("distances") = matches
      /\ overview.status = "ready" => ReadyTotals(how, r, acc)
      /\ \A id \in SectionIds :
           acc.state[id].status = "cancelled" => r.cancel_at # 0
      /\ Ended(how, r, acc)
      /\ CompleteSnapshot(acc) =>
           \A id \in {"chunks", "filters", "blocks", "tokens"} :
              acc.samples[id] = Len(samples[id])
=============================================================================
