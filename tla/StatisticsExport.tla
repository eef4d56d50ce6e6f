-------------------------- MODULE StatisticsExport --------------------------
(***************************************************************************)
(* The JSON and the CSV of the statistics of a document or of a frame      *)
(* (serialization.cpp, serialization_sections.cpp, frame_statistics.cpp of *)
(* libs/statistics).  A text is a sequence of characters; a number is one  *)
(* character of its own, and so is a word of the schema.  A snapshot d is  *)
(* [acc, errors], errors giving every section its text.                    *)
(***************************************************************************)
EXTENDS Statistics, TLC

Order == <<"overview", "chunks", "filters", "blocks", "tokens", "lengths",
           "distances">>

(* section_state_consistent(), first_contradictory_section()               *)
Consistent(state) ==
  state.complete => state.status = "ready" /\ state.scope = "whole"

Contradictory(d) == SelectSeq(Order, LAMBDA id : ~Consistent(d.acc.state[id]))

Available(d, id) == d.acc.state[id].status # "unavailable"

HasTotals(d) == d.acc.totals # <<>>

(* The names of the numbers of a section, and of those of its buckets.     *)
Totalled(id) ==
  CASE id = "overview" -> <<"compressed_bytes", "inflated_bytes">>
    [] id = "filters" -> <<"count", "bytes", "invalid">>
    [] id \in {"lengths", "distances"} -> <<>>
    [] OTHER -> Metrics[id]

(* Wrong: the totals of an overview that has ended without them are 0.     *)
NumberAsZero(d, id, metric) ==
  IF ~Available(d, id) THEN <<>>
  ELSE IF id # "overview" THEN <<d.acc.n[<<id, All, metric>>]>>
  ELSE <<IF ~HasTotals(d) THEN 0
         ELSE d.acc.totals[IF metric = "compressed_bytes" THEN 1 ELSE 2]>>

(* A number, or nothing when its section was never reached.                *)
NumberOf(d, id, metric) ==
  IF ~Available(d, id) \/ (id = "overview" /\ ~HasTotals(d)) THEN <<>>
  ELSE IF id # "overview" THEN <<d.acc.n[<<id, All, metric>>]>>
  ELSE <<d.acc.totals[IF metric = "compressed_bytes" THEN 1 ELSE 2]>>

BucketList(d, id) ==
  LET fixed == [filters |-> [k \in 1..5 |-> <<k - 1>>],
                blocks |-> <<<<"stored">>, <<"fixed">>, <<"dynamic">>>>,
                tokens |-> <<<<"literal">>, <<"match">>, <<"eob">>>>]
  IN  IF ~Available(d, id) \/ id = "overview" THEN <<>>
      ELSE IF id \in DOMAIN fixed THEN fixed[id]
      ELSE SetToSeq(BucketsOf(d.acc, id))

BucketValues(d, id, bucket) ==
  [k \in DOMAIN Metrics[id] |-> d.acc.n[<<id, bucket, Metrics[id][k]>>]]

(* What a bucket is called: the number or the bytes of its type.           *)
Text(n) == <<ToString(n)>>

KeyText(id, bucket) == IF id = "chunks" THEN bucket[1] ELSE Text(bucket[1])

-----------------------------------------------------------------------------
(* JSON: a string has no quote, backslash or control character left.       *)
Escaped == [quote |-> "quote", backslash |-> "backslash", lf |-> "n",
            cr |-> "r", tab |-> "t"]

JsonString(v) ==
  <<"quote">>
  \o FlattenSeq([k \in DOMAIN v |->
       IF v[k] = "control" THEN <<"backslash", "u", "control code">>
       ELSE IF v[k] \in DOMAIN Escaped THEN <<"backslash", Escaped[v[k]]>>
       ELSE <<v[k]>>])
  \o <<"quote">>

JsonSection(d, id) ==
  LET buckets == BucketList(d, id)
  IN  [state |-> d.acc.state[id],
       error |-> IF d.errors[id] = <<>> THEN <<>>
                 ELSE JsonString(d.errors[id]),
       numbers |-> [k \in DOMAIN Totalled(id) |->
                      NumberOf(d, id, Totalled(id)[k])],
       known |-> id = "overview" /\ HasTotals(d),
       buckets |-> [k \in DOMAIN buckets |->
         [key |-> IF id = "chunks" THEN JsonString(KeyText(id, buckets[k]))
                  ELSE KeyText(id, buckets[k]),
          values |-> BucketValues(d, id, buckets[k])]]]

Json(d) == [id \in SectionIds |-> JsonSection(d, id)]

-----------------------------------------------------------------------------
(* CSV: rows of fields.                                                    *)
(* Wrong: a quote in a quoted field is not doubled.                        *)
CsvFieldPlain(v) ==
  IF ToSet(v) \intersect {"quote", "comma", "lf", "cr"} = {} THEN v
  ELSE <<"quote">> \o v \o <<"quote">>

CsvField(v) ==
  IF ToSet(v) \intersect {"quote", "comma", "lf", "cr"} = {} THEN v
  ELSE <<"quote">>
       \o FlattenSeq([k \in DOMAIN v |-> IF v[k] = "quote"
                                         THEN <<"quote", "quote">>
                                         ELSE <<v[k]>>])
       \o <<"quote">>

CsvRow(leading, fields) ==
  LET cells == leading \o fields
  IN  FlattenSeq([k \in DOMAIN cells |->
        CsvField(cells[k])
        \o <<IF k = Len(cells) THEN "lf" ELSE "comma">>])

(* Section, metric, key and value of a row; the unit follows from them.    *)
StateRows(d, id) ==
  LET state == d.acc.state[id]
      row(metric, value) == <<<<id>>, <<metric>>, <<>>, value>>
  IN  <<row("status", <<state.status>>),
        row("complete", Text(state.complete)),
        row("scope", <<state.scope>>)>>
      \o (IF d.errors[id] = <<>> THEN <<>>
          ELSE <<row("error", d.errors[id])>>)

NumberRows(d, id) ==
  LET metrics == Totalled(id)
  IN  [k \in DOMAIN metrics |->
         LET v == NumberOf(d, id, metrics[k])
         IN  <<<<id>>, <<metrics[k]>>, <<>>,
               IF v = <<>> THEN <<>> ELSE Text(v[1])>>]
      \o (IF id # "overview" THEN <<>>
          ELSE <<<<<<id>>, <<"known">>, <<>>, Text(HasTotals(d))>>>>)

BucketRows(d, id) ==
  LET buckets == BucketList(d, id)
      rows(b) == [k \in DOMAIN Metrics[id] |->
                    <<<<id>>, <<"bucket", Metrics[id][k]>>, KeyText(id, b),
                      Text(BucketValues(d, id, b)[k])>>]
  IN  FlattenSeq([k \in DOMAIN buckets |-> rows(buckets[k])])

CsvRows(d) ==
  FlattenSeq([k \in DOMAIN Order |->
    StateRows(d, Order[k]) \o NumberRows(d, Order[k])
    \o BucketRows(d, Order[k])])

(* The file is what the rows give, one after the other.                    *)
Csv(d, leading) ==
  LET rows == CsvRows(d)
  IN  [k \in DOMAIN rows |-> CsvRow(leading, rows[k])]

(* csv_field_contains_carriage_return()                                    *)
HasReturn(d) ==
  \/ \E id \in SectionIds : "cr" \in ToSet(d.errors[id])
  \/ \E b \in BucketsOf(d.acc, "chunks") : "cr" \in ToSet(b[1])

Export(d, leading) ==
  IF Contradictory(d) # <<>>
  THEN [json |-> <<>>, csv |-> <<>>, refused |-> Contradictory(d)[1]]
  ELSE [json |-> <<Json(d)>>,
        csv |-> IF HasReturn(d) THEN <<>> ELSE <<Csv(d, leading)>>,
        refused |-> ""]

-----------------------------------------------------------------------------
(* A frame f adds its identity, its size, its bytes and their ratio, which *)
(* is there only when everything was counted.                              *)
Ratio(d, f) ==
  IF CompleteSnapshot(d.acc) /\ f.inflated > 0
  THEN <<ToString(f.payload), "/", ToString(f.inflated)>> ELSE <<>>

FrameRows(d, f) ==
  LET row(metric, value) == <<<<"frame">>, <<metric>>, <<>>, value>>
  IN  <<row("kind", <<"animation_frame">>), row("index", Text(f.index)),
        row("width", Text(f.width)), row("height", Text(f.height)),
        row("payload", Text(f.payload)),
        row("chunk_overhead", Text(f.overhead)),
        row("inflated", Text(f.inflated)), row("ratio", Ratio(d, f))>>

ExportFrame(d, f) ==
  LET leading == <<<<"pnga.frame-statistics">>, <<"1">>, Text(f.index)>>
      e == Export(d, leading)
      rows == FrameRows(d, f)
      head == [k \in DOMAIN rows |-> CsvRow(leading, rows[k])]
  IN  IF ~f.animation \/ e.json = <<>>
      THEN [json |-> <<>>, csv |-> <<>>, ratio |-> <<>>]
      ELSE [json |-> e.json, ratio |-> Ratio(d, f),
            csv |-> IF e.csv = <<>> THEN <<>> ELSE <<head \o e.csv[1]>>]

-----------------------------------------------------------------------------
(* What a reader gets back: the rows of a CSV (RFC 4180) and the text of a *)
(* JSON string.                                                            *)
CsvStep(t, c) ==
  LET end == [t EXCEPT !.row = Append(@, t.field), !.field = <<>>,
                       !.mode = "plain"]
  IN  CASE t.mode = "quoted" ->
             IF c = "quote" THEN [t EXCEPT !.mode = "closed"]
             ELSE [t EXCEPT !.field = Append(@, c)]
        [] t.mode # "quoted" /\ c = "comma" -> end
        [] t.mode # "quoted" /\ c = "lf" ->
             [end EXCEPT !.rows = Append(@, end.row), !.row = <<>>]
        [] t.mode # "quoted" /\ c = "quote" ->
             IF t.mode = "closed"
             THEN [t EXCEPT !.field = Append(@, c), !.mode = "quoted"]
             ELSE [t EXCEPT !.mode = "quoted"]
        [] OTHER -> [t EXCEPT !.field = Append(@, c)]

(* A row that is read from where one may begin ends where the next may.    *)
CsvBetween == [rows |-> <<>>, row |-> <<>>, field |-> <<>>, mode |-> "plain"]

CsvReadRow(bytes) == FoldLeft(CsvStep, CsvBetween, bytes)

CsvWellFormed(csv) ==
  \A k \in DOMAIN csv :
     LET t == CsvReadRow(csv[k])
     IN  Len(t.rows) = 1 /\ t = [CsvBetween EXCEPT !.rows = t.rows]

CsvRead(csv) == [k \in DOMAIN csv |-> CsvReadRow(csv[k]).rows[1]]

JsonStep(t, c) ==
  CASE t.mode = "plain" /\ c = "backslash" -> [t EXCEPT !.mode = "escape"]
    [] t.mode = "plain" /\ c = "quote" -> [t EXCEPT !.ends = @ + 1]
    [] t.mode = "escape" /\ c = "u" -> [t EXCEPT !.mode = "code"]
    [] t.mode = "escape" /\ c # "u" ->
         [t EXCEPT !.mode = "plain",
            !.text = Append(@, CHOOSE e \in DOMAIN Escaped : Escaped[e] = c)]
    [] t.mode = "code" -> [t EXCEPT !.mode = "plain",
                                    !.text = Append(@, "control")]
    [] OTHER -> [t EXCEPT !.text = Append(@, c)]

JsonRead(bytes) ==
  FoldLeft(JsonStep, [text |-> <<>>, mode |-> "plain", ends |-> 0], bytes)

RowsOf(rows, id, metric) ==
  SelectSeq(rows, LAMBDA row : row[1] = <<id>> /\ row[2] = metric)

(* The two tell the same, no value is told that is not known, and a reader *)
(* gets every field back.                                                  *)
ExportExact(d, e, leading) ==
  LET n == Len(leading)
      all == CsvRead(e.csv[1])
      rows == [k \in DOMAIN all |-> SubSeq(all[k], n + 1, n + 4)]
      json == e.json[1]
      value(id, metric) == RowsOf(rows, id, <<metric>>)[1][4]
      same(id) ==
        /\ value(id, "status") = <<json[id].state.status>>
        /\ value(id, "complete") = Text(json[id].state.complete)
        /\ value(id, "scope") = <<json[id].state.scope>>
        /\ (d.errors[id] # <<>> => value(id, "error") = d.errors[id])
        /\ \A k \in DOMAIN Totalled(id) :
             value(id, Totalled(id)[k]) =
               (IF json[id].numbers[k] = <<>> THEN <<>>
                ELSE Text(json[id].numbers[k][1]))
        /\ id # "overview" =>
             \A m \in DOMAIN Metrics[id] :
               LET told == RowsOf(rows, id, <<"bucket", Metrics[id][m]>>)
               IN  /\ Len(told) = Len(json[id].buckets)
                   /\ \A k \in DOMAIN told :
                        /\ told[k][3] = JsonRead(json[id].buckets[k].key).text
                        /\ told[k][4] = Text(json[id].buckets[k].values[m])
      read(id) ==
        /\ LET text == JsonRead(json[id].error)
           IN  text.text = d.errors[id] /\ text.ends \in {0, 2}
        /\ id = "chunks" =>
             {JsonRead(json[id].buckets[k].key).text :
                k \in DOMAIN json[id].buckets}
               = (IF Available(d, id) THEN {b[1] : b \in BucketsOf(d.acc, id)}
                  ELSE {})
      known(id) ==
        \A k \in DOMAIN Totalled(id) :
          json[id].numbers[k] # <<>> =>
            Available(d, id) /\ (id = "overview" => HasTotals(d))
  IN  /\ (e.json = <<>> <=> Contradictory(d) # <<>>)
      /\ (e.csv = <<>> <=> Contradictory(d) # <<>> \/ HasReturn(d))
      /\ e.json # <<>> => \A id \in SectionIds : read(id) /\ known(id)
      /\ e.csv # <<>> =>
           /\ CsvWellFormed(e.csv[1])
           /\ \A k \in DOMAIN all : Len(all[k]) = n + 4
           /\ \A k \in DOMAIN all : SubSeq(all[k], 1, n) = leading
           /\ \A id \in SectionIds : same(id)

(* The ratio of a frame is the one of numbers the sections vouch for.      *)
FrameExportExact(d, f) ==
  LET e == ExportFrame(d, f)
  IN  /\ e.json # <<>> => f.animation
      /\ e.ratio # <<>> => \A id \in SectionIds :
                             d.acc.state[id].complete
      /\ e.csv # <<>> =>
           LET rows == CsvRead(e.csv[1])
           IN  /\ rows[8][7] = e.ratio
               /\ CsvWellFormed(e.csv[1])
               /\ \A k \in DOMAIN rows : Len(rows[k]) = 7
=============================================================================
