----------------------------- MODULE IndexCodec ----------------------------
(***************************************************************************)
(* The file of IndexCache: serialize() and deserialize() of                *)
(* index_cache.cpp.  A byte is a digit in base Base, least significant     *)
(* first; the widths of integers and the limits are constants.  The key's  *)
(* strings are one field, and magic, schema and reserved word another.     *)
(***************************************************************************)
EXTENDS Integers, Sequences

CONSTANTS
  Base, Wide, Mid,    (* 256, 8 and 4                                      *)
  DictionarySize,     (* kWindowSize                                       *)
  Magic               (* kMagic, the schema and the reserved word          *)

LOCAL Smaller(a, b) == IF a < b THEN a ELSE b

Digits(v, width) == [k \in 1..width |-> (v \div Base^(k - 1)) % Base]

Number(bytes) ==
  LET sum[k \in 0..Len(bytes)] ==
        IF k = 0 THEN 0 ELSE sum[k - 1] + bytes[k] * Base^(k - 1)
  IN  sum[Len(bytes)]

(* The fields of a record, one after the other.                            *)
Fields(values, widths) ==
  LET all[k \in 0..Len(widths)] ==
        IF k = 0 THEN <<>> ELSE all[k - 1] \o Digits(values[k], widths[k])
  IN  all[Len(widths)]

Each(Write(_), records) ==
  LET all[k \in 0..Len(records)] ==
        IF k = 0 THEN <<>> ELSE all[k - 1] \o Write(records[k])
  IN  all[Len(records)]

(* index, type, last, input_bit_begin and _end, output_begin and _end      *)
BlockWidths == <<Wide, 1, 1, Wide, Wide, Wide, Wide>>
(* zlib_header_bits, total_output_bytes, the wrapper's six and the status  *)
HeadWidths == <<Wide, Wide, 1, 1, 1, 1, 1, 1, 1>>
(* input_byte, prime_bits, prime_value, output_offset, dictionary size     *)
PointWidths == <<Wide, 1, 1, Wide, Mid>>
(* total_output_bytes, zlib_header, adler_ok                               *)
FootWidths == <<Wide, 1, 1, 1>>

Sum(widths) ==
  LET sum[k \in 0..Len(widths)] ==
        IF k = 0 THEN 0 ELSE sum[k - 1] + widths[k]
  IN  sum[Len(widths)]

BlockOk(b) == b[2] <= 2 /\ b[3] <= 1 /\ b[4] <= b[5] /\ b[6] <= b[7]

PointOk(p) ==
  /\ p.fields[2] <= 7 /\ Len(p.dictionary) <= DictionarySize
  /\ p.fields[4] = 0 => p.dictionary = <<>>

Optional(o, width) ==
  IF o = <<>> THEN <<0>> ELSE <<1>> \o Digits(o[1], width)

OptionalWidths == <<Mid, Mid, Wide, Wide>>

WritePoint(p) ==
  Fields(Append(p.fields, Len(p.dictionary)), PointWidths) \o p.dictionary

(* write_data() refuses what read_data() would, but for an empty or        *)
(* unsorted list of points.                                                *)
Writable(d) ==
  /\ \A k \in DOMAIN d.blocks : BlockOk(d.blocks[k])
  /\ d.head[9] <= 2
  /\ \A k \in DOMAIN d.points : PointOk(d.points[k])

Serialize(key, d) ==
  Magic \o key
    \o Digits(Len(d.blocks), Wide)
    \o Each(LAMBDA b : Fields(b, BlockWidths), d.blocks)
    \o Fields(d.head, HeadWidths)
    \o Optional(d.optionals[1], Mid) \o Optional(d.optionals[2], Mid)
    \o Optional(d.optionals[3], Wide) \o Optional(d.optionals[4], Wide)
    \o Digits(Len(d.points), Wide)
    \o Each(WritePoint, d.points)
    \o Fields(d.foot, FootWidths)

-----------------------------------------------------------------------------
(***************************************************************************)
(* Reader: x is where it stands and whether all has gone well.             *)
(***************************************************************************)
Remaining(bytes, x) == Len(bytes) - x.at

ReadBytes(bytes, x, n) ==
  IF ~x.ok \/ n > Remaining(bytes, x)
  THEN [ok |-> FALSE, at |-> x.at, value |-> <<>>]
  ELSE [ok |-> TRUE, at |-> x.at + n,
        value |-> SubSeq(bytes, x.at + 1, x.at + n)]

ReadFields(bytes, x, widths) ==
  LET read == ReadBytes(bytes, x, Sum(widths))
      from(k) == Sum(SubSeq(widths, 1, k - 1))
  IN  [ok |-> read.ok, at |-> read.at,
       value |-> IF ~read.ok THEN <<>>
                 ELSE [k \in 1..Len(widths) |->
                         Number(SubSeq(read.value, from(k) + 1,
                                       from(k) + widths[k]))]]

(* n records, each read by Read, which fails by clearing ok.               *)
ReadEach(Read(_), x, n) ==
  LET all[k \in 0..n] ==
        IF k = 0 THEN [ok |-> x.ok, at |-> x.at, value |-> <<>>]
        ELSE LET s == all[k - 1]
                 r == Read(s)
             IN  IF ~s.ok THEN s
                 ELSE [ok |-> r.ok, at |-> r.at,
                       value |-> Append(s.value, r.value)]
  IN  all[n]

ReadBlock(bytes, x) ==
  LET r == ReadFields(bytes, x, BlockWidths)
  IN  [r EXCEPT !.ok = r.ok /\ BlockOk(r.value)]

ReadOptional(bytes, x, width) ==
  LET present == ReadFields(bytes, x, <<1>>)
      raw == ReadFields(bytes, present, <<width>>)
  IN  IF ~present.ok THEN present
      ELSE IF present.value[1] > 1 THEN [present EXCEPT !.ok = FALSE]
      ELSE IF present.value[1] = 0 THEN [present EXCEPT !.value = <<>>]
      ELSE raw

ReadPoint(bytes, x) ==
  LET r == ReadFields(bytes, x, PointWidths)
      dictionary == ReadBytes(bytes, r, r.value[5])
      point == [fields |-> SubSeq(r.value, 1, 4),
                dictionary |-> dictionary.value]
  IN  IF ~r.ok \/ r.value[2] > 7 \/ r.value[5] > DictionarySize
         \/ (r.value[4] = 0 /\ r.value[5] # 0)
      THEN [r EXCEPT !.ok = FALSE]
      ELSE [dictionary EXCEPT !.value = point]

(* The points are sorted by output and the first is at its beginning.      *)
Sorted(points) ==
  /\ points[1].fields[4] = 0
  /\ \A k \in 2..Len(points) :
       points[k - 1].fields[4] <= points[k].fields[4]

(* A count beyond what the rest of the file could hold is refused unread.  *)
ReadCount(bytes, x, least, footer, widths) ==
  LET n == ReadFields(bytes, x, <<Wide>>)
  IN  [n EXCEPT !.ok = /\ n.ok
                       /\ n.value[1] >= least
                       /\ Remaining(bytes, n) >= footer
                       /\ n.value[1] <= (Remaining(bytes, n) - footer)
                                          \div Sum(widths)]

(* read_data(), which must use up the file.                                *)
ReadData(bytes, x) ==
  LET count == ReadCount(bytes, x, 0, 0, BlockWidths)
      blocks == ReadEach(LAMBDA y : ReadBlock(bytes, y), count,
                         IF count.ok THEN count.value[1] ELSE 0)
      head == ReadFields(bytes, blocks, HeadWidths)
      headOk == head.ok /\ head.value[7] <= 1 /\ head.value[8] <= 1
                        /\ head.value[9] <= 2
      o1 == ReadOptional(bytes, [head EXCEPT !.ok = headOk], Mid)
      o2 == ReadOptional(bytes, o1, Mid)
      o3 == ReadOptional(bytes, o2, Wide)
      o4 == ReadOptional(bytes, o3, Wide)
      many == ReadCount(bytes, o4, 1, Sum(FootWidths), PointWidths)
      points == ReadEach(LAMBDA y : ReadPoint(bytes, y), many,
                         IF many.ok THEN many.value[1] ELSE 0)
      foot == ReadFields(bytes, points, FootWidths)
  IN  [ok |-> foot.ok /\ Sorted(points.value) /\ foot.value[4] <= 1
                /\ Remaining(bytes, foot) = 0,
       data |-> [blocks |-> blocks.value, head |-> head.value,
                 optionals |-> <<o1.value, o2.value, o3.value, o4.value>>,
                 points |-> points.value, foot |-> foot.value]]

(* Wrong: what follows the last field is not looked at.                    *)
DeserializeLax(key, bytes) ==
  LET head == Magic \o key
      n == Smaller(Len(head), Len(bytes))
      read == ReadData(bytes \o <<0>>, [ok |-> TRUE, at |-> Len(head)])
  IN  [ok |-> SubSeq(bytes, 1, n) = head /\ read.ok, data |-> read.data]

Deserialize(key, bytes) ==
  LET head == Magic \o key
      n == Smaller(Len(head), Len(bytes))
      read == ReadData(bytes, [ok |-> TRUE, at |-> Len(head)])
  IN  [ok |-> SubSeq(bytes, 1, n) = head /\ read.ok, data |-> read.data]

-----------------------------------------------------------------------------
(* What is written is read back, and read back only when all of it is      *)
(* there: no shorter file, no longer one and no other key's is an index,   *)
(* and a file with one byte changed is refused or is what its data would   *)
(* be written as.                                                          *)
CodecExact(key, other, d) ==
  LET file == Serialize(key, d)
      read == Deserialize(key, file)
  IN  /\ Writable(d) /\ d.points # <<>> /\ Sorted(d.points) =>
           read.ok /\ read.data = d
      /\ read.ok => read.data = d
      /\ \A n \in 0..(Len(file) - 1) :
           ~Deserialize(key, SubSeq(file, 1, n)).ok
      /\ \A b \in 0..(Base - 1) : ~Deserialize(key, Append(file, b)).ok
      /\ ~Deserialize(other, file).ok
      /\ \A k \in DOMAIN file :
           LET changed == [file EXCEPT ![k] = (@ + 1) % Base]
               found == Deserialize(key, changed)
           IN  found.ok => Serialize(key, found.data) = changed
=============================================================================
