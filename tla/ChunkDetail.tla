---------------------------- MODULE ChunkDetail ----------------------------
(***************************************************************************)
(* What the inspector tells of one chunk (chunk_detail.cpp).  A chunk has  *)
(* a type, a length, whether its payload can be read and, for a text, the  *)
(* bytes of it, of which only 0 matters.  A field of a text is how many    *)
(* bytes of it there are.                                                  *)
(***************************************************************************)
EXTENDS Integers, Sequences, SequencesExt

CONSTANT MaxVariable  (* the longest text that is looked at                *)

FixedLength ==
  [IHDR |-> 13, cHRM |-> 32, gAMA |-> 4, sRGB |-> 1, pHYs |-> 9, tIME |-> 7]

Texts == {"tEXt", "zTXt", "iTXt"}

(* The first 0 from start on, as an index from 0, or -1.                   *)
NulPosition(bytes, start) ==
  LET at == {k \in start..Len(bytes) - 1 : bytes[k + 1] = 0}
  IN  IF at = {} THEN -1 ELSE CHOOSE k \in at : \A j \in at : k <= j

Malformed == [basic_only |-> TRUE, parts |-> <<>>]

Parts(parts) == [basic_only |-> FALSE, parts |-> parts]

ParseText(bytes) ==
  LET separator == NulPosition(bytes, 0)
  IN  IF separator = -1 THEN Malformed
      ELSE Parts(<<separator, Len(bytes) - separator - 1>>)

(* Wrong: the byte of the method is not asked for.                         *)
ParseZtxtShort(bytes) ==
  LET separator == NulPosition(bytes, 0)
  IN  IF separator = -1 THEN Malformed
      ELSE Parts(<<separator, 1, Len(bytes) - separator - 2>>)

ParseZtxt(bytes) ==
  LET separator == NulPosition(bytes, 0)
  IN  IF separator = -1 \/ separator + 2 > Len(bytes) THEN Malformed
      ELSE Parts(<<separator, 1, Len(bytes) - separator - 2>>)

ParseItxt(bytes) ==
  LET keyword == NulPosition(bytes, 0)
      method == keyword + 2
      language == NulPosition(bytes, method + 1)
      translated == NulPosition(bytes, language + 1)
  IN  IF keyword = -1 \/ method >= Len(bytes) \/ language = -1
           \/ translated = -1
      THEN Malformed
      ELSE Parts(<<keyword, 2, language - method - 1,
                   translated - language - 1, Len(bytes) - translated - 1>>)

Readable(c, ok) ==
  IF ok /\ c.readable THEN Parts(<<c.length>>) ELSE Malformed

Describe(c) ==
  CASE c.type = "IDAT" -> Malformed
    [] c.type = "IEND" -> Malformed
    [] c.type \in DOMAIN FixedLength ->
         Readable(c, c.length = FixedLength[c.type])
    [] c.type = "PLTE" ->
         Readable(c, c.length \in 1..768 /\ c.length % 3 = 0)
    [] c.type = "tRNS" -> Readable(c, c.length \in 1..1024)
    [] c.type \in Texts /\ (~c.readable \/ c.length > MaxVariable) ->
         Malformed
    [] c.type = "tEXt" /\ c.readable /\ c.length <= MaxVariable ->
         ParseText(c.bytes)
    [] c.type = "zTXt" /\ c.readable /\ c.length <= MaxVariable ->
         ParseZtxt(c.bytes)
    [] c.type = "iTXt" /\ c.readable /\ c.length <= MaxVariable ->
         ParseItxt(c.bytes)
    [] OTHER -> Malformed

(* A fixed-point number: what is before the point, and the digits after it *)
(* without the zeros at the end, of which one is kept.                     *)
FractionDigits(value, n) == [k \in 1..n |-> (value \div 10^(n - k)) % 10]

Scaled(value, n) ==
  LET digits == FractionDigits(value % 10^n, n)
      used == {k \in 1..n : digits[k] # 0}
  IN  [whole |-> value \div 10^n,
       digits |-> IF used = {} THEN <<0>>
                  ELSE SubSeq(digits, 1,
                         CHOOSE k \in used : \A j \in used : j <= k)]

-----------------------------------------------------------------------------
(* The parts that are told of a text and its separators are all of it and  *)
(* a decoded chunk was read in full.                                       *)
DetailExact(c) ==
  LET d == Describe(c)
      told == FoldLeft(LAMBDA sum, n : sum + n, 0, d.parts)
      separators == CASE c.type \in {"tEXt", "zTXt"} -> 1
                      [] c.type = "iTXt" -> 3
                      [] OTHER -> 0
  IN  ~d.basic_only =>
        /\ c.readable /\ told + separators = c.length
        /\ \A k \in DOMAIN d.parts : d.parts[k] >= 0

(* A number is told exactly, with no more digits than it needs.            *)
ScaledExact(value, n) ==
  LET s == Scaled(value, n)
      back == FoldLeft(LAMBDA sum, d : 10 * sum + d, s.whole, s.digits)
  IN  /\ Len(s.digits) <= n /\ back * 10^(n - Len(s.digits)) = value
      /\ Last(s.digits) = 0 => Len(s.digits) = 1
=============================================================================
