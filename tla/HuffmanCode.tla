---------------------------- MODULE HuffmanCode ----------------------------
(***************************************************************************)
(* The bits of a Deflate stream and the canonical Huffman codes read from  *)
(* them: BitReader, build_huffman_table and decode_symbol of               *)
(* token_decoder.cpp.  The widths are constants, so that TLC can run       *)
(* through a Deflate with small alphabets.                                 *)
(***************************************************************************)
EXTENDS Integers, Sequences, FiniteSets

CONSTANTS
  ByteBits,     (* bits of a byte: 8                                       *)
  WindowBytes   (* BitReader::kWindowBytes: what one refill loads at most  *)

ASSUME BitsAssumption == ByteBits \in Nat \ {0} /\ WindowBytes \in Nat \ {0}

Least(a, b) == IF a < b THEN a ELSE b
Greatest(a, b) == IF a < b THEN b ELSE a

(* n times Step from s: the loops of this code, which all end by a flag in *)
(* the state that makes Step the identity.                                 *)
Iterated(Step(_), s, n) ==
  LET after[k \in 0..n] == IF k = 0 THEN s ELSE Step(after[k - 1])
  IN  after[n]

SumTo(f(_), n) ==
  LET sum[k \in 0..n] == IF k = 0 THEN 0 ELSE sum[k - 1] + f(k)
  IN  sum[n]

(***************************************************************************)
(* An input: its bits, and what interrupts it.  should_cancel() answers    *)
(* TRUE from its call number cancel_at on, and source.read() fails at its  *)
(* call number fail_at; 0 stands for never.                                *)
(***************************************************************************)
RangeBytes(input) == Len(input.bits) \div ByteBits

FirstReader ==
  [pos |-> 0, loaded |-> 0, polls |-> 0, reads |-> 0, halted |-> "no"]

CancelledNow(input, r) ==
  input.cancel_at # 0 /\ r.polls + 1 >= input.cancel_at

Polled(r) == [r EXCEPT !.polls = @ + 1]

(* refill(): the window slides to the present byte and is filled up.       *)
Refilled(input, r, byte) ==
  LET end == Least(RangeBytes(input), byte + WindowBytes)
      have == Greatest(r.loaded, byte)
  IN  IF CancelledNow(input, r)
      THEN [Polled(r) EXCEPT !.halted = "cancelled"]
      ELSE IF end = have THEN Polled(r)
      ELSE IF r.reads + 1 = input.fail_at
      THEN [Polled(r) EXCEPT !.halted = "io", !.reads = @ + 1]
      ELSE [Polled(r) EXCEPT !.loaded = end, !.reads = @ + 1]

(* ensure_bytes(): "needed" bytes from the present one are loaded.         *)
Ensured(input, r, needed) ==
  LET byte == r.pos \div ByteBits
      full == Refilled(input, r, byte)
  IN  IF needed > RangeBytes(input) - byte THEN [ok |-> FALSE, r |-> r]
      ELSE IF byte + needed <= r.loaded THEN [ok |-> TRUE, r |-> r]
      ELSE [ok |-> full.halted = "no" /\ byte + needed <= full.loaded,
            r |-> full]

(* read_bits(): the first bit read is the lowest of the value.             *)
ReadBits(input, r, count) ==
  LET fits == r.pos + count <= RangeBytes(input) * ByteBits
      e == Ensured(input, r,
             ((r.pos % ByteBits) + count + ByteBits - 1) \div ByteBits)
  IN  IF ~fits THEN [ok |-> FALSE, r |-> r, value |-> 0]
      ELSE IF ~e.ok THEN [ok |-> FALSE, r |-> e.r, value |-> 0]
      ELSE [ok |-> TRUE, r |-> [e.r EXCEPT !.pos = @ + count],
            value |-> SumTo(LAMBDA k : input.bits[r.pos + k] * 2^(k - 1),
                            count)]

Aligned(r) ==
  [r EXCEPT !.pos = ((@ + ByteBits - 1) \div ByteBits) * ByteBits]

-----------------------------------------------------------------------------
(***************************************************************************)
(* Canonical codes.  lengths[s + 1] is the code length of symbol s.        *)
(***************************************************************************)
Count(lengths, b) ==
  IF b = 0 THEN 0 ELSE Cardinality({s \in DOMAIN lengths : lengths[s] = b})

(* Wrong: codes of one length start where the count of that length ends.   *)
FirstCodeShifted(lengths, bits) ==
  LET first[b \in 0..bits] ==
        IF b = 0 THEN 0 ELSE (first[b - 1] + Count(lengths, b)) * 2
  IN  first[bits]

FirstCode(lengths, bits) ==
  LET first[b \in 0..bits] ==
        IF b = 0 THEN 0 ELSE (first[b - 1] + Count(lengths, b - 1)) * 2
  IN  first[bits]

(* What is left of the code space after the codes of at most "bits" bits.  *)
Left(lengths, bits) ==
  LET left[b \in 0..bits] ==
        IF b = 0 THEN 1 ELSE left[b - 1] * 2 - Count(lengths, b)
  IN  left[bits]

(* Symbols by code length and then by value, as in table->symbols.         *)
Before(lengths, s, t) ==
  lengths[s] < lengths[t] \/ (lengths[s] = lengths[t] /\ s < t)

Symbols(lengths) ==
  LET used == {s \in DOMAIN lengths : lengths[s] # 0}
  IN  [k \in 1..Cardinality(used) |->
         CHOOSE s \in used :
           Cardinality({t \in used : Before(lengths, t, s)}) = k - 1]

CanonicalCode(lengths, s) ==
  FirstCode(lengths, lengths[s])
    + Cardinality({t \in 1..(s - 1) : lengths[t] = lengths[s]})

(* build_huffman_table()                                                   *)
Empty(lengths) == \A s \in DOMAIN lengths : lengths[s] = 0

BuildError(lengths, max, allow_incomplete) ==
  IF max = 0 \/ lengths = <<>> THEN "dimensions"
  ELSE IF \E s \in DOMAIN lengths : lengths[s] > max THEN "length"
  ELSE IF Empty(lengths) THEN "none"
  ELSE IF \E b \in 1..max : Left(lengths, b) < 0 THEN "oversubscribed"
  ELSE IF /\ Left(lengths, max) # 0
          /\ ~allow_incomplete \/ \E s \in DOMAIN lengths : lengths[s] > 1
  THEN "incomplete"
  ELSE "none"

Table(lengths, max) ==
  [lengths |-> lengths, max |-> max, symbols |-> Symbols(lengths),
   first_symbol |-> [b \in 1..max |->
                       SumTo(LAMBDA c : Count(lengths, c), b - 1)]]

(* decode_symbol(): one more bit until the code is one of its length.      *)
SymbolStep(input, t, s) ==
  LET bit == ReadBits(input, s.r, 1)
      len == s.len + 1
      code == s.code * 2 + bit.value
      index == code - FirstCode(t.lengths, len)
  IN  IF s.done THEN s
      ELSE IF s.len = t.max THEN [s EXCEPT !.done = TRUE]
      ELSE IF ~bit.ok THEN [s EXCEPT !.done = TRUE, !.r = bit.r]
      ELSE IF index \in 0..(Count(t.lengths, len) - 1)
      THEN [s EXCEPT !.done = TRUE, !.ok = TRUE, !.r = bit.r,
              !.symbol = t.symbols[t.first_symbol[len] + index + 1] - 1]
      ELSE [s EXCEPT !.len = len, !.code = code, !.r = bit.r]

DecodeSymbol(input, r, t) ==
  IF Empty(t.lengths) THEN [ok |-> FALSE, r |-> r, symbol |-> 0]
  ELSE Iterated(LAMBDA s : SymbolStep(input, t, s),
                [done |-> FALSE, ok |-> FALSE, r |-> r, symbol |-> 0,
                 len |-> 0, code |-> 0],
                t.max + 1)

-----------------------------------------------------------------------------
(***************************************************************************)
(* What a code is, without tables: the bits of a symbol, most significant  *)
(* first.  A table that is accepted is prefix-free, it is complete but for *)
(* the one-bit code Deflate allows, and each symbol is read back from its  *)
(* bits, however many follow.                                              *)
(***************************************************************************)
CodeBits(lengths, s) ==
  [k \in 1..lengths[s] |->
     (CanonicalCode(lengths, s) \div 2^(lengths[s] - k)) % 2]

ReadsBack(lengths, max) ==
  \A s \in DOMAIN lengths : lengths[s] # 0 =>
    LET input == [bits |-> CodeBits(lengths, s)
                           \o [k \in 1..(ByteBits * max) |-> 1],
                  cancel_at |-> 0, fail_at |-> 0]
        read == DecodeSymbol(input, FirstReader, Table(lengths, max))
    IN  read.ok /\ read.symbol = s - 1 /\ read.r.pos = lengths[s]

KraftSum(lengths, max) ==
  SumTo(LAMBDA b : Count(lengths, b) * 2^(max - b), max)

CodeExact(lengths, max) ==
  LET inRange == \A s \in DOMAIN lengths : lengths[s] <= max
      error == BuildError(lengths, max, FALSE)
  IN  /\ inRange /\ ~Empty(lengths) =>
           (error = "none" <=> KraftSum(lengths, max) = 2^max)
      /\ BuildError(lengths, max, TRUE) = "none" => ReadsBack(lengths, max)
=============================================================================
