---------------------------- MODULE TokenDecoder ---------------------------
(***************************************************************************)
(* run_deflate_blocks() of token_decoder.cpp with its two sinks: the rich  *)
(* one keeps tokens, tables, output and for each match the literals its    *)
(* bytes come from; the scalar one hands each fact to an observer, under   *)
(* budgets.  The state of a decode is a record d; Decoded(input, opts) is  *)
(* the state it ends in.                                                   *)
(***************************************************************************)
EXTENDS HuffmanCode

CONSTANTS
  StoredBits,        (* bits of LEN and of NLEN: 16                        *)
  LzWindowSize,      (* kLzWindowSize                                      *)
  PollEvery,         (* tokens between two polls of should_cancel: 256     *)
  NumLiterals,       (* 256, which is also the end-of-block symbol         *)
  Lengths,           (* kLengths: <<base, extra bits>>                     *)
  Distances,         (* kDistances                                         *)
  FixedLiterals,     (* code lengths of the fixed literal table            *)
  FixedDistances,
  MaxCodeBits,       (* 15                                                 *)
  CountWidths,       (* bits of HLIT, HDIST and HCLEN: <<5, 5, 4>>         *)
  MinCodeLengths,    (* code-length lengths always sent: 4                 *)
  CodeLengthWidth,   (* bits of one of them: 3                             *)
  MaxCodeLength,     (* 7                                                  *)
  CodeLengthOrder,   (* kCodeLengthOrder                                   *)
  Repeats            (* codes 16, 17, 18: <<least, extra bits, most>>      *)

ASSUME DecoderAssumption ==
  /\ \A k \in DOMAIN Distances : Distances[k][1] + 2^Distances[k][2] - 1
                                   <= LzWindowSize
  /\ Len(CodeLengthOrder) = MaxCodeBits + 1 + Len(Repeats)

FixedLiteralTable == Table(FixedLiterals, MaxCodeBits)
FixedDistanceTable == Table(FixedDistances, MaxCodeBits)

-----------------------------------------------------------------------------
(***************************************************************************)
(* read_dynamic_tables().  Every failure is an error text of the caller,   *)
(* whatever stopped the reader.                                            *)
(***************************************************************************)
DynamicCounts(input, r) ==
  LET a == ReadBits(input, r, CountWidths[1])
      b == ReadBits(input, a.r, CountWidths[2])
      c == ReadBits(input, b.r, CountWidths[3])
  IN  IF ~a.ok THEN a ELSE IF ~b.ok THEN b ELSE IF ~c.ok THEN c
      ELSE [ok |-> TRUE, r |-> c.r, literals |-> a.value + NumLiterals + 1,
            distances |-> b.value + 1, sent |-> c.value + MinCodeLengths]

(* The code-length lengths, in the order of CodeLengthOrder.               *)
AlphabetStep(input, sent, s) ==
  LET read == ReadBits(input, s.r, CodeLengthWidth)
  IN  IF ~s.ok \/ s.k = sent THEN s
      ELSE IF ~read.ok THEN [s EXCEPT !.ok = FALSE, !.r = read.r]
      ELSE [s EXCEPT !.r = read.r, !.k = @ + 1,
              !.lengths[CodeLengthOrder[s.k + 1] + 1] = read.value]

Alphabet(input, r, sent) ==
  Iterated(LAMBDA s : AlphabetStep(input, sent, s),
           [ok |-> TRUE, r |-> r, k |-> 0,
            lengths |-> [k \in 1..Len(CodeLengthOrder) |-> 0]],
           sent)

RepeatFits(total, s, repeat, most) ==
  repeat <= most /\ repeat <= total - Len(s.lengths)

(* One code length, or a run of them.                                      *)
CodeLengthStep(input, table, total, s) ==
  LET code == DecodeSymbol(input, s.r, table)
      rule == Repeats[code.symbol - MaxCodeBits]
      extra == ReadBits(input, code.r, rule[2])
      repeat == rule[1] + extra.value
      value == IF code.symbol = MaxCodeBits + 1 THEN s.lengths[Len(s.lengths)]
               ELSE 0
  IN  IF ~s.ok \/ Len(s.lengths) >= total THEN s
      ELSE IF ~code.ok THEN [s EXCEPT !.ok = FALSE, !.r = code.r]
      ELSE IF code.symbol <= MaxCodeBits
      THEN [s EXCEPT !.r = code.r, !.lengths = Append(@, code.symbol)]
      ELSE IF code.symbol = MaxCodeBits + 1 /\ s.lengths = <<>>
      THEN [s EXCEPT !.ok = FALSE, !.r = code.r]
      ELSE IF ~extra.ok \/ ~RepeatFits(total, s, repeat, rule[3])
      THEN [s EXCEPT !.ok = FALSE, !.r = extra.r]
      ELSE [s EXCEPT !.r = extra.r,
              !.lengths = @ \o [k \in 1..repeat |-> value]]

AllLengths(input, r, table, total) ==
  Iterated(LAMBDA s : CodeLengthStep(input, table, total, s),
           [ok |-> TRUE, r |-> r, lengths |-> <<>>], total)

DynamicTables(input, r) ==
  LET counts == DynamicCounts(input, r)
      alphabet == Alphabet(input, counts.r, counts.sent)
      total == counts.literals + counts.distances
      all == AllLengths(input, alphabet.r,
                        Table(alphabet.lengths, MaxCodeLength), total)
      literals == SubSeq(all.lengths, 1, counts.literals)
      distances == SubSeq(all.lengths, counts.literals + 1, total)
      Fail(s) == [ok |-> FALSE, r |-> s.r]
  IN  IF ~counts.ok THEN Fail(counts)
      ELSE IF \/ ~alphabet.ok
              \/ BuildError(alphabet.lengths, MaxCodeLength, FALSE) # "none"
      THEN Fail(alphabet)
      ELSE IF \/ ~all.ok
              \/ literals[NumLiterals + 1] = 0
              \/ BuildError(literals, MaxCodeBits, TRUE) # "none"
              \/ BuildError(distances, MaxCodeBits, TRUE) # "none"
      THEN Fail(all)
      ELSE [ok |-> TRUE, r |-> all.r,
            literals |-> Table(literals, MaxCodeBits),
            distances |-> Table(distances, MaxCodeBits)]

-----------------------------------------------------------------------------
(***************************************************************************)
(* The engine.  opts.rich tells the sink; the scalar one has budgets, 0    *)
(* standing for none, and an observer that stops at its fact stop_at.      *)
(* The window is LzWindow, a ring: an entry carries the value of a byte,   *)
(* the output offset of the literal it comes from (root) and the token of  *)
(* that literal.                                                           *)
(***************************************************************************)
Unlimited ==
  [rich |-> TRUE, max_output |-> 0, max_tokens |-> 0, max_input |-> 0,
   stop_at |-> 0]

NoByte == [value |-> 0, root |-> 0, token |-> 0]

FirstState ==
  [r |-> FirstReader, phase |-> "header", last |-> FALSE, left |-> 0,
   tables |-> <<>>, tokens |-> <<>>, bytes |-> <<>>, output |-> 0,
   window |-> [k \in 0..(LzWindowSize - 1) |-> NoByte], failure |-> "none"]

Finish(d, failure) == [d EXCEPT !.phase = "done", !.failure = failure]

(* reader_failure()                                                        *)
ReaderFailure(d, r) ==
  Finish([d EXCEPT !.r = r],
         IF r.halted = "cancelled" THEN "cancelled"
         ELSE IF r.halted = "io" THEN "io" ELSE "malformed")

OverInput(opts, d) ==
  opts.max_input # 0 /\ d.r.pos > opts.max_input * ByteBits

OverOutput(opts, output) == opts.max_output # 0 /\ output > opts.max_output

Polls(input, d) ==
  IF CancelledNow(input, d.r)
  THEN Finish([d EXCEPT !.r = Polled(d.r)], "cancelled")
  ELSE [d EXCEPT !.r = Polled(d.r)]

(* Wrong: the token that reaches the budget is let through.                *)
CheckedLate(input, opts, d) ==
  IF opts.max_tokens # 0 /\ Len(d.tokens) > opts.max_tokens
  THEN Finish(d, "budget")
  ELSE IF OverInput(opts, d) THEN Finish(d, "budget")
  ELSE IF Len(d.tokens) % PollEvery = 0 THEN Polls(input, d)
  ELSE d

(* What is checked before each token.                                      *)
Checked(input, opts, d) ==
  IF opts.max_tokens # 0 /\ Len(d.tokens) >= opts.max_tokens
  THEN Finish(d, "budget")
  ELSE IF OverInput(opts, d) THEN Finish(d, "budget")
  ELSE IF Len(d.tokens) % PollEvery = 0 THEN Polls(input, d)
  ELSE d

(* append_source_range(): a run of bytes of one token is one range.        *)
WithRange(ranges, byte) ==
  LET last == ranges[Len(ranges)]
      range == [begin |-> byte.root, end |-> byte.root + 1,
                token |-> byte.token]
  IN  IF ranges = <<>> \/ last.token # byte.token THEN Append(ranges, range)
      ELSE IF last.end = byte.root
      THEN [ranges EXCEPT ![Len(ranges)].end = byte.root + 1]
      ELSE IF last.begin = byte.root /\ last.end = byte.root + 1 THEN ranges
      ELSE Append(ranges, range)

(* LzWindow: the entry of output offset o is at o modulo its size.         *)
Written(window, o, byte) == [window EXCEPT ![o % LzWindowSize] = byte]

(* Wrong: a copied byte is its own origin.                                 *)
CopyAsOwn(m, distance) ==
  LET byte == [m.window[(Len(m.bytes) - distance) % LzWindowSize] EXCEPT
                 !.root = Len(m.bytes)]
  IN  [window |-> Written(m.window, Len(m.bytes), byte),
       bytes |-> Append(m.bytes, byte.value),
       ranges |-> WithRange(m.ranges, byte)]

(* One byte of emit_match_bytes(): it carries the origin of its source.    *)
Copy(m, distance) ==
  LET byte == m.window[(Len(m.bytes) - distance) % LzWindowSize]
  IN  [window |-> Written(m.window, Len(m.bytes), byte),
       bytes |-> Append(m.bytes, byte.value),
       ranges |-> WithRange(m.ranges, byte)]

Copied(d, length, distance) ==
  Iterated(LAMBDA m : Copy(m, distance),
           [window |-> d.window, bytes |-> d.bytes, ranges |-> <<>>], length)

(* sink.on_token(): the observer may end the scan, before its bytes count. *)
Emitted(opts, d, token) ==
  LET e == [d EXCEPT !.tokens = Append(@, token)]
  IN  IF ~opts.rich /\ opts.stop_at # 0 /\ Len(e.tokens) = opts.stop_at
      THEN Finish(e, "stopped") ELSE e

Token(kind, from, d, size, value) ==
  [kind |-> kind, from |-> from, to |-> d.r.pos, begin |-> d.output,
   end |-> d.output + size, value |-> value, distance |-> 0, ranges |-> <<>>]

(* A literal counts before it is held against the cap.                     *)
Literal(opts, d, from, value) ==
  LET e == Emitted(opts, d, Token("literal", from, d, 1, value))
      byte == [value |-> value, root |-> d.output, token |-> Len(d.tokens) + 1]
      f == [e EXCEPT !.output = @ + 1,
              !.bytes = IF opts.rich THEN Append(@, value) ELSE @,
              !.window = IF opts.rich THEN Written(@, d.output, byte) ELSE @]
  IN  IF e.phase = "done" THEN e
      ELSE IF OverOutput(opts, f.output) THEN Finish(f, "budget") ELSE f

EndOfBlock(opts, d, from) ==
  LET e == Emitted(opts, d, Token("end", from, d, 0, NumLiterals))
  IN  IF e.phase = "done" THEN e
      ELSE [e EXCEPT !.phase = IF d.last THEN "done" ELSE "header"]

(* A match is held against the cap before it counts.                       *)
Match(opts, d, from, length, distance) ==
  LET m == IF opts.rich THEN Copied(d, length, distance)
           ELSE [window |-> d.window, bytes |-> <<>>, ranges |-> <<>>]
      token == [Token("match", from, d, length, 0) EXCEPT
                  !.distance = distance, !.ranges = m.ranges]
      e == Emitted(opts, d, token)
  IN  IF distance > d.output THEN Finish(d, "malformed")
      ELSE IF OverOutput(opts, d.output + length) THEN Finish(d, "budget")
      ELSE IF e.phase = "done" THEN e
      ELSE [e EXCEPT !.output = @ + length, !.window = m.window,
                     !.bytes = m.bytes]

Header(input, opts, d) ==
  LET p == Polls(input, d)
      last == ReadBits(input, p.r, 1)
      type == ReadBits(input, last.r, 2)
      h == [p EXCEPT !.r = type.r, !.last = last.value = 1]
      len == ReadBits(input, Aligned(type.r), StoredBits)
      nlen == ReadBits(input, len.r, StoredBits)
      dynamic == DynamicTables(input, type.r)
  IN  IF p.phase = "done" THEN p
      ELSE IF OverInput(opts, p) THEN Finish(p, "budget")
      ELSE IF ~last.ok THEN ReaderFailure(p, last.r)
      ELSE IF ~type.ok THEN ReaderFailure(p, type.r)
      ELSE CASE type.value = 0 ->
             IF ~len.ok THEN ReaderFailure(h, len.r)
             ELSE IF ~nlen.ok THEN ReaderFailure(h, nlen.r)
             ELSE IF len.value + nlen.value # 2^StoredBits - 1
             THEN Finish([h EXCEPT !.r = nlen.r], "malformed")
             ELSE [h EXCEPT !.r = nlen.r, !.phase = "stored",
                            !.left = len.value]
        [] type.value = 1 ->
             [h EXCEPT !.phase = "codes",
                       !.tables = <<FixedLiteralTable, FixedDistanceTable>>]
        [] type.value = 2 ->
             IF ~dynamic.ok
             THEN Finish([h EXCEPT !.r = dynamic.r], "malformed")
             ELSE [h EXCEPT !.phase = "codes", !.r = dynamic.r, !.tables =
                     <<dynamic.literals, dynamic.distances>>]
        [] OTHER -> Finish(h, "malformed")

(* A byte of a stored block, or its end, which no code stands for.         *)
Stored(input, opts, d) ==
  LET c == Checked(input, opts, d)
      byte == ReadBits(input, c.r, ByteBits)
  IN  IF d.left = 0 THEN EndOfBlock(opts, d, d.r.pos)
      ELSE IF c.phase = "done" THEN c
      ELSE IF ~byte.ok THEN ReaderFailure(c, byte.r)
      ELSE Literal(opts, [c EXCEPT !.r = byte.r, !.left = @ - 1], d.r.pos,
                   byte.value)

(* The rest of a match: its length, its distance code and its distance.    *)
MatchCodes(input, opts, c, r, from, symbol) ==
  LET length == Lengths[symbol - NumLiterals]
      more == ReadBits(input, r, length[2])
      code == DecodeSymbol(input, more.r, c.tables[2])
      distance == Distances[code.symbol + 1]
      far == ReadBits(input, code.r, distance[2])
  IN  IF ~more.ok THEN ReaderFailure(c, more.r)
      ELSE IF Empty(c.tables[2].lengths)
      THEN Finish([c EXCEPT !.r = more.r], "malformed")
      ELSE IF ~code.ok THEN ReaderFailure(c, code.r)
      ELSE IF code.symbol >= Len(Distances)
      THEN Finish([c EXCEPT !.r = code.r], "malformed")
      ELSE IF ~far.ok THEN ReaderFailure(c, far.r)
      ELSE Match(opts, [c EXCEPT !.r = far.r], from,
                 length[1] + more.value, distance[1] + far.value)

Codes(input, opts, d) ==
  LET c == Checked(input, opts, d)
      code == DecodeSymbol(input, c.r, c.tables[1])
      e == [c EXCEPT !.r = code.r]
  IN  IF c.phase = "done" THEN c
      ELSE IF ~code.ok THEN ReaderFailure(c, code.r)
      ELSE IF code.symbol < NumLiterals
      THEN Literal(opts, e, d.r.pos, code.symbol)
      ELSE IF code.symbol = NumLiterals THEN EndOfBlock(opts, e, d.r.pos)
      ELSE IF code.symbol <= NumLiterals + Len(Lengths)
      THEN MatchCodes(input, opts, c, code.r, d.r.pos, code.symbol)
      ELSE Finish(e, "malformed")

Step(input, opts, d) ==
  CASE d.phase = "header" -> Header(input, opts, d)
    [] d.phase = "stored" -> Stored(input, opts, d)
    [] d.phase = "codes" -> Codes(input, opts, d)
    [] OTHER -> d

Decoded(input, opts) ==
  Iterated(LAMBDA d : Step(input, opts, d), FirstState,
           Len(input.bits) + 2)

(* trace_zlib_wrapper(): what is read of the bytes around the stream.      *)
WrapperOk(w) ==
  /\ w.size >= 2 /\ w.cm = 8 /\ w.fcheck_ok /\ w.cinfo <= 7
  /\ w.fdict => w.size >= 6
  /\ w.size >= (IF w.fdict THEN 6 ELSE 2) + 4

(* scan_tokens(): the deflate data of w is the input.                      *)
ScanStatus(failure) ==
  CASE failure = "none" -> "ready"
    [] failure = "stopped" -> "partial"
    [] failure = "cancelled" -> "cancelled"
    [] failure = "budget" -> "budget"
    [] failure = "malformed" -> "invalid"
    [] failure = "io" -> "error"

ScanTokens(w, input, opts) ==
  LET d == Decoded(input, opts)
  IN  IF ~WrapperOk(w) \/ w.fdict
      THEN [status |-> "invalid", r |-> FirstReader, tokens |-> <<>>,
            output |-> 0]
      ELSE [status |-> ScanStatus(d.failure), r |-> d.r, tokens |-> d.tokens,
            output |-> d.output]

(* decode_stored_and_fixed(): nothing interrupts it.                       *)
TokenDecode(w, input, max_output) ==
  LET d == Decoded([input EXCEPT !.cancel_at = 0],
                   [Unlimited EXCEPT !.max_output = max_output])
  IN  IF w.too_large \/ ~WrapperOk(w) \/ w.fdict
      THEN [FirstState EXCEPT !.failure = "malformed"]
      ELSE d

-----------------------------------------------------------------------------
(***************************************************************************)
(* What a decode promises.                                                 *)
(***************************************************************************)
(* TokenOutputIntervalIndex::containing() over the ranges of the tokens    *)
(* that are not ends of blocks: the last one that begins at o or before.   *)
Containing(tokens, o) ==
  LET ranges == {k \in DOMAIN tokens : tokens[k].end > tokens[k].begin}
      before == {k \in ranges : tokens[k].begin <= o}
      k == CHOOSE j \in before : \A i \in before : i <= j
  IN  IF before # {} /\ o < tokens[k].end THEN k ELSE 0

(* The literal an output byte comes from, by following the distances.      *)
RootOf(tokens, o) ==
  LET root[p \in 0..o] ==
        LET token == tokens[CHOOSE k \in DOMAIN tokens :
                              p \in tokens[k].begin..(tokens[k].end - 1)]
        IN  IF token.kind = "literal" THEN p ELSE root[p - token.distance]
  IN  root[o]

Offsets(token) == token.begin..(token.end - 1)

(* The tokens tile the input and the output, every byte is the literal the *)
(* distances lead to, and the source ranges of a match are those literals. *)
TokensExact(d) ==
  /\ \A k \in 1..(Len(d.tokens) - 1) :
       /\ d.tokens[k].end = d.tokens[k + 1].begin
       /\ d.tokens[k].to <= d.tokens[k + 1].from
  /\ Len(d.bytes) = d.output
  /\ \A o \in 0..(d.output - 1) :
       LET root == RootOf(d.tokens, o) IN
       /\ d.bytes[o + 1] = d.tokens[Containing(d.tokens, root)].value
       /\ o \in Offsets(d.tokens[Containing(d.tokens, o)])
  /\ \A k \in DOMAIN d.tokens : d.tokens[k].kind = "match" =>
       UNION {Offsets(d.tokens[k].ranges[j]) : j \in DOMAIN d.tokens[k].ranges}
         = {RootOf(d.tokens, o) : o \in Offsets(d.tokens[k])}

(* A fact is what the scalar scan tells of a token.                        *)
Facts(tokens) ==
  [k \in DOMAIN tokens |-> [tokens[k] EXCEPT !.ranges = <<>>]]

(* A scan, whatever stops it, delivers a prefix of the facts of the rich   *)
(* decode, within its budgets, and counts the bytes of what it delivered;  *)
(* only an observer that stops leaves its own fact's bytes out.  The end   *)
(* of a stored block has no bits and no budget; an interrupted reading of  *)
(* dynamic tables is reported as invalid input.  A scan that ends by       *)
(* itself has told all the rich decode has.                                *)
ScanExact(scan, opts, rich) ==
  /\ Len(scan.tokens) <= Len(rich.tokens)
  /\ Facts(scan.tokens) = SubSeq(Facts(rich.tokens), 1, Len(scan.tokens))
  /\ opts.max_tokens # 0 =>
       Cardinality({k \in DOMAIN scan.tokens :
                      scan.tokens[k].from < scan.tokens[k].to})
         <= opts.max_tokens
  /\ opts.max_output # 0 => scan.output <= opts.max_output + 1
  /\ scan.tokens # <<>> =>
       LET last == scan.tokens[Len(scan.tokens)]
       IN  scan.output = IF scan.status = "partial" THEN last.begin
                         ELSE last.end
  /\ \/ scan.status = "ready"
     \/ scan.status = "invalid" /\ scan.r.halted = "no"
     => /\ Len(scan.tokens) = Len(rich.tokens)
        /\ scan.status = ScanStatus(rich.failure)
=============================================================================
