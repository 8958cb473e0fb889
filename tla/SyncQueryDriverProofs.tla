------------------------ MODULE SyncQueryDriverProofs ------------------------
(***************************************************************************)
(* Theorems about SyncQueryDriver, for every probe bundle, every set of    *)
(* queries, every answer of the terminal and everything the user types.    *)
(***************************************************************************)
EXTENDS SyncQueryDriver, FiniteSetTheorems, SequenceTheorems, WellFoundedInduction, TLAPS

\* What holds of the tokens of a SyntaxParser holds of the driver's.
Tokenizer == INSTANCE SyntaxTokenizerProofs
               WITH Limits <- {Limit}, Inputs <- {}, parser <- Ground(Limit, <<>>),
                    tokens <- <<>>, input <- <<>>, fed <- 0, finished <- FALSE

(***************************************************************************)
(* The two instances of SyntaxParser are one.                              *)
(***************************************************************************)
LEMMA SameBytes ==
  /\ Tokenizer!Byte = Byte /\ Tokenizer!Boundary = Boundary /\ Tokenizer!C0 = C0
  /\ Tokenizer!Param = Param /\ Tokenizer!Intermediate = Intermediate
  /\ Tokenizer!Marker = Marker /\ Tokenizer!Final = Final
  /\ Tokenizer!EscapeFinal = EscapeFinal /\ Tokenizer!Printable = Printable
  /\ Tokenizer!Continuation = Continuation /\ Tokenizer!PasteStart = PasteStart
  /\ Tokenizer!PasteEnds = PasteEnds
BY DEF Tokenizer!Byte, Byte, Tokenizer!Boundary, Boundary, Tokenizer!C0, C0,
   Tokenizer!Control, Control, Tokenizer!Introducer8, Introducer8, Tokenizer!Param, Param,
   Tokenizer!Intermediate, Intermediate, Tokenizer!Marker, Marker, Tokenizer!Final, Final,
   Tokenizer!EscapeFinal, EscapeFinal, Tokenizer!Printable, Printable,
   Tokenizer!Continuation, Continuation, Tokenizer!PasteStart, PasteStart,
   Tokenizer!PasteEnds, PasteEnds

LEMMA SamePieces ==
  /\ \A s, n : Tokenizer!Take(s, n) = Take(s, n) /\ Tokenizer!Cut(s, n) = Cut(s, n)
  /\ \A limit, rest : Tokenizer!Ground(limit, rest) = Ground(limit, rest)
  /\ \A type, raw : Tokenizer!Token(type, raw) = Token(type, raw)
  /\ \A p, emitted : Tokenizer!Outcome(p, emitted) = Outcome(p, emitted)
BY DEF Tokenizer!Take, Take, Tokenizer!Cut, Cut, Tokenizer!Ground, Ground,
   Tokenizer!Token, Token, Tokenizer!Outcome, Outcome

LEMMA SameEmitting ==
  /\ \A p, token, rest : Tokenizer!Emit(p, token, rest) = Emit(p, token, rest)
  /\ \A p, type, n : Tokenizer!Step_Emit(p, type, n) = Step_Emit(p, type, n)
  /\ \A p : Tokenizer!NeedMore(p) = NeedMore(p)
BY SamePieces DEF Tokenizer!Emit, Emit, Tokenizer!Step_Emit, Step_Emit,
   Tokenizer!NeedMore, NeedMore

LEMMA SameRun ==
  ASSUME NEW class, NEW s, NEW from
  PROVE  Tokenizer!AfterRun(class, s, from) = AfterRun(class, s, from)
BY DEF Tokenizer!AfterRun, AfterRun

LEMMA SamePrefix ==
  ASSUME NEW s, NEW from, NEW limit
  PROVE  Tokenizer!scan_control_prefix(s, from, limit) = scan_control_prefix(s, from, limit)
BY SameRun, SameBytes DEF Tokenizer!scan_control_prefix, scan_control_prefix

LEMMA SameEntering ==
  /\ \A p, end : Tokenizer!EnterPaste(p, end) = EnterPaste(p, end)
  /\ \A p, kind, intro, end :
       Tokenizer!EnterString(p, kind, intro, end) = EnterString(p, kind, intro, end)
BY SamePieces DEF Tokenizer!EnterPaste, EnterPaste, Tokenizer!EnterString, EnterString

LEMMA SameSequences ==
  /\ \A p, intro : Tokenizer!parse_csi(p, intro) = parse_csi(p, intro)
  /\ \A p, kind, intro : Tokenizer!parse_string(p, kind, intro) = parse_string(p, kind, intro)
  /\ \A p : Tokenizer!parse_plain_escape(p) = parse_plain_escape(p)
BY SamePrefix, SameRun, SameEntering, SameEmitting, SameBytes
   DEF Tokenizer!parse_csi, parse_csi, Tokenizer!parse_string, parse_string,
       Tokenizer!parse_plain_escape, parse_plain_escape

LEMMA SameEscape == \A p : Tokenizer!parse_escape(p) = parse_escape(p)
BY SameSequences, SameEmitting DEF Tokenizer!parse_escape, parse_escape

LEMMA SameWidth == \A b : Tokenizer!utf8_width(b) = utf8_width(b)
BY SameBytes DEF Tokenizer!utf8_width, utf8_width

LEMMA SameUtf8 == \A s, n : Tokenizer!from_utf8(s, n) = from_utf8(s, n)
BY SameBytes, SameWidth DEF Tokenizer!from_utf8, from_utf8

LEMMA SameTextRun ==
  ASSUME NEW s, NEW limit
  PROVE  Tokenizer!TextRun(s, limit) = TextRun(s, limit)
<1> DEFINE run == { n \in 0 .. Len(s) :
                      /\ from_utf8(s, n)
                      /\ \A m \in 1 .. n - 1 : from_utf8(s, m) => m < limit }
<1>1. { n \in 0 .. Len(s) :
          /\ Tokenizer!from_utf8(s, n)
          /\ \A m \in 1 .. n - 1 : Tokenizer!from_utf8(s, m) => m < limit } = run
  BY SameUtf8
<1>2. TextRun(s, limit) = CHOOSE n \in run : \A m \in run : m <= n
  BY DEF TextRun
<1> HIDE DEF run
<1>3. Tokenizer!TextRun(s, limit) = CHOOSE n \in run : \A m \in run : m <= n
  BY <1>1 DEF Tokenizer!TextRun
<1> QED
  BY <1>2, <1>3

LEMMA SameText == \A p : Tokenizer!parse_text(p) = parse_text(p)
BY SameTextRun, SameWidth, SameEmitting, SameBytes DEF Tokenizer!parse_text, parse_text

LEMMA SameStep == \A p : Tokenizer!step(p) = step(p)
BY SameEscape, SameSequences, SameEmitting, SameText, SameBytes DEF Tokenizer!step, step

LEMMA SameStrings ==
  /\ \A p, terminator, rest :
       Tokenizer!emit_string_token(p, terminator, rest) = emit_string_token(p, terminator, rest)
  /\ \A p, aborting, again :
       Tokenizer!abort_string(p, aborting, again) = abort_string(p, aborting, again)
  /\ \A p, b : Tokenizer!push_payload_byte(p, b) = push_payload_byte(p, b)
  /\ \A p : Tokenizer!held_esc_buffer(p) = held_esc_buffer(p)
BY SameEmitting, SamePieces
   DEF Tokenizer!emit_string_token, emit_string_token, Tokenizer!string_token, string_token,
       Tokenizer!abort_string, abort_string, Tokenizer!push_payload_byte, push_payload_byte,
       Tokenizer!held_esc_buffer, held_esc_buffer

LEMMA SameStringStep == \A p : Tokenizer!consume_string(p) = consume_string(p)
BY SameStrings, SamePieces DEF Tokenizer!consume_string, consume_string

LEMMA SameBreak ==
  ASSUME NEW candidate
  PROVE  Tokenizer!advance_after_break(candidate) = advance_after_break(candidate)
BY DEF Tokenizer!advance_after_break, advance_after_break, Tokenizer!is_paste_end_prefix,
   is_paste_end_prefix, Tokenizer!PasteEnds, PasteEnds, Tokenizer!Cut, Cut,
   Tokenizer!Take, Take

LEMMA SamePastes ==
  /\ \A p, raw, tail, flags :
       Tokenizer!paste_token(p, raw, tail, flags) = paste_token(p, raw, tail, flags)
  /\ \A p : Tokenizer!emit_segment(p) = emit_segment(p)
BY SamePieces DEF Tokenizer!paste_token, paste_token, Tokenizer!emit_segment, emit_segment,
   Tokenizer!segment_payload_len, segment_payload_len

LEMMA SamePasteStep == \A p : Tokenizer!consume_paste(p) = consume_paste(p)
BY SameBreak, SamePastes, SameEmitting, SamePieces, SameBytes
   DEF Tokenizer!consume_paste, consume_paste

LEMMA SameTurn == \A p : Tokenizer!Turn(p) = Turn(p)
BY SameStep, SameStringStep, SamePasteStep DEF Tokenizer!Turn, Turn

LEMMA SameFed == \A p, chunk : Tokenizer!fed_with(p, chunk) = fed_with(p, chunk)
BY SamePieces DEF Tokenizer!fed_with, fed_with

LEMMA SameFlush == \A p : Tokenizer!flushed(p) = flushed(p)
<1>1. \A p : Tokenizer!finish_pending(p) = finish_pending(p)
  BY SamePieces, SameUtf8, SameBytes DEF Tokenizer!finish_pending, finish_pending
<1> QED
  BY <1>1, SamePieces, SameEmitting, SameStrings, SamePastes DEF Tokenizer!flushed, flushed

-----------------------------------------------------------------------------
(***************************************************************************)
(* What the parser returns is tokens, and it stays a parser.               *)
(***************************************************************************)
LEMMA TokenizerAssumptions == Tokenizer!LimitsAssumption /\ Tokenizer!InputsAssumption
BY SyncAssumption DEF Tokenizer!LimitsAssumption, Tokenizer!InputsAssumption

LEMMA CountingUp ==
  ASSUME NEW N \in Nat, NEW P \in SUBSET (0 .. N),
         0 \in P, \A n \in 1 .. N : n - 1 \in P => n \in P
  PROVE  P = 0 .. N
BY Tokenizer!CountingUp, TokenizerAssumptions

ParserOK(p) == p \in Tokenizer!Parser /\ Tokenizer!Bounded(p) /\ Tokenizer!Shape(p)

Parsed(o) == ParserOK(o.parser) /\ o.tokens \in Seq(Tokenizer!Tokens)

LEMMA AnotherTurn ==
  ASSUME NEW o
  PROVE  another_turn(o) =
           IF o.parser.rest = <<>> THEN o
           ELSE Outcome(Turn(o.parser).parser, o.tokens \o Turn(o.parser).tokens)
<1> DEFINE next == Outcome(Turn(o.parser).parser, o.tokens \o Turn(o.parser).tokens)
<1>1. { Outcome(turn.parser, o.tokens \o turn.tokens) : turn \in {Turn(o.parser)} } = {next}
  OBVIOUS
<1>2. another_turn(o) = IF o.parser.rest = <<>> THEN o ELSE CHOOSE x \in {next} : TRUE
  BY <1>1 DEF another_turn
<1> HIDE DEF next
<1>3. (CHOOSE x \in {next} : TRUE) = next
  OBVIOUS
<1>4. another_turn(o) = IF o.parser.rest = <<>> THEN o ELSE next
  BY <1>2, <1>3
<1> QED  BY <1>4 DEF next

LEMMA TurnsParse ==
  ASSUME NEW o, Parsed(o)
  PROVE  Parsed(another_turn(o))
<1>1. CASE o.parser.rest = <<>>
  BY <1>1, AnotherTurn
<1>2. CASE o.parser.rest # <<>>
  <2>1. PICK turn : turn = Turn(o.parser)
    OBVIOUS
  <2>2. Tokenizer!Good(Tokenizer!Turn(o.parser))
    BY <1>2, Tokenizer!TurnIsGood, TokenizerAssumptions DEF Parsed, ParserOK
  <2>3. Parsed(turn)
    BY <2>1, <2>2, SameTurn DEF Tokenizer!Good, Parsed, ParserOK
  <2>4. o.tokens \o turn.tokens \in Seq(Tokenizer!Tokens)
    BY <2>3, ConcatProperties DEF Parsed
  <2>5. PICK next : next = another_turn(o)
    OBVIOUS
  <2>6. next.parser = turn.parser /\ next.tokens = o.tokens \o turn.tokens
    BY <1>2, <2>1, <2>5, AnotherTurn DEF Outcome
  <2>7. Parsed(next)
    BY <2>3, <2>4, <2>6 DEF Parsed
  <2> QED  BY <2>5, <2>7
<1> QED  BY <1>1, <1>2

LEMMA DrainedParses ==
  ASSUME NEW p, ParserOK(p)
  PROVE  Parsed(Drained(p))
<1> DEFINE N == 3 * Len(p.rest)
           Turned(before) == CHOOSE o \in { another_turn(x) : x \in {before} } : TRUE
           E(f, m) == f = [i \in 0 .. m |-> IF i = 0 THEN Outcome(p, <<>>) ELSE Turned(f[i - 1])]
           P == {m \in 0 .. N : \E f : E(f, m)}
<1>1. N \in Nat
  <2>1. p.rest \in Seq(Tokenizer!Byte)
    BY DEF ParserOK, Tokenizer!Parser
  <2>2. Len(p.rest) \in Nat
    BY <2>1, LenProperties
  <2> QED  BY <2>2
<1>2. \A before : Turned(before) = another_turn(before)
  OBVIOUS
<1>3. Drained(p) = (CHOOSE f : E(f, N))[N]
  BY DEF Drained
<1> HIDE DEF Turned, N
<1>4. 0 \in P
  <2>1. E([i \in 0 .. 0 |-> Outcome(p, <<>>)], 0)
    OBVIOUS
  <2> HIDE DEF E
  <2> QED  BY <1>1, <2>1
<1>5. ASSUME NEW m \in 1 .. N, m - 1 \in P
      PROVE  m \in P
  <2>1. PICK f : E(f, m - 1)
    BY <1>5
  <2> DEFINE g == [i \in 0 .. m |-> IF i = m THEN Turned(f[m - 1]) ELSE f[i]]
  <2>2. E(g, m)
    <3>1. ASSUME NEW i \in 0 .. m
          PROVE  g[i] = IF i = 0 THEN Outcome(p, <<>>) ELSE Turned(g[i - 1])
      BY <1>1, <2>1
    <3> QED  BY <3>1
  <2> HIDE DEF E
  <2> QED  BY <1>1, <2>2
<1>6. P = 0 .. N
  <2>1. P \in SUBSET (0 .. N)
    OBVIOUS
  <2> HIDE DEF P
  <2> QED  BY <1>1, <1>4, <1>5, <2>1, CountingUp
<1>7. \E f : E(f, N)
  <2> HIDE DEF E
  <2> QED  BY <1>1, <1>6
<1> DEFINE f == CHOOSE f : E(f, N)
<1>8. E(f, N)
  <2> HIDE DEF E
  <2> QED  BY <1>7
<1>9. f[0] = Outcome(p, <<>>) /\ \A i \in 1 .. N : f[i] = another_turn(f[i - 1])
  <2> HIDE DEF f
  <2> QED  BY <1>1, <1>2, <1>8
<1>10. Drained(p) = f[N]
  <2> HIDE DEF E
  <2> QED  BY <1>3
<1> HIDE DEF f
<1> DEFINE Q == {i \in 0 .. N : Parsed(f[i])}
<1>11. 0 \in Q
  <2>1. <<>> \in Seq(Tokenizer!Tokens)
    BY EmptySeq
  <2>2. f[0].parser = p /\ f[0].tokens = <<>>
    BY <1>9 DEF Outcome
  <2>3. Parsed(f[0])
    BY <2>1, <2>2 DEF Parsed
  <2> QED  BY <1>1, <2>3
<1>12. ASSUME NEW i \in 1 .. N, i - 1 \in Q PROVE i \in Q
  BY <1>9, <1>12, TurnsParse
<1>13. Q = 0 .. N
  <2>1. Q \in SUBSET (0 .. N)
    OBVIOUS
  <2> HIDE DEF Q
  <2> QED  BY <1>1, <1>11, <1>12, <2>1, CountingUp
<1>14. N \in Q
  BY <1>1, <1>13
<1> QED
  BY <1>10, <1>14

LEMMA FedParses ==
  ASSUME NEW p, ParserOK(p), NEW chunk \in Seq(Byte)
  PROVE  ParserOK(fed_with(p, chunk))
BY Tokenizer!FedIsGood, TokenizerAssumptions, SameFed, SameBytes DEF ParserOK

LEMMA FlushParses ==
  ASSUME NEW p, ParserOK(p)
  PROVE  Parsed(flushed(p))
BY Tokenizer!FlushIsGood, TokenizerAssumptions, SameFlush
   DEF ParserOK, Parsed, Tokenizer!Good

-----------------------------------------------------------------------------
(***************************************************************************)
(* What the decoder returns is a list of events, and it stays a decoder.   *)
(***************************************************************************)
DecoderOK(d) ==
  /\ d = [ parser |-> d.parser, paste_pending_cr |-> d.paste_pending_cr,
           high_surrogate |-> d.high_surrogate ]
  /\ ParserOK(d.parser)

\* A list of whatever.
Listed(s) == \E S : s \in Seq(S)

Decodes(ended) == DecoderOK(ended.decoder) /\ Listed(ended.events)

LEMMA ListsOfNoneAndOne == Listed(<<>>) /\ \A e : Listed(<<e>>)
<1>1. <<>> \in Seq({})
  BY EmptySeq
<1>2. \A e : <<e>> \in Seq({e})
  OBVIOUS
<1> QED
  BY <1>1, <1>2 DEF Listed

LEMMA ListsJoin ==
  ASSUME NEW s, NEW t, Listed(s), Listed(t)
  PROVE  Listed(s \o t)
<1>1. PICK S : s \in Seq(S)
  BY DEF Listed
<1>2. PICK U : t \in Seq(U)
  BY DEF Listed
<1>3. s \in Seq(S \cup U) /\ t \in Seq(S \cup U)
  BY <1>1, <1>2, SeqMonotonic
<1>4. s \o t \in Seq(S \cup U)
  BY <1>3, ConcatProperties
<1> QED
  BY <1>4 DEF Listed

LEMMA ListsHaveLength ==
  ASSUME NEW s, Listed(s)
  PROVE  Len(s) \in Nat /\ DOMAIN s = 1 .. Len(s)
BY LenProperties DEF Listed

LEMMA TextEvents ==
  ASSUME NEW text \in Seq(Byte)
  PROVE  Listed(push_text_events(text))
<1> DEFINE starts == { i \in DOMAIN text : utf8_width(text[i]) > 0 }
           at(n) == CHOOSE i \in starts : Cardinality({ j \in starts : j <= i }) = n
           key(n) == Key(SubSeq(text, at(n), at(n) + utf8_width(text[at(n)]) - 1))
<1>1. push_text_events(text) = [n \in 1 .. Cardinality(starts) |-> key(n)]
  BY DEF push_text_events
<1>2. Cardinality(starts) \in Nat
  <2>1. DOMAIN text = 1 .. Len(text) /\ Len(text) \in Nat
    BY LenProperties
  <2>2. IsFiniteSet(DOMAIN text)
    BY <2>1, FS_Interval
  <2>3. starts \subseteq DOMAIN text
    OBVIOUS
  <2> HIDE DEF starts
  <2> QED  BY <2>2, <2>3, FS_Subset, FS_CardinalityType
<1> HIDE DEF starts, key
<1>3. ASSUME NEW N \in Nat
      PROVE  \E V : [n \in 1 .. N |-> key(n)] \in Seq(V)
  <2> DEFINE V == {key(n) : n \in 1 .. N}
  <2>1. \A n \in 1 .. N : key(n) \in V
    OBVIOUS
  <2> HIDE DEF V
  <2>2. [n \in 1 .. N |-> key(n)] \in Seq(V)
    BY <2>1
  <2> QED  BY <2>2
<1> QED
  BY <1>1, <1>2, <1>3 DEF Listed

LEMMA DecodersChange ==
  ASSUME NEW d, DecoderOK(d)
  PROVE  \A b : /\ DecoderOK([d EXCEPT !.high_surrogate = b])
                /\ DecoderOK([d EXCEPT !.paste_pending_cr = b])
                /\ [d EXCEPT !.high_surrogate = b].parser = d.parser
BY DEF DecoderOK

LEMMA FieldsDecode ==
  ASSUME NEW d, DecoderOK(d), NEW s
  PROVE  /\ DecoderOK(decode_fields(d, s).decoder)
         /\ decode_fields(d, s).decoder.parser = d.parser
         /\ Listed(decode_fields(d, s).events)
<1>1. Listed(orphan(d))
  BY ListsOfNoneAndOne DEF orphan
<1> QED
  BY <1>1, DecodersChange, ListsOfNoneAndOne DEF decode_fields, Decoded

LEMMA TokenDecodes ==
  ASSUME NEW d, DecoderOK(d), NEW token \in Tokenizer!Tokens
  PROVE  Decodes(map_token(d, token))
<1>1. CASE token.type = "Text"
  <2>1. token.raw \in Seq(Byte)
    BY SameBytes DEF Tokenizer!Tokens
  <2> QED  BY <1>1, <2>1, TextEvents DEF map_token, Decodes, Decoded
<1>2. CASE token.type = "Csi"
  <2>1. Decodes(map_csi(d, token))
    BY FieldsDecode, ListsOfNoneAndOne DEF map_csi, Decodes, Decoded
  <2> QED  BY <1>2, <2>1 DEF map_token
<1>3. CASE token.type = "Paste"
  BY <1>3, DecodersChange, ListsOfNoneAndOne DEF map_token, Decodes, Decoded
<1>4. CASE token.type \notin {"Text", "Csi", "Paste"}
  BY <1>4, ListsOfNoneAndOne DEF map_token, Decodes, Decoded
<1> QED
  BY <1>1, <1>2, <1>3, <1>4

map_next(acc, token) == Joined(acc.events, map_token(acc.decoder, token))

LEMMA TokensDecode ==
  ASSUME NEW d, DecoderOK(d), NEW tokens \in Seq(Tokenizer!Tokens)
  PROVE  Decodes(map_tokens(d, tokens))
<1> DEFINE N == Len(tokens)
           next(acc, token) == CHOOSE o \in { map_next(x, token) : x \in {acc} } : TRUE
           E(f, m) == f = [n \in 0 .. m |-> IF n = 0 THEN Decoded(d, <<>>)
                                            ELSE next(f[n - 1], tokens[n])]
           P == {m \in 0 .. N : \E f : E(f, m)}
<1>1. N \in Nat /\ \A n \in 1 .. N : tokens[n] \in Tokenizer!Tokens
  BY LenProperties, ElementOfSeq
<1>2. \A acc, token : next(acc, token) = map_next(acc, token)
  OBVIOUS
<1>3. map_tokens(d, tokens) = (CHOOSE f : E(f, N))[N]
  BY DEF map_tokens, Fold, map_next
<1> HIDE DEF next, N
<1>4. 0 \in P
  <2>1. E([n \in 0 .. 0 |-> Decoded(d, <<>>)], 0)
    OBVIOUS
  <2> HIDE DEF E
  <2> QED  BY <1>1, <2>1
<1>5. ASSUME NEW m \in 1 .. N, m - 1 \in P
      PROVE  m \in P
  <2>1. PICK f : E(f, m - 1)
    BY <1>5
  <2> DEFINE g == [n \in 0 .. m |-> IF n = m THEN next(f[m - 1], tokens[m]) ELSE f[n]]
  <2>2. E(g, m)
    <3>1. ASSUME NEW n \in 0 .. m
          PROVE  g[n] = IF n = 0 THEN Decoded(d, <<>>) ELSE next(g[n - 1], tokens[n])
      BY <1>1, <2>1
    <3> QED  BY <3>1
  <2> HIDE DEF E
  <2> QED  BY <1>1, <2>2
<1>6. P = 0 .. N
  <2>1. P \in SUBSET (0 .. N)
    OBVIOUS
  <2> HIDE DEF P
  <2> QED  BY <1>1, <1>4, <1>5, <2>1, CountingUp
<1>7. \E f : E(f, N)
  <2> HIDE DEF E
  <2> QED  BY <1>1, <1>6
<1> DEFINE f == CHOOSE f : E(f, N)
<1>8. E(f, N)
  <2> HIDE DEF E
  <2> QED  BY <1>7
<1>9. f[0] = Decoded(d, <<>>) /\ \A n \in 1 .. N : f[n] = map_next(f[n - 1], tokens[n])
  <2> HIDE DEF f
  <2> QED  BY <1>1, <1>2, <1>8
<1>10. map_tokens(d, tokens) = f[N]
  <2> HIDE DEF E
  <2> QED  BY <1>3
<1> HIDE DEF f
<1> DEFINE Q == {n \in 0 .. N : Decodes(f[n])}
<1>11. 0 \in Q
  <2>1. Decodes(f[0])
    BY <1>9, ListsOfNoneAndOne DEF Decodes, Decoded
  <2> QED  BY <1>1, <2>1
<1>12. ASSUME NEW n \in 1 .. N, n - 1 \in Q PROVE n \in Q
  <2>1. PICK acc : acc = f[n - 1]
    OBVIOUS
  <2>2. Decodes(acc) /\ f[n] = map_next(acc, tokens[n])
    BY <1>9, <1>12, <2>1
  <2>3. Decodes(map_token(acc.decoder, tokens[n]))
    BY <1>1, <2>2, TokenDecodes DEF Decodes
  <2>4. Decodes(map_next(acc, tokens[n]))
    BY <2>2, <2>3, ListsJoin DEF Decodes, map_next, Joined, Decoded
  <2> QED  BY <2>2, <2>4
<1>13. Q = 0 .. N
  <2>1. Q \in SUBSET (0 .. N)
    OBVIOUS
  <2> HIDE DEF Q
  <2> QED  BY <1>1, <1>11, <1>12, <2>1, CountingUp
<1>14. N \in Q
  BY <1>1, <1>13
<1> QED
  BY <1>10, <1>14

LEMMA ParsedDecodes ==
  ASSUME NEW d, DecoderOK(d), NEW o, Parsed(o)
  PROVE  Decodes(decoded_by(d, o))
<1>1. DecoderOK([d EXCEPT !.parser = o.parser])
  BY DEF DecoderOK, Parsed
<1> QED
  BY <1>1, TokensDecode DEF decoded_by, Parsed

LEMMA FeedDecodes ==
  ASSUME NEW d, DecoderOK(d), NEW bytes \in Seq(Byte)
  PROVE  Decodes(feed(d, bytes))
<1>1. Parsed(Drained(fed_with(d.parser, bytes)))
  BY FedParses, DrainedParses DEF DecoderOK
<1> QED
  BY <1>1, ParsedDecodes DEF feed

LEMMA FinishDecodes ==
  ASSUME NEW d, DecoderOK(d)
  PROVE  Decodes(finish(d))
<1>1. Parsed(flushed(d.parser))
  BY FlushParses DEF DecoderOK
<1>2. PICK ended : ended = decoded_by(d, flushed(d.parser))
  OBVIOUS
<1>3. Decodes(ended)
  BY <1>1, <1>2, ParsedDecodes
<1>4. Listed(ended.events \o orphan(ended.decoder))
  BY <1>3, ListsJoin, ListsOfNoneAndOne DEF Decodes, orphan
<1>5. DecoderOK([ended.decoder EXCEPT !.high_surrogate = FALSE])
  BY <1>3, DecodersChange DEF Decodes
<1> QED
  BY <1>2, <1>4, <1>5 DEF finish, and_orphan, Decodes, Decoded

LEMMA NewDecodes == DecoderOK(new(Limit))
<1>1. Tokenizer!Good(Tokenizer!Outcome(Tokenizer!Ground(Limit, <<>>), <<>>))
  <2>1. <<>> \in Seq(Tokenizer!Byte)
    BY EmptySeq
  <2> QED  BY <2>1, Tokenizer!GroundIsGood, TokenizerAssumptions
<1>2. ParserOK(Ground(Limit, <<>>))
  BY <1>1, SamePieces DEF Tokenizer!Good, ParserOK, Outcome
<1> QED
  BY <1>2 DEF DecoderOK, new

-----------------------------------------------------------------------------
(***************************************************************************)
(* What the folds of a call do, one element after the other.               *)
(***************************************************************************)
OfferBase(acc) == [slots |-> acc.slots, replies |-> acc.replies, is_reply |-> FALSE]

ReadBase == [ decoder |-> decoder, unattributed |-> decoder_carry, slots |-> slots,
              replies |-> <<>>, typeahead |-> typeahead ]

Registering(f, tracked, asks) ==
  /\ f[0] = [slots |-> tracked, next_id |-> next_id, ids |-> <<>>]
  /\ \A n \in 1 .. Len(asks) : f[n] = register_next(f[n - 1], asks[n])

Resolving(f, tracked, ids) ==
  /\ f[0] = tracked
  /\ \A n \in 1 .. Len(ids) : f[n] = C!resolve(f[n - 1], ids[n])

Offering(f, ids, acc0, events) ==
  /\ f[0] = OfferBase(acc0)
  /\ \A n \in 1 .. Len(events) : f[n] = offer(ids, f[n - 1], events[n])

Reading(f, ids, chunk) ==
  /\ f[0] = ReadBase
  /\ \A n \in 1 .. Len(chunk) : f[n] = read_byte(ids, f[n - 1], chunk[n])

LEMMA RegisterRun ==
  ASSUME NEW tracked, NEW asks, Listed(asks)
  PROVE  \E f : Registering(f, tracked, asks) /\ register_all(tracked, asks) = f[Len(asks)]
<1> DEFINE N == Len(asks)
           next(acc, x) == CHOOSE o \in { register_next(y, x) : y \in {acc} } : TRUE
           E(f, m) == f = [n \in 0 .. m |-> IF n = 0 THEN [slots |-> tracked, next_id |-> next_id, ids |-> <<>>]
                                            ELSE next(f[n - 1], asks[n])]
           P == {m \in 0 .. N : \E f : E(f, m)}
<1>1. N \in Nat
  BY ListsHaveLength
<1>2. \A acc, x : next(acc, x) = register_next(acc, x)
  OBVIOUS
<1>3. register_all(tracked, asks) = (CHOOSE f : E(f, N))[N]
  BY DEF register_all, Fold
<1> HIDE DEF next, N
<1>4. 0 \in P
  <2>1. E([n \in 0 .. 0 |-> [slots |-> tracked, next_id |-> next_id, ids |-> <<>>]], 0)
    OBVIOUS
  <2> HIDE DEF E
  <2> QED  BY <1>1, <2>1
<1>5. ASSUME NEW m \in 1 .. N, m - 1 \in P
      PROVE  m \in P
  <2>1. PICK f : E(f, m - 1)
    BY <1>5
  <2> DEFINE g == [n \in 0 .. m |-> IF n = m THEN next(f[m - 1], asks[m]) ELSE f[n]]
  <2>2. E(g, m)
    <3>1. ASSUME NEW n \in 0 .. m
          PROVE  g[n] = IF n = 0 THEN [slots |-> tracked, next_id |-> next_id, ids |-> <<>>] ELSE next(g[n - 1], asks[n])
      BY <1>1, <2>1
    <3> QED  BY <3>1
  <2> HIDE DEF E
  <2> QED  BY <1>1, <2>2
<1>6. P = 0 .. N
  <2>1. P \in SUBSET (0 .. N)
    OBVIOUS
  <2> HIDE DEF P
  <2> QED  BY <1>1, <1>4, <1>5, <2>1, CountingUp
<1>7. \E f : E(f, N)
  <2> HIDE DEF E
  <2> QED  BY <1>1, <1>6
<1> DEFINE run == CHOOSE f : E(f, N)
<1>8. E(run, N)
  <2> HIDE DEF E
  <2> QED  BY <1>7
<1>9. run[0] = [slots |-> tracked, next_id |-> next_id, ids |-> <<>>] /\ \A n \in 1 .. N : run[n] = register_next(run[n - 1], asks[n])
  <2> HIDE DEF run
  <2> QED  BY <1>1, <1>2, <1>8
<1>10. register_all(tracked, asks) = run[N]
  <2> HIDE DEF E
  <2> QED  BY <1>3
<1> HIDE DEF run
<1>11. \A n \in 1 .. Len(asks) : run[n] = register_next(run[n - 1], asks[n])
  BY <1>9 DEF N
<1>12. register_all(tracked, asks) = run[Len(asks)]
  BY <1>10 DEF N
<1>13. Registering(run, tracked, asks)
  BY <1>9, <1>11 DEF Registering
<1> QED  BY <1>12, <1>13

LEMMA ResolveRun ==
  ASSUME NEW tracked, NEW ids, Listed(ids)
  PROVE  \E f : Resolving(f, tracked, ids) /\ resolve_all(tracked, ids) = f[Len(ids)]
<1> DEFINE N == Len(ids)
           next(acc, x) == CHOOSE o \in { C!resolve(y, x) : y \in {acc} } : TRUE
           E(f, m) == f = [n \in 0 .. m |-> IF n = 0 THEN tracked
                                            ELSE next(f[n - 1], ids[n])]
           P == {m \in 0 .. N : \E f : E(f, m)}
<1>1. N \in Nat
  BY ListsHaveLength
<1>2. \A acc, x : next(acc, x) = C!resolve(acc, x)
  OBVIOUS
<1>3. resolve_all(tracked, ids) = (CHOOSE f : E(f, N))[N]
  BY DEF resolve_all, Fold
<1> HIDE DEF next, N
<1>4. 0 \in P
  <2>1. E([n \in 0 .. 0 |-> tracked], 0)
    OBVIOUS
  <2> HIDE DEF E
  <2> QED  BY <1>1, <2>1
<1>5. ASSUME NEW m \in 1 .. N, m - 1 \in P
      PROVE  m \in P
  <2>1. PICK f : E(f, m - 1)
    BY <1>5
  <2> DEFINE g == [n \in 0 .. m |-> IF n = m THEN next(f[m - 1], ids[m]) ELSE f[n]]
  <2>2. E(g, m)
    <3>1. ASSUME NEW n \in 0 .. m
          PROVE  g[n] = IF n = 0 THEN tracked ELSE next(g[n - 1], ids[n])
      BY <1>1, <2>1
    <3> QED  BY <3>1
  <2> HIDE DEF E
  <2> QED  BY <1>1, <2>2
<1>6. P = 0 .. N
  <2>1. P \in SUBSET (0 .. N)
    OBVIOUS
  <2> HIDE DEF P
  <2> QED  BY <1>1, <1>4, <1>5, <2>1, CountingUp
<1>7. \E f : E(f, N)
  <2> HIDE DEF E
  <2> QED  BY <1>1, <1>6
<1> DEFINE run == CHOOSE f : E(f, N)
<1>8. E(run, N)
  <2> HIDE DEF E
  <2> QED  BY <1>7
<1>9. run[0] = tracked /\ \A n \in 1 .. N : run[n] = C!resolve(run[n - 1], ids[n])
  <2> HIDE DEF run
  <2> QED  BY <1>1, <1>2, <1>8
<1>10. resolve_all(tracked, ids) = run[N]
  <2> HIDE DEF E
  <2> QED  BY <1>3
<1> HIDE DEF run
<1>11. \A n \in 1 .. Len(ids) : run[n] = C!resolve(run[n - 1], ids[n])
  BY <1>9 DEF N
<1>12. resolve_all(tracked, ids) = run[Len(ids)]
  BY <1>10 DEF N
<1>13. Resolving(run, tracked, ids)
  BY <1>9, <1>11 DEF Resolving
<1> QED  BY <1>12, <1>13

LEMMA OfferRun ==
  ASSUME NEW ids, NEW acc0, NEW events, Listed(events)
  PROVE  \E f : Offering(f, ids, acc0, events) /\ offer_all(ids, acc0, events) = f[Len(events)]
<1> DEFINE N == Len(events)
           next(acc, x) == CHOOSE o \in { offer(ids, y, x) : y \in {acc} } : TRUE
           E(f, m) == f = [n \in 0 .. m |-> IF n = 0 THEN OfferBase(acc0)
                                            ELSE next(f[n - 1], events[n])]
           P == {m \in 0 .. N : \E f : E(f, m)}
<1>1. N \in Nat
  BY ListsHaveLength
<1>2. \A acc, x : next(acc, x) = offer(ids, acc, x)
  OBVIOUS
<1>3. offer_all(ids, acc0, events) = (CHOOSE f : E(f, N))[N]
  BY DEF offer_all, OfferBase, Fold
<1> HIDE DEF next, N
<1>4. 0 \in P
  <2>1. E([n \in 0 .. 0 |-> OfferBase(acc0)], 0)
    OBVIOUS
  <2> HIDE DEF E
  <2> QED  BY <1>1, <2>1
<1>5. ASSUME NEW m \in 1 .. N, m - 1 \in P
      PROVE  m \in P
  <2>1. PICK f : E(f, m - 1)
    BY <1>5
  <2> DEFINE g == [n \in 0 .. m |-> IF n = m THEN next(f[m - 1], events[m]) ELSE f[n]]
  <2>2. E(g, m)
    <3>1. ASSUME NEW n \in 0 .. m
          PROVE  g[n] = IF n = 0 THEN OfferBase(acc0) ELSE next(g[n - 1], events[n])
      BY <1>1, <2>1
    <3> QED  BY <3>1
  <2> HIDE DEF E
  <2> QED  BY <1>1, <2>2
<1>6. P = 0 .. N
  <2>1. P \in SUBSET (0 .. N)
    OBVIOUS
  <2> HIDE DEF P
  <2> QED  BY <1>1, <1>4, <1>5, <2>1, CountingUp
<1>7. \E f : E(f, N)
  <2> HIDE DEF E
  <2> QED  BY <1>1, <1>6
<1> DEFINE run == CHOOSE f : E(f, N)
<1>8. E(run, N)
  <2> HIDE DEF E
  <2> QED  BY <1>7
<1>9. run[0] = OfferBase(acc0) /\ \A n \in 1 .. N : run[n] = offer(ids, run[n - 1], events[n])
  <2> HIDE DEF run
  <2> QED  BY <1>1, <1>2, <1>8
<1>10. offer_all(ids, acc0, events) = run[N]
  <2> HIDE DEF E
  <2> QED  BY <1>3
<1> HIDE DEF run
<1>11. \A n \in 1 .. Len(events) : run[n] = offer(ids, run[n - 1], events[n])
  BY <1>9 DEF N
<1>12. offer_all(ids, acc0, events) = run[Len(events)]
  BY <1>10 DEF N
<1>13. Offering(run, ids, acc0, events)
  BY <1>9, <1>11 DEF Offering
<1> QED  BY <1>12, <1>13

LEMMA ReadRun ==
  ASSUME NEW ids, NEW chunk, Listed(chunk)
  PROVE  \E f : Reading(f, ids, chunk) /\ read_bytes(ids, chunk) = f[Len(chunk)]
<1> DEFINE N == Len(chunk)
           next(acc, x) == CHOOSE o \in { read_byte(ids, y, x) : y \in {acc} } : TRUE
           E(f, m) == f = [n \in 0 .. m |-> IF n = 0 THEN ReadBase
                                            ELSE next(f[n - 1], chunk[n])]
           P == {m \in 0 .. N : \E f : E(f, m)}
<1>1. N \in Nat
  BY ListsHaveLength
<1>2. \A acc, x : next(acc, x) = read_byte(ids, acc, x)
  OBVIOUS
<1>3. read_bytes(ids, chunk) = (CHOOSE f : E(f, N))[N]
  BY DEF read_bytes, ReadBase, Fold
<1> HIDE DEF next, N
<1>4. 0 \in P
  <2>1. E([n \in 0 .. 0 |-> ReadBase], 0)
    OBVIOUS
  <2> HIDE DEF E
  <2> QED  BY <1>1, <2>1
<1>5. ASSUME NEW m \in 1 .. N, m - 1 \in P
      PROVE  m \in P
  <2>1. PICK f : E(f, m - 1)
    BY <1>5
  <2> DEFINE g == [n \in 0 .. m |-> IF n = m THEN next(f[m - 1], chunk[m]) ELSE f[n]]
  <2>2. E(g, m)
    <3>1. ASSUME NEW n \in 0 .. m
          PROVE  g[n] = IF n = 0 THEN ReadBase ELSE next(g[n - 1], chunk[n])
      BY <1>1, <2>1
    <3> QED  BY <3>1
  <2> HIDE DEF E
  <2> QED  BY <1>1, <2>2
<1>6. P = 0 .. N
  <2>1. P \in SUBSET (0 .. N)
    OBVIOUS
  <2> HIDE DEF P
  <2> QED  BY <1>1, <1>4, <1>5, <2>1, CountingUp
<1>7. \E f : E(f, N)
  <2> HIDE DEF E
  <2> QED  BY <1>1, <1>6
<1> DEFINE run == CHOOSE f : E(f, N)
<1>8. E(run, N)
  <2> HIDE DEF E
  <2> QED  BY <1>7
<1>9. run[0] = ReadBase /\ \A n \in 1 .. N : run[n] = read_byte(ids, run[n - 1], chunk[n])
  <2> HIDE DEF run
  <2> QED  BY <1>1, <1>2, <1>8
<1>10. read_bytes(ids, chunk) = run[N]
  <2> HIDE DEF E
  <2> QED  BY <1>3
<1> HIDE DEF run
<1>11. \A n \in 1 .. Len(chunk) : run[n] = read_byte(ids, run[n - 1], chunk[n])
  BY <1>9 DEF N
<1>12. read_bytes(ids, chunk) = run[Len(chunk)]
  BY <1>10 DEF N
<1>13. Reading(run, ids, chunk)
  BY <1>9, <1>11 DEF Reading
<1> QED  BY <1>12, <1>13
-----------------------------------------------------------------------------
(***************************************************************************)
(* Slots, where L holds the ids a failed probe has left: what each call    *)
(* does to them.                                                           *)
(***************************************************************************)
Tracked(tracked, bound, L) ==
  /\ bound \in Nat
  /\ DOMAIN tracked \subseteq 0 .. bound - 1
  /\ \A i \in DOMAIN tracked : tracked[i] \in C!Slot
  /\ \A i \in DOMAIN tracked \ L : tracked[i].outstanding = 1

\* Nothing new, and every waiter counted.
Fewer(tracked, before, bound, L) ==
  Tracked(tracked, bound, L) /\ DOMAIN tracked \subseteq DOMAIN before

LEMMA FirstIsOfThem ==
  ASSUME NEW S \in SUBSET Nat, S # {}
  PROVE  C!first(S) \in S
<1>1. \E n \in S : \A m \in S : n <= m
  BY Tokenizer!LeastElement, TokenizerAssumptions
<1> QED
  BY <1>1 DEF C!first

LEMMA TrackedAreNaturals ==
  ASSUME NEW tracked, NEW bound, NEW L, Tracked(tracked, bound, L)
  PROVE  DOMAIN tracked \in SUBSET Nat
BY DEF Tracked

LEMMA ReleaseLeavesFewer ==
  ASSUME NEW tracked, NEW bound, NEW L, Tracked(tracked, bound, L),
         NEW id \in DOMAIN tracked
  PROVE  /\ Fewer(C!release(tracked, id), tracked, bound, L)
         /\ id \notin DOMAIN C!release(tracked, id) \/ id \in L
<1>1. CASE tracked[id].outstanding = 1
  BY <1>1 DEF C!release, C!remove, Fewer, Tracked
<1>2. CASE tracked[id].outstanding # 1
  <2>1. id \in L
    BY <1>2 DEF Tracked
  <2>2. PICK after : after = [tracked EXCEPT ![id].outstanding = @ - 1]
    OBVIOUS
  <2>3. /\ DOMAIN after = DOMAIN tracked
        /\ \A i \in DOMAIN tracked : i # id => after[i] = tracked[i]
        /\ after[id] = [tracked[id] EXCEPT !.outstanding = @ - 1]
    BY <2>2
  <2>4. after[id] \in C!Slot
    <3>1. tracked[id] \in C!Slot
      BY DEF Tracked
    <3>2. tracked[id].outstanding - 1 \in Nat \ {0}
      BY <1>2, <3>1 DEF C!Slot
    <3> QED  BY <2>3, <3>1, <3>2 DEF C!Slot
  <2>5. Fewer(after, tracked, bound, L)
    BY <2>1, <2>3, <2>4 DEF Fewer, Tracked
  <2> QED  BY <1>2, <2>1, <2>2, <2>5 DEF C!release
<1> QED  BY <1>1, <1>2

LEMMA ResolveLeavesFewer ==
  ASSUME NEW tracked, NEW bound, NEW L, Tracked(tracked, bound, L), NEW id
  PROVE  /\ Fewer(C!resolve(tracked, id), tracked, bound, L)
         /\ id \notin DOMAIN C!resolve(tracked, id) \/ id \in L
<1>1. CASE id \in DOMAIN tracked
  BY <1>1, ReleaseLeavesFewer DEF C!resolve
<1>2. CASE id \notin DOMAIN tracked
  BY <1>2 DEF C!resolve, Fewer
<1> QED  BY <1>1, <1>2

\* Resolving every id of a call leaves those of a failed probe.
LEMMA ResolveAllLeavesFewer ==
  ASSUME NEW tracked, NEW bound, NEW L, Tracked(tracked, bound, L),
         NEW ids, Listed(ids)
  PROVE  /\ Fewer(resolve_all(tracked, ids), tracked, bound, L)
         /\ DOMAIN resolve_all(tracked, ids) \cap ToSet(ids) \subseteq L
<1>1. PICK f : Resolving(f, tracked, ids) /\ resolve_all(tracked, ids) = f[Len(ids)]
  BY ResolveRun
<1> DEFINE N == Len(ids)
           R(n) == /\ Fewer(f[n], tracked, bound, L)
                   /\ \A k \in 1 .. n : ids[k] \notin DOMAIN f[n] \/ ids[k] \in L
           Q == {n \in 0 .. N : R(n)}
<1>2. N \in Nat /\ DOMAIN ids = 1 .. N
  BY ListsHaveLength
<1> HIDE DEF N
<1>3. 0 \in Q
  BY <1>1, <1>2 DEF Fewer, Resolving
<1>4. ASSUME NEW n \in 1 .. N, n - 1 \in Q PROVE n \in Q
  <2>1. R(n - 1) /\ f[n] = C!resolve(f[n - 1], ids[n])
    BY <1>1, <1>4 DEF N, Resolving
  <2>2. /\ Fewer(f[n], f[n - 1], bound, L)
        /\ ids[n] \notin DOMAIN f[n] \/ ids[n] \in L
    BY <2>1, ResolveLeavesFewer DEF Fewer
  <2>3. Fewer(f[n], tracked, bound, L)
    BY <2>1, <2>2 DEF Fewer
  <2>4. ASSUME NEW k \in 1 .. n
        PROVE  ids[k] \notin DOMAIN f[n] \/ ids[k] \in L
    <3>1. CASE k = n
      BY <2>2, <3>1
    <3>2. CASE k \in 1 .. n - 1
      BY <2>1, <2>2, <3>2 DEF Fewer
    <3> QED  BY <1>2, <3>1, <3>2
  <2> QED  BY <1>2, <2>3, <2>4
<1>5. Q = 0 .. N
  <2>1. Q \in SUBSET (0 .. N)
    OBVIOUS
  <2> HIDE DEF Q
  <2> QED  BY <1>2, <1>3, <1>4, <2>1, CountingUp
<1>6. R(N)
  BY <1>2, <1>5
<1>7. resolve_all(tracked, ids) = f[N]
  BY <1>1 DEF N
<1> QED
  BY <1>2, <1>6, <1>7 DEF ToSet

LEMMA FeedLeavesFewer ==
  ASSUME NEW tracked, NEW bound, NEW L, Tracked(tracked, bound, L), NEW ev
  PROVE  /\ Fewer(C!feed(tracked, ev), tracked, bound, L)
         /\ C!feed_id(tracked, ev) \in Nat =>
              LET id == C!feed_id(tracked, ev)
              IN  id \in DOMAIN C!feed(tracked, ev) /\ C!feed(tracked, ev)[id].reply # NoReply
<1> DEFINE M == C!matching(tracked, ev)
<1>1. PICK id : id = C!feed_id(tracked, ev)
  OBVIOUS
<1>2. PICK after : after = C!feed(tracked, ev)
  OBVIOUS
<1>3. /\ DOMAIN after = DOMAIN tracked
      /\ \A i \in DOMAIN tracked :
           after[i] = IF i = id THEN [tracked[i] EXCEPT !.reply = ev] ELSE tracked[i]
  BY <1>1, <1>2 DEF C!feed
<1>4. M \subseteq DOMAIN tracked
  BY DEF C!matching
<1>5. CASE M = {}
  <2>1. id = NoId /\ NoId \notin Nat
    BY <1>1, <1>5, SyncAssumption DEF C!feed_id
  <2>2. \A i \in DOMAIN tracked : after[i] = tracked[i]
    BY <1>3, <2>1, TrackedAreNaturals
  <2>3. Fewer(after, tracked, bound, L)
    BY <1>3, <2>2 DEF Fewer, Tracked
  <2> QED  BY <1>1, <1>2, <2>1, <2>3
<1>6. CASE M # {}
  <2>1. id \in M
    <3>1. M \in SUBSET Nat
      BY <1>4, TrackedAreNaturals
    <3>2. id = C!first(M)
      BY <1>1, <1>6 DEF C!feed_id
    <3> HIDE DEF M
    <3> QED  BY <1>6, <3>1, <3>2, FirstIsOfThem
  <2>2. ev \in ReplyEvent /\ ev # NoReply
    <3>1. <<tracked[id].expectation, ev>> \in Matches
      BY <2>1 DEF C!matching, C!match_event
    <3>2. PICK e \in Expectation :
            <<tracked[id].expectation, ev>> = <<e, event("Syntax", reply_of[e], {})>>
      BY <3>1 DEF Matches
    <3>3. ev = event("Syntax", reply_of[e], {})
      BY <3>2
    <3>4. ev \in ReplyEvent
      BY <3>3 DEF ReplyEvent
    <3> QED  BY <3>4, SyncAssumption
  <2>3. id \in DOMAIN tracked /\ tracked[id] \in C!Slot
    BY <1>4, <2>1 DEF Tracked
  <2>4. /\ after[id] \in C!Slot /\ after[id].reply = ev
        /\ after[id].outstanding = tracked[id].outstanding
    BY <1>3, <2>2, <2>3 DEF C!Slot
  <2>5. Fewer(after, tracked, bound, L)
    BY <1>3, <2>3, <2>4 DEF Fewer, Tracked
  <2> QED  BY <1>1, <1>2, <1>3, <2>2, <2>3, <2>4, <2>5
<1> QED  BY <1>5, <1>6

-----------------------------------------------------------------------------
(***************************************************************************)
(* Registering what a call asks for: what is tracked that no failed probe  *)
(* left has one of its ids, and one waiter.                                *)
(***************************************************************************)
Registered(acc, asks, n, L) ==
  /\ Tracked(acc.slots, acc.next_id, L)
  /\ acc.ids \in Seq(Nat) /\ Len(acc.ids) = n
  /\ DOMAIN acc.slots \subseteq L \cup ToSet(acc.ids)
  /\ \A i \in DOMAIN acc.slots \ L : \E k \in 1 .. n : acc.slots[i].expectation = asks[k]

LEMMA ListsGrow ==
  ASSUME NEW S, NEW s \in Seq(S), NEW x \in S
  PROVE  /\ Append(s, x) \in Seq(S) /\ Len(Append(s, x)) = Len(s) + 1
         /\ ToSet(Append(s, x)) = ToSet(s) \cup {x}
<1>1. /\ Append(s, x) \in Seq(S) /\ Len(Append(s, x)) = Len(s) + 1
      /\ \A i \in 1 .. Len(s) : Append(s, x)[i] = s[i]
      /\ Append(s, x)[Len(s) + 1] = x
  BY AppendProperties
<1>2. Len(s) \in Nat /\ DOMAIN s = 1 .. Len(s)
      /\ DOMAIN Append(s, x) = 1 .. Len(s) + 1
  BY <1>1, LenProperties
<1>3. PICK t : t = Append(s, x)
  OBVIOUS
<1>4. ASSUME NEW y
      PROVE  y \in ToSet(t) <=> y \in ToSet(s) \cup {x}
  BY <1>1, <1>2, <1>3 DEF ToSet
<1>5. ToSet(t) = ToSet(s) \cup {x}
  BY <1>4
<1> QED  BY <1>1, <1>3, <1>5

LEMMA OneMoreRegistered ==
  ASSUME NEW acc, NEW asks \in Seq(Expectation), NEW n \in 1 .. Len(asks), NEW L,
         \A k \in 1 .. n - 1 : asks[k] # asks[n],
         Registered(acc, asks, n - 1, L)
  PROVE  Registered(register_next(acc, asks[n]), asks, n, L)
<1> DEFINE e == asks[n]
           clash == C!clashing(acc.slots, e)
<1>1. PICK id : id = C!register_id(acc.slots, acc.next_id, e)
  OBVIOUS
<1>2. PICK after : after = C!register(acc.slots, acc.next_id, e)
  OBVIOUS
<1>3. PICK out : out = register_next(acc, e)
  OBVIOUS
<1>4. /\ out.slots = after /\ out.ids = Append(acc.ids, id)
      /\ out.next_id = IF id = acc.next_id THEN id + 1 ELSE acc.next_id
  BY <1>1, <1>2, <1>3 DEF register_next
<1>5. /\ DOMAIN after = DOMAIN acc.slots \cup {id}
      /\ \A i \in DOMAIN acc.slots : i # id => after[i] = acc.slots[i]
      /\ id \in DOMAIN acc.slots =>
           after[id] = [acc.slots[id] EXCEPT !.outstanding = @ + 1]
      /\ id \notin DOMAIN acc.slots =>
           after[id] = [expectation |-> e, outstanding |-> 1, reply |-> NoReply]
  BY <1>1, <1>2 DEF C!register
<1>6. Tracked(acc.slots, acc.next_id, L) /\ acc.next_id \in Nat
  BY DEF Registered, Tracked
<1>7. e \in Expectation /\ Len(asks) \in Nat
  BY ElementOfSeq, LenProperties
<1>8. \A i \in clash : i \in DOMAIN acc.slots /\ acc.slots[i].expectation = e
  BY DEF C!clashing, C!distinguishes
<1>9. clash \subseteq L
  BY <1>7, <1>8 DEF Registered
<1>10. CASE clash = {}
  <2>1. id = acc.next_id /\ id \notin DOMAIN acc.slots
    BY <1>1, <1>6, <1>10 DEF C!register_id, Tracked
  <2>2. after[id] = [expectation |-> e, outstanding |-> 1, reply |-> NoReply]
    BY <1>5, <2>1
  <2>3. after[id] \in C!Slot
    BY <1>7, <2>2 DEF C!Slot
  <2>4. \A i \in DOMAIN acc.slots : after[i] = acc.slots[i]
    BY <1>5, <2>1
  <2>5. out.next_id = acc.next_id + 1
    BY <1>4, <2>1
  <2>6. Tracked(after, acc.next_id + 1, L)
    BY <1>5, <1>6, <2>1, <2>2, <2>3, <2>4 DEF Tracked
  <2>7. /\ out.ids \in Seq(Nat) /\ Len(out.ids) = n
        /\ ToSet(out.ids) = ToSet(acc.ids) \cup {id}
    <3>1. acc.ids \in Seq(Nat) /\ Len(acc.ids) = n - 1 /\ id \in Nat
      BY <1>6, <2>1 DEF Registered
    <3> QED  BY <1>4, <1>7, <3>1, ListsGrow
  <2>8. DOMAIN out.slots \subseteq L \cup ToSet(out.ids)
    BY <1>4, <1>5, <2>7 DEF Registered
  <2>9. ASSUME NEW i \in DOMAIN out.slots \ L
        PROVE  \E k \in 1 .. n : out.slots[i].expectation = asks[k]
    <3>1. CASE i = id
      BY <1>4, <1>7, <2>2, <3>1
    <3>2. CASE i \in DOMAIN acc.slots
      <4>1. \E k \in 1 .. n - 1 : acc.slots[i].expectation = asks[k]
        BY <2>9, <3>2 DEF Registered
      <4> QED  BY <1>4, <1>7, <2>4, <3>2, <4>1
    <3> QED  BY <1>4, <1>5, <2>9, <3>1, <3>2
  <2>10. Registered(out, asks, n, L)
    BY <1>4, <2>5, <2>6, <2>7, <2>8, <2>9 DEF Registered
  <2> QED  BY <1>3, <2>10
<1>11. CASE clash # {}
  <2>1. id \in clash
    <3>1. clash \in SUBSET Nat
      BY <1>6, <1>8, TrackedAreNaturals
    <3>2. id = C!first(clash)
      BY <1>1, <1>11 DEF C!register_id
    <3> HIDE DEF clash
    <3> QED  BY <1>11, <3>1, <3>2, FirstIsOfThem
  <2>2. /\ id \in DOMAIN acc.slots /\ id \in L /\ id \in Nat /\ id # acc.next_id
        /\ acc.slots[id] \in C!Slot
    BY <1>6, <1>8, <1>9, <2>1 DEF Tracked
  <2>3. after[id] \in C!Slot
    BY <1>5, <2>2 DEF C!Slot
  <2>4. Tracked(after, acc.next_id, L)
    BY <1>5, <1>6, <2>2, <2>3 DEF Tracked
  <2>5. /\ out.ids \in Seq(Nat) /\ Len(out.ids) = n
        /\ ToSet(out.ids) = ToSet(acc.ids) \cup {id}
    <3>1. acc.ids \in Seq(Nat) /\ Len(acc.ids) = n - 1
      BY DEF Registered
    <3> QED  BY <1>4, <1>7, <2>2, <3>1, ListsGrow
  <2>6. DOMAIN out.slots \subseteq L \cup ToSet(out.ids)
    BY <1>4, <1>5, <2>5 DEF Registered
  <2>7. ASSUME NEW i \in DOMAIN out.slots \ L
        PROVE  \E k \in 1 .. n : out.slots[i].expectation = asks[k]
    <3>1. i \in DOMAIN acc.slots /\ out.slots[i] = acc.slots[i]
      BY <1>4, <1>5, <2>2, <2>7
    <3>2. \E k \in 1 .. n - 1 : acc.slots[i].expectation = asks[k]
      BY <2>7, <3>1 DEF Registered
    <3> QED  BY <1>7, <3>1, <3>2
  <2>8. Registered(out, asks, n, L)
    BY <1>4, <2>2, <2>4, <2>5, <2>6, <2>7 DEF Registered
  <2> QED  BY <1>3, <2>8
<1> QED  BY <1>10, <1>11

LEMMA RegisterAllCounts ==
  ASSUME NEW tracked, NEW asks \in Seq(Expectation), NEW L, Tracked(tracked, next_id, L),
         DOMAIN tracked \subseteq L,
         \A i, j \in 1 .. Len(asks) : asks[i] = asks[j] => i = j
  PROVE  Registered(register_all(tracked, asks), asks, Len(asks), L)
<1> DEFINE N == Len(asks)
<1>1. PICK f : Registering(f, tracked, asks) /\ register_all(tracked, asks) = f[N]
  BY RegisterRun DEF Listed
<1> DEFINE Q == {n \in 0 .. N : Registered(f[n], asks, n, L)}
<1>2. N \in Nat
  BY LenProperties
<1>3. 0 \in Q
  <2>1. <<>> \in Seq(Nat) /\ Len(<<>>) = 0 /\ ToSet(<<>>) = {}
    BY EmptySeq DEF ToSet
  <2>2. f[0].slots = tracked /\ f[0].next_id = next_id /\ f[0].ids = <<>>
    BY <1>1 DEF Registering
  <2>3. Registered(f[0], asks, 0, L)
    BY <2>1, <2>2 DEF Registered
  <2> QED  BY <1>2, <2>3
<1>4. ASSUME NEW n \in 1 .. N, n - 1 \in Q PROVE n \in Q
  <2>1. PICK acc : acc = f[n - 1]
    OBVIOUS
  <2>2. Registered(acc, asks, n - 1, L) /\ f[n] = register_next(acc, asks[n])
    BY <1>1, <1>4, <2>1 DEF Registering
  <2>3. \A k \in 1 .. n - 1 : asks[k] # asks[n]
    BY <1>2
  <2>4. Registered(register_next(acc, asks[n]), asks, n, L)
    BY <2>2, <2>3, OneMoreRegistered
  <2> QED  BY <2>2, <2>4
<1>5. Q = 0 .. N
  <2>1. Q \in SUBSET (0 .. N)
    OBVIOUS
  <2> HIDE DEF Q
  <2> QED  BY <1>2, <1>3, <1>4, <2>1, CountingUp
<1>6. Registered(f[N], asks, N, L)
  BY <1>2, <1>5
<1> QED  BY <1>1, <1>6

-----------------------------------------------------------------------------
(***************************************************************************)
(* Offering events to the slots of a call: a reply that is taken leaves no *)
(* slot behind, but for one of a failed probe.                             *)
(***************************************************************************)
Offered(acc, ids, before, bound, L) ==
  /\ Fewer(acc.slots, before, bound, L)
  /\ Listed(acc.replies)
  /\ \A k \in DOMAIN acc.replies :
       /\ acc.replies[k][1] \in ids
       /\ acc.replies[k][1] \notin DOMAIN acc.slots \/ acc.replies[k][1] \in L

LEMMA FewerAndFewer ==
  ASSUME NEW a, NEW b, NEW c, NEW bound, NEW L, Fewer(a, b, bound, L), Fewer(b, c, bound, L)
  PROVE  Fewer(a, c, bound, L)
BY DEF Fewer

LEMMA OneMoreReply ==
  ASSUME NEW replies, Listed(replies), NEW r
  PROVE  /\ Listed(Append(replies, r))
         /\ \A k \in DOMAIN Append(replies, r) :
              \/ Append(replies, r)[k] = r
              \/ k \in DOMAIN replies /\ Append(replies, r)[k] = replies[k]
<1>1. PICK S : replies \in Seq(S)
  BY DEF Listed
<1>2. replies \in Seq(S \cup {r}) /\ r \in S \cup {r}
  BY <1>1, SeqMonotonic
<1>3. /\ Append(replies, r) \in Seq(S \cup {r})
      /\ Len(Append(replies, r)) = Len(replies) + 1
      /\ \A i \in 1 .. Len(replies) : Append(replies, r)[i] = replies[i]
      /\ Append(replies, r)[Len(replies) + 1] = r
  BY <1>2, AppendProperties
<1>4. Len(replies) \in Nat /\ DOMAIN replies = 1 .. Len(replies)
      /\ DOMAIN Append(replies, r) = 1 .. Len(replies) + 1
  BY <1>1, <1>3, LenProperties
<1> QED  BY <1>3, <1>4 DEF Listed

LEMMA OfferLeavesFewer ==
  ASSUME NEW ids \in SUBSET Nat, NEW got, NEW before, NEW bound, NEW L, NEW ev,
         got = [slots |-> got.slots, replies |-> got.replies, is_reply |-> got.is_reply],
         Offered(got, ids, before, bound, L)
  PROVE  LET out == offer(ids, got, ev)
         IN  /\ out = [slots |-> out.slots, replies |-> out.replies, is_reply |-> out.is_reply]
             /\ Offered(out, ids, before, bound, L)
<1>1. PICK out : out = offer(ids, got, ev)
  OBVIOUS
<1>2. PICK id : id = C!feed_id(got.slots, ev)
  OBVIOUS
<1>3. PICK fed : fed = C!feed(got.slots, ev)
  OBVIOUS
<1>4. Fewer(got.slots, before, bound, L) /\ Tracked(got.slots, bound, L)
  BY DEF Offered, Fewer
<1>5. /\ Fewer(fed, got.slots, bound, L)
      /\ id \in Nat => id \in DOMAIN fed /\ fed[id].reply # NoReply
  BY <1>2, <1>3, <1>4, FeedLeavesFewer
<1>6. CASE id \in ids
  <2>1. PICK taken : taken = C!release(fed, id)
    OBVIOUS
  <2>2. id \in DOMAIN fed /\ fed[id].reply # NoReply
    BY <1>5, <1>6
  <2>3. C!take_reply(fed, id) = taken
    BY <2>1, <2>2 DEF C!take_reply, C!is_completed
  <2>4. Fewer(taken, fed, bound, L) /\ (id \notin DOMAIN taken \/ id \in L)
    BY <1>5, <2>1, <2>2, ReleaseLeavesFewer DEF Fewer
  <2>5. PICK r : r = <<id, ev>>
    OBVIOUS
  <2>6. out = [slots |-> taken, replies |-> Append(got.replies, r), is_reply |-> TRUE]
    BY <1>1, <1>2, <1>3, <1>6, <2>3, <2>5 DEF offer
  <2>7. Fewer(taken, got.slots, bound, L)
    BY <1>5, <2>4, FewerAndFewer
  <2>8. Fewer(taken, before, bound, L)
    BY <1>4, <2>7, FewerAndFewer
  <2>9. Listed(Append(got.replies, r))
    BY OneMoreReply DEF Offered
  <2>10. ASSUME NEW k \in DOMAIN Append(got.replies, r)
         PROVE  LET w == Append(got.replies, r)[k][1]
                IN  w \in ids /\ (w \notin DOMAIN taken \/ w \in L)
    <3>1. CASE Append(got.replies, r)[k] = r
      BY <1>6, <2>4, <2>5, <3>1
    <3>2. CASE k \in DOMAIN got.replies /\ Append(got.replies, r)[k] = got.replies[k]
      BY <2>7, <3>2 DEF Offered, Fewer
    <3> QED  BY <3>1, <3>2, OneMoreReply DEF Offered
  <2>11. Offered(out, ids, before, bound, L)
    BY <2>6, <2>8, <2>9, <2>10 DEF Offered
  <2> QED  BY <1>1, <2>6, <2>11
<1>7. CASE id \notin ids
  <2>1. out = [slots |-> fed, replies |-> got.replies, is_reply |-> got.is_reply]
    BY <1>1, <1>2, <1>3, <1>7 DEF offer
  <2>2. Fewer(fed, before, bound, L)
    BY <1>4, <1>5, FewerAndFewer
  <2>3. Offered(out, ids, before, bound, L)
    BY <1>5, <2>1, <2>2 DEF Offered, Fewer
  <2> QED  BY <1>1, <2>1, <2>3
<1> QED  BY <1>6, <1>7

LEMMA OfferAllLeavesFewer ==
  ASSUME NEW ids \in SUBSET Nat, NEW acc, NEW before, NEW bound, NEW L,
         NEW events, Listed(events), Offered(acc, ids, before, bound, L)
  PROVE  Offered(offer_all(ids, acc, events), ids, before, bound, L)
<1> DEFINE N == Len(events)
           Whole(o) == o = [slots |-> o.slots, replies |-> o.replies, is_reply |-> o.is_reply]
<1>1. PICK f : Offering(f, ids, acc, events) /\ offer_all(ids, acc, events) = f[N]
  BY OfferRun
<1> DEFINE Q == {n \in 0 .. N : Whole(f[n]) /\ Offered(f[n], ids, before, bound, L)}
<1>2. N \in Nat
  BY ListsHaveLength
<1>3. 0 \in Q
  <2>1. f[0] = [slots |-> acc.slots, replies |-> acc.replies, is_reply |-> FALSE]
    BY <1>1 DEF Offering, OfferBase
  <2>2. Whole(f[0]) /\ f[0].slots = acc.slots /\ f[0].replies = acc.replies
    BY <2>1
  <2>3. Offered(f[0], ids, before, bound, L)
    BY <2>2 DEF Offered
  <2> QED  BY <1>2, <2>2, <2>3
<1>4. ASSUME NEW n \in 1 .. N, n - 1 \in Q PROVE n \in Q
  <2>1. PICK got : got = f[n - 1]
    OBVIOUS
  <2>2. /\ Whole(got) /\ Offered(got, ids, before, bound, L)
        /\ f[n] = offer(ids, got, events[n])
    BY <1>1, <1>4, <2>1 DEF Offering
  <2>3. /\ Whole(offer(ids, got, events[n]))
        /\ Offered(offer(ids, got, events[n]), ids, before, bound, L)
    BY <2>2, OfferLeavesFewer
  <2> QED  BY <2>2, <2>3
<1>5. Q = 0 .. N
  <2>1. Q \in SUBSET (0 .. N)
    OBVIOUS
  <2> HIDE DEF Q
  <2> QED  BY <1>2, <1>3, <1>4, <2>1, CountingUp
<1>6. N \in Q
  <2> HIDE DEF Q
  <2> QED  BY <1>2, <1>5
<1>7. Offered(f[N], ids, before, bound, L)
  BY <1>6
<1> QED  BY <1>1, <1>7

-----------------------------------------------------------------------------
(***************************************************************************)
(* A read: byte after byte the decoder stays one, and the slots a call     *)
(* finds stay tracked or go with their reply.                              *)
(***************************************************************************)
Matching(acc, ids, before, bound, L) ==
  /\ acc = [ decoder |-> acc.decoder, unattributed |-> acc.unattributed,
             slots |-> acc.slots, replies |-> acc.replies, typeahead |-> acc.typeahead ]
  /\ DecoderOK(acc.decoder)
  /\ Offered(acc, ids, before, bound, L)

LEMMA AttributeMatches ==
  ASSUME NEW ids \in SUBSET Nat, NEW acc, NEW before, NEW bound, NEW L, NEW got,
         Matching(acc, ids, before, bound, L), Decodes(got)
  PROVE  Matching(attribute(ids, acc, got), ids, before, bound, L)
<1>1. PICK out : out = attribute(ids, acc, got)
  OBVIOUS
<1>2. CASE got.events = <<>>
  <2>1. out = [acc EXCEPT !.decoder = got.decoder]
    BY <1>1, <1>2 DEF attribute
  <2>2. /\ out.decoder = got.decoder /\ out.slots = acc.slots /\ out.replies = acc.replies
        /\ out = [ decoder |-> out.decoder, unattributed |-> out.unattributed,
                   slots |-> out.slots, replies |-> out.replies, typeahead |-> out.typeahead ]
    BY <2>1 DEF Matching
  <2>3. Offered(out, ids, before, bound, L)
    BY <2>2 DEF Matching, Offered
  <2> QED  BY <1>1, <2>2, <2>3 DEF Matching, Decodes
<1>3. CASE got.events # <<>>
  <2>1. PICK taken : taken = offer_all(ids, acc, got.events)
    OBVIOUS
  <2>2. Offered(taken, ids, before, bound, L)
    BY <2>1, OfferAllLeavesFewer DEF Matching, Decodes
  <2>3. out = attribute_span(ids, acc, got.decoder, got.events)
    BY <1>1, <1>3 DEF attribute
  <2>4. /\ out.decoder = got.decoder /\ out.slots = taken.slots /\ out.replies = taken.replies
        /\ out = [ decoder |-> out.decoder, unattributed |-> out.unattributed,
                   slots |-> out.slots, replies |-> out.replies, typeahead |-> out.typeahead ]
    BY <2>1, <2>3 DEF attribute_span
  <2>5. Offered(out, ids, before, bound, L)
    BY <2>2, <2>4 DEF Offered
  <2> QED  BY <1>1, <2>4, <2>5 DEF Matching, Decodes
<1> QED  BY <1>2, <1>3

LEMMA ByteMatches ==
  ASSUME NEW ids \in SUBSET Nat, NEW acc, NEW before, NEW bound, NEW L, NEW n,
         Matching(acc, ids, before, bound, L), log[n].byte \in Byte
  PROVE  Matching(read_byte(ids, acc, n), ids, before, bound, L)
<1>1. PICK longer : longer = [acc EXCEPT !.unattributed = Append(@, n)]
  OBVIOUS
<1>2. /\ longer.decoder = acc.decoder /\ longer.slots = acc.slots
      /\ longer.replies = acc.replies
      /\ longer = [ decoder |-> longer.decoder, unattributed |-> longer.unattributed,
                    slots |-> longer.slots, replies |-> longer.replies,
                    typeahead |-> longer.typeahead ]
  BY <1>1 DEF Matching
<1>3. Matching(longer, ids, before, bound, L)
  BY <1>2 DEF Matching, Offered
<1>4. <<log[n].byte>> \in Seq(Byte)
  OBVIOUS
<1>5. Decodes(feed(acc.decoder, <<log[n].byte>>))
  BY <1>4, FeedDecodes DEF Matching
<1>6. read_byte(ids, acc, n) = attribute(ids, longer, feed(acc.decoder, <<log[n].byte>>))
  BY <1>1 DEF read_byte
<1> QED  BY <1>3, <1>5, <1>6, AttributeMatches

LEMMA BytesMatch ==
  ASSUME NEW ids \in SUBSET Nat, NEW L, NEW chunk, Listed(chunk),
         \A i \in 1 .. Len(chunk) : log[chunk[i]].byte \in Byte,
         DecoderOK(decoder), Tracked(slots, next_id, L)
  PROVE  Matching(read_bytes(ids, chunk), ids, slots, next_id, L)
<1> DEFINE N == Len(chunk)
<1>1. PICK f : Reading(f, ids, chunk) /\ read_bytes(ids, chunk) = f[N]
  BY ReadRun
<1> DEFINE Q == {n \in 0 .. N : Matching(f[n], ids, slots, next_id, L)}
<1>2. N \in Nat
  BY ListsHaveLength
<1>3. 0 \in Q
  <2>1. PICK acc : acc = f[0]
    OBVIOUS
  <2>2. acc = [ decoder |-> decoder, unattributed |-> decoder_carry, slots |-> slots,
                replies |-> <<>>, typeahead |-> typeahead ]
    BY <1>1, <2>1 DEF Reading, ReadBase
  <2>3. /\ acc.decoder = decoder /\ acc.slots = slots /\ acc.replies = <<>>
        /\ acc = [ decoder |-> acc.decoder, unattributed |-> acc.unattributed,
                   slots |-> acc.slots, replies |-> acc.replies, typeahead |-> acc.typeahead ]
    BY <2>2
  <2>4. Listed(acc.replies) /\ DOMAIN acc.replies = {}
    BY <2>3, ListsOfNoneAndOne
  <2>5. Fewer(acc.slots, slots, next_id, L)
    BY <2>3 DEF Fewer
  <2>6. Offered(acc, ids, slots, next_id, L)
    BY <2>4, <2>5 DEF Offered
  <2>7. Matching(acc, ids, slots, next_id, L)
    BY <2>3, <2>6 DEF Matching
  <2> QED  BY <1>2, <2>1, <2>7
<1>4. ASSUME NEW n \in 1 .. N, n - 1 \in Q PROVE n \in Q
  <2>1. PICK acc : acc = f[n - 1]
    OBVIOUS
  <2>2. Matching(acc, ids, slots, next_id, L) /\ f[n] = read_byte(ids, acc, chunk[n])
    BY <1>1, <1>4, <2>1 DEF Reading
  <2>3. Matching(read_byte(ids, acc, chunk[n]), ids, slots, next_id, L)
    BY <2>2, ByteMatches
  <2> QED  BY <2>2, <2>3
<1>5. Q = 0 .. N
  <2>1. Q \in SUBSET (0 .. N)
    OBVIOUS
  <2> HIDE DEF Q
  <2> QED  BY <1>2, <1>3, <1>4, <2>1, CountingUp
<1>6. N \in Q
  <2> HIDE DEF Q
  <2> QED  BY <1>2, <1>5
<1>7. Matching(f[N], ids, slots, next_id, L)
  BY <1>6
<1> QED  BY <1>1, <1>7

LEMMA ReadMatches ==
  ASSUME NEW ids \in SUBSET Nat, NEW L, NEW chunk, Listed(chunk),
         \A i \in 1 .. Len(chunk) : log[chunk[i]].byte \in Byte,
         DecoderOK(decoder), Tracked(slots, next_id, L)
  PROVE  Matching(read_and_match(ids, chunk), ids, slots, next_id, L)
<1>1. PICK acc : acc = read_bytes(ids, chunk)
  OBVIOUS
<1>2. Matching(acc, ids, slots, next_id, L)
  BY <1>1, BytesMatch
<1>3. Decodes(finish(acc.decoder))
  BY <1>2, FinishDecodes DEF Matching
<1>4. Matching(settle(ids, acc), ids, slots, next_id, L)
  BY <1>2, <1>3, AttributeMatches DEF settle
<1> QED  BY <1>1, <1>4 DEF read_and_match

-----------------------------------------------------------------------------
(***************************************************************************)
(* The inductive invariant.  SlotsAreOwned alone is not inductive: that a  *)
(* sweep, a reply or a timeout takes the slot away takes that nobody else  *)
(* waits for it, that its id is one of the call, and that the decoder      *)
(* keeps producing lists of events.                                        *)
(***************************************************************************)
World(bytes, n, requests) ==
  /\ bytes \in Seq([byte : Byte, from : Nat, reply : Expectation \cup {NoReply}])
  /\ n \in 0 .. Len(bytes)
  /\ requests \in Seq(Expectation)

Calling(c, active) ==
  /\ c = [ count |-> c.count, kind |-> c.kind, asks |-> c.asks, at |-> c.at,
           ids |-> c.ids, got |-> c.got, since |-> c.since, fresh |-> c.fresh ]
  /\ c.ids \in Seq(Nat) /\ active \in Nat \cup {NoId}
  /\ c.at = "poll" => \/ c.kind = "query" /\ c.ids = <<active>>
                      \/ c.kind = "probe" /\ active = NoId

Owned(tracked, L, active, c) ==
  DOMAIN tracked \subseteq L \cup {active} \cup (IF c.at = "poll" THEN ToSet(c.ids) ELSE {})

IInv ==
  /\ World(log, read, asked)
  /\ DecoderOK(decoder)
  /\ Calling(call, active_query)
  /\ Tracked(slots, next_id, leftover)
  /\ Owned(slots, leftover, active_query, call)

LEMMA OwnedIsTheProperty == SlotsAreOwned <=> Owned(slots, leftover, active_query, call)
BY DEF SlotsAreOwned, Owned, blocked

LEMMA InitIInv == Init => IInv
<1> SUFFICES ASSUME Init PROVE IInv
  OBVIOUS
<1>1. World(log, read, asked)
  BY EmptySeq DEF Init, World
<1>2. DecoderOK(decoder)
  BY NewDecodes DEF Init
<1>3. Calling(call, active_query)
  <2>1. <<>> \in Seq(Nat)
    BY EmptySeq
  <2> QED  BY <2>1 DEF Init, Calling
<1>4. Tracked(slots, next_id, leftover)
  BY DEF Init, Tracked
<1>5. Owned(slots, leftover, active_query, call)
  BY DEF Init, Owned
<1> QED  BY <1>1, <1>2, <1>3, <1>4, <1>5 DEF IInv

\* What is left when the call that waits gives up: the slots of failed probes.
LEMMA NothingIsOwnedThatResolves ==
  ASSUME IInv, blocked
  PROVE  /\ Tracked(resolve_all(slots, call.ids), next_id, leftover)
         /\ DOMAIN resolve_all(slots, call.ids) \subseteq leftover
<1>1. PICK after : after = resolve_all(slots, call.ids)
  OBVIOUS
<1>2. Listed(call.ids)
  BY DEF IInv, Calling, Listed
<1>3. Fewer(after, slots, next_id, leftover) /\ DOMAIN after \cap ToSet(call.ids) \subseteq leftover
  BY <1>1, <1>2, ResolveAllLeavesFewer DEF IInv
<1>4. DOMAIN slots \subseteq leftover \cup ToSet(call.ids)
  <2>1. CASE call.ids = <<active_query>>
    <3>1. active_query \in ToSet(call.ids)
      BY <2>1 DEF ToSet
    <3> QED  BY <3>1 DEF IInv, Owned, blocked
  <2>2. CASE active_query = NoId
    <3>1. NoId \notin DOMAIN slots
      BY SyncAssumption DEF IInv, Tracked
    <3> QED  BY <2>2, <3>1 DEF IInv, Owned, blocked
  <2> QED  BY <2>1, <2>2 DEF IInv, Calling, blocked
<1> QED  BY <1>1, <1>3, <1>4 DEF Fewer

LEMMA GivingUpPreservesIInv ==
  ASSUME IInv, blocked, slots' = resolve_all(slots, call.ids), active_query' = NoId,
         call' = Idle(call),
         UNCHANGED <<decoder, decoder_carry, next_id, typeahead, terminal, read, app>>
  PROVE  IInv'
<1>1. call'.at = "idle" /\ call'.ids = call.ids /\ Calling(call', NoId)
  BY DEF Idle, IInv, Calling
<1>2. Tracked(slots', next_id, leftover) /\ DOMAIN slots' \subseteq leftover
  BY NothingIsOwnedThatResolves
<1>3. UNCHANGED <<decoder, next_id, log, asked, read, leftover>>
  BY DEF terminal, app
<1>4. Owned(slots', leftover, NoId, call')
  BY <1>2 DEF Owned
<1> QED  BY <1>1, <1>2, <1>3, <1>4 DEF IInv

LEMMA ReadFailsPreservesIInv == ASSUME IInv, ReadFails PROVE IInv'
<1>1. /\ call' = Idle(call) /\ call.at = "poll"
      /\ leftover' = IF call.kind = "probe" THEN leftover \cup ToSet(call.ids) ELSE leftover
      /\ UNCHANGED <<decoder, slots, next_id, active_query, log, asked, read>>
  BY DEF ReadFails, blocked, terminal
<1>2. call'.at = "idle" /\ call'.ids = call.ids /\ Calling(call', active_query)
  BY <1>1 DEF Idle, IInv, Calling
<1>3. Tracked(slots, next_id, leftover')
  BY <1>1 DEF IInv, Tracked
<1>4. Owned(slots, leftover', active_query, call')
  <2>1. CASE call.kind = "probe"
    BY <1>1, <2>1 DEF IInv, Owned
  <2>2. CASE call.kind # "probe"
    <3>1. call.ids = <<active_query>>
      BY <1>1, <2>2 DEF IInv, Calling
    <3>2. ToSet(call.ids) = {active_query}
      BY <3>1 DEF ToSet
    <3> QED  BY <1>1, <2>2, <3>2 DEF IInv, Owned
  <2> QED  BY <2>1, <2>2
<1> QED  BY <1>1, <1>2, <1>3, <1>4 DEF IInv

\* The sweep before a call leaves the slots of failed probes alone.
LEMMA SweepLeavesTheFailed ==
  ASSUME IInv, ~ blocked
  PROVE  /\ Tracked(sweep_active_query(slots), next_id, leftover)
         /\ DOMAIN sweep_active_query(slots) \subseteq leftover
<1>1. DOMAIN slots \subseteq leftover \cup {active_query}
  BY DEF IInv, Owned, blocked
<1>2. CASE active_query = NoId
  <2>1. NoId \notin DOMAIN slots
    BY SyncAssumption DEF IInv, Tracked
  <2> QED  BY <1>1, <1>2, <2>1 DEF sweep_active_query, IInv
<1>3. CASE active_query # NoId
  <2>1. PICK after : after = C!resolve(slots, active_query)
    OBVIOUS
  <2>2. /\ Fewer(after, slots, next_id, leftover)
        /\ active_query \notin DOMAIN after \/ active_query \in leftover
    BY <2>1, ResolveLeavesFewer DEF IInv
  <2> QED  BY <1>1, <1>3, <2>1, <2>2 DEF sweep_active_query, Fewer
<1> QED  BY <1>2, <1>3

LEMMA AskPreservesIInv ==
  ASSUME IInv, NEW kind \in {"query", "probe"}, NEW asks \in Seq(Expectation),
         kind = "query" => Len(asks) = 1,
         \A i, j \in 1 .. Len(asks) : asks[i] = asks[j] => i = j,
         Ask(kind, asks)
  PROVE  IInv'
<1>1. PICK reg : reg = register_all(sweep_active_query(slots), asks)
  OBVIOUS
<1>2. PICK written \in BOOLEAN, received \in BOOLEAN :
        /\ slots' = reg.slots /\ next_id' = reg.next_id
        /\ active_query' = IF kind = "query" THEN reg.ids[1] ELSE NoId
        /\ call' = [ count |-> call.count + 1, kind |-> kind, asks |-> asks,
                     at |-> IF written THEN "poll" ELSE "idle",
                     ids |-> reg.ids, got |-> [i \in DOMAIN reg.ids |-> NoReply],
                     since |-> read, fresh |-> next_id ]
        /\ asked' = IF received THEN asked \o asks ELSE asked
        /\ leftover' = IF ~ written /\ kind = "probe"
                       THEN leftover \cup ToSet(reg.ids) ELSE leftover
  BY <1>1 DEF Ask
<1>3. ~ blocked /\ UNCHANGED <<decoder, log, read>>
  BY DEF Ask
<1>4. Registered(reg, asks, Len(asks), leftover)
  BY <1>1, <1>3, SweepLeavesTheFailed, RegisterAllCounts
<1>5. World(log, read, asked')
  <2>1. asked \o asks \in Seq(Expectation)
    BY ConcatProperties DEF IInv, World
  <2> QED  BY <1>2, <2>1 DEF IInv, World
<1>6. kind = "query" => reg.ids = <<active_query'>> /\ active_query' \in Nat
  <2>1. ASSUME kind = "query" PROVE reg.ids = <<reg.ids[1]>> /\ reg.ids[1] \in Nat
    <3>1. reg.ids \in Seq(Nat) /\ Len(reg.ids) = 1
      BY <1>4, <2>1 DEF Registered
    <3> QED  BY <3>1
  <2> QED  BY <1>2, <2>1
<1>7. Calling(call', active_query')
  <2>1. call'.kind = kind /\ call'.ids = reg.ids
    BY <1>2
  <2>2. reg.ids \in Seq(Nat)
    BY <1>4 DEF Registered
  <2>3. active_query' \in Nat \cup {NoId}
    BY <1>2, <1>6
  <2>4. call' = [ count |-> call'.count, kind |-> call'.kind, asks |-> call'.asks,
                  at |-> call'.at, ids |-> call'.ids, got |-> call'.got,
                  since |-> call'.since, fresh |-> call'.fresh ]
    BY <1>2
  <2>5. \/ call'.kind = "query" /\ call'.ids = <<active_query'>>
        \/ call'.kind = "probe" /\ active_query' = NoId
    BY <1>2, <1>6, <2>1
  <2> QED  BY <2>1, <2>2, <2>3, <2>4, <2>5 DEF Calling
<1>8. Tracked(slots', next_id', leftover')
  BY <1>2, <1>4 DEF Registered, Tracked
<1>9. Owned(slots', leftover', active_query', call')
  <2>1. DOMAIN slots' \subseteq leftover \cup ToSet(reg.ids)
    BY <1>2, <1>4 DEF Registered
  <2>2. call'.ids = reg.ids /\ call'.at = IF written THEN "poll" ELSE "idle"
    BY <1>2
  <2>3. CASE kind = "query"
    <3>1. ToSet(reg.ids) = {active_query'}
      BY <1>6, <2>3 DEF ToSet
    <3> QED  BY <1>2, <2>1, <2>3, <3>1 DEF Owned
  <2>4. CASE kind = "probe"
    BY <1>2, <2>1, <2>2, <2>4 DEF Owned
  <2> QED  BY <2>3, <2>4
<1> QED  BY <1>3, <1>5, <1>7, <1>8, <1>9 DEF IInv

LEMMA AsksAreExpectations ==
  /\ \A e \in Query : <<e>> \in Seq(Expectation)
  /\ Bundle \in Seq(Expectation)
  /\ \A i, j \in 1 .. Len(Bundle) : Bundle[i] = Bundle[j] => i = j
<1>1. /\ ToSet(Bundle) = ToSet(Optional) \cup {Fence}
      /\ Bundle \in Seq(ToSet(Optional) \cup {Fence})
  <2>1. Optional \in Seq(ToSet(Optional) \cup {Fence})
    BY SyncAssumption, SeqMonotonic
  <2>2. /\ Append(Optional, Fence) \in Seq(ToSet(Optional) \cup {Fence})
        /\ ToSet(Append(Optional, Fence)) = ToSet(Optional) \cup {Fence}
    BY <2>1, ListsGrow
  <2> QED  BY <2>2 DEF Bundle
<1>2. Bundle \in Seq(Expectation)
  BY <1>1, SeqMonotonic DEF Expectation
<1>3. \A e \in Query : <<e>> \in Seq(Expectation)
  BY DEF Expectation
<1>4. ASSUME NEW i \in 1 .. Len(Bundle), NEW j \in 1 .. Len(Bundle), Bundle[i] = Bundle[j]
      PROVE  i = j
  <2>1. /\ Len(Bundle) = Len(Optional) + 1
        /\ \A k \in 1 .. Len(Optional) : Bundle[k] = Optional[k]
        /\ Bundle[Len(Optional) + 1] = Fence
    BY SyncAssumption, AppendProperties DEF Bundle
  <2>2. Len(Optional) \in Nat /\ DOMAIN Optional = 1 .. Len(Optional)
    BY SyncAssumption, LenProperties
  <2>3. \A k \in 1 .. Len(Optional) : Optional[k] # Fence
    BY <2>2, SyncAssumption DEF ToSet
  <2>4. \A k, l \in 1 .. Len(Optional) : Optional[k] = Optional[l] => k = l
    BY <2>2, SyncAssumption
  <2> QED  BY <1>4, <2>1, <2>2, <2>3, <2>4
<1> QED  BY <1>2, <1>3, <1>4

LEMMA StartPreservesIInv == ASSUME IInv, StartQuery \/ StartProbe PROVE IInv'
<1>1. CASE StartQuery
  <2>1. PICK e \in Query : Ask("query", <<e>>)
    BY <1>1 DEF StartQuery
  <2>2. /\ <<e>> \in Seq(Expectation) /\ Len(<<e>>) = 1
        /\ \A i, j \in 1 .. Len(<<e>>) : <<e>>[i] = <<e>>[j] => i = j
    BY AsksAreExpectations
  <2>3. PICK asks : asks = <<e>>
    OBVIOUS
  <2> QED  BY <2>1, <2>2, <2>3, AskPreservesIInv
<1>2. CASE StartProbe
  BY <1>2, AsksAreExpectations, AskPreservesIInv DEF StartProbe
<1> QED  BY <1>1, <1>2

LEMMA ReadAndMatchPreservesIInv == ASSUME IInv, ReadAndMatch PROVE IInv'
<1>1. PICK upto \in read + 1 .. Len(log) :
        \E r \in {read_and_match(ToSet(call.ids), [i \in 1 .. upto - read |-> read + i])} :
          LET done == IF call.kind = "query" THEN r.replies # <<>>
                      ELSE \E reply \in ToSet(r.replies) : reply[1] = Last(call.ids)
          IN /\ read' = upto
             /\ decoder' = r.decoder /\ decoder_carry' = r.unattributed
             /\ typeahead' = r.typeahead
             /\ slots' = IF done /\ call.kind = "probe"
                          THEN resolve_all(r.slots, call.ids) ELSE r.slots
             /\ active_query' = IF done THEN NoId ELSE active_query
             /\ call' = [call EXCEPT !.got = store_bundle_reply(r.replies),
                                     !.at = IF done THEN "idle" ELSE "poll"]
  BY DEF ReadAndMatch
<1>2. PICK chunk : chunk = [i \in 1 .. upto - read |-> read + i]
  OBVIOUS
<1>3. PICK r : r = read_and_match(ToSet(call.ids), chunk)
  OBVIOUS
<1>4. PICK done \in BOOLEAN :
        /\ done = IF call.kind = "query" THEN r.replies # <<>>
                  ELSE \E reply \in ToSet(r.replies) : reply[1] = Last(call.ids)
        /\ read' = upto /\ decoder' = r.decoder
        /\ slots' = IF done /\ call.kind = "probe"
                     THEN resolve_all(r.slots, call.ids) ELSE r.slots
        /\ active_query' = IF done THEN NoId ELSE active_query
        /\ call' = [call EXCEPT !.got = store_bundle_reply(r.replies),
                                !.at = IF done THEN "idle" ELSE "poll"]
  BY <1>1, <1>2, <1>3
<1>5. call.at = "poll" /\ UNCHANGED <<next_id, log, asked, leftover>>
  BY DEF ReadAndMatch, blocked, terminal, app
<1>6. /\ call.ids \in Seq(Nat) /\ Listed(call.ids)
      /\ ToSet(call.ids) \in SUBSET Nat
  <2>1. call.ids \in Seq(Nat)
    BY DEF IInv, Calling
  <2> QED  BY <2>1, ElementOfSeq, LenProperties DEF Listed, ToSet
<1>7. Matching(r, ToSet(call.ids), slots, next_id, leftover)
  <2>1. read \in Nat /\ Len(log) \in Nat /\ upto \in Nat /\ upto - read \in Nat
    BY LenProperties DEF IInv, World
  <2>2. chunk \in Seq(Nat) /\ Len(chunk) = upto - read
    BY <1>2, <2>1
  <2>3. ASSUME NEW i \in 1 .. Len(chunk)
        PROVE  log[chunk[i]].byte \in Byte
    <3>1. chunk[i] \in 1 .. Len(log)
      BY <1>2, <2>1, <2>2
    <3>2. log[chunk[i]] \in [byte : Byte, from : Nat, reply : Expectation \cup {NoReply}]
      BY <3>1, ElementOfSeq DEF IInv, World
    <3> QED  BY <3>2
  <2>4. Listed(chunk)
    BY <2>2 DEF Listed
  <2> QED  BY <1>3, <1>6, <2>3, <2>4, ReadMatches DEF IInv
<1>8. World(log, read', asked)
  BY <1>4, LenProperties DEF IInv, World
<1>9. /\ call'.at = (IF done THEN "idle" ELSE "poll") /\ call'.ids = call.ids
      /\ call'.kind = call.kind
      /\ call' = [ count |-> call'.count, kind |-> call'.kind, asks |-> call'.asks,
                   at |-> call'.at, ids |-> call'.ids, got |-> call'.got,
                   since |-> call'.since, fresh |-> call'.fresh ]
  BY <1>4 DEF IInv, Calling
<1>10. Calling(call', active_query')
  BY <1>4, <1>5, <1>9 DEF IInv, Calling
<1>11. Fewer(r.slots, slots, next_id, leftover)
  BY <1>7 DEF Matching, Offered
<1>12. /\ Tracked(slots', next_id, leftover)
       /\ Owned(slots', leftover, active_query', call')
  <2>1. CASE ~ done
    <3>1. slots' = r.slots /\ active_query' = active_query /\ call'.at = "poll"
      BY <1>4, <1>9, <2>1
    <3> QED  BY <1>5, <1>9, <1>11, <3>1 DEF Fewer, IInv, Owned
  <2>2. CASE done /\ call.kind = "probe"
    <3>1. slots' = resolve_all(r.slots, call.ids) /\ active_query = NoId
      BY <1>4, <1>5, <2>2 DEF IInv, Calling
    <3>2. /\ Fewer(slots', r.slots, next_id, leftover)
          /\ DOMAIN slots' \cap ToSet(call.ids) \subseteq leftover
      BY <1>6, <1>11, <3>1, ResolveAllLeavesFewer DEF Fewer
    <3>3. DOMAIN slots' \subseteq leftover \cup {NoId} \cup ToSet(call.ids)
      BY <1>5, <1>11, <3>1, <3>2 DEF Fewer, IInv, Owned
    <3>4. DOMAIN slots' \subseteq leftover
      BY <3>2, <3>3, SyncAssumption DEF Fewer, Tracked
    <3> QED  BY <3>2, <3>4 DEF Fewer, Owned
  <2>3. CASE done /\ call.kind = "query"
    <3>1. slots' = r.slots /\ r.replies # <<>> /\ call.ids = <<active_query>>
      BY <1>4, <1>5, <2>3 DEF IInv, Calling
    <3>2. 1 \in DOMAIN r.replies
      <4>1. Listed(r.replies)
        BY <1>7 DEF Matching, Offered
      <4>2. PICK S : r.replies \in Seq(S)
        BY <4>1 DEF Listed
      <4> QED  BY <3>1, <4>2, EmptySeq, LenProperties
    <3>3. ToSet(call.ids) = {active_query}
      BY <3>1 DEF ToSet
    <3>4. active_query \notin DOMAIN r.slots \/ active_query \in leftover
      BY <1>7, <3>2, <3>3 DEF Matching, Offered
    <3>5. DOMAIN r.slots \subseteq leftover \cup {active_query}
      BY <1>11, <3>3 DEF Fewer, IInv, Owned
    <3> QED  BY <1>11, <3>1, <3>4, <3>5 DEF Fewer, Owned
  <2> QED  BY <1>5, <2>1, <2>2, <2>3 DEF IInv, Calling
<1>13. DecoderOK(decoder')
  BY <1>4, <1>7 DEF Matching
<1> QED  BY <1>5, <1>8, <1>10, <1>12, <1>13 DEF IInv

LEMMA ReadInputPreservesIInv == ASSUME IInv, read_input PROVE IInv'
<1>1. UNCHANGED <<decoder, slots, next_id, active_query, call, log, asked, leftover>>
  BY DEF read_input, terminal
<1>2. read' = read \/ read' \in read + 1 .. Len(log)
  BY DEF read_input
<1>3. World(log, read', asked)
  BY <1>2, LenProperties DEF IInv, World
<1> QED  BY <1>1, <1>3 DEF IInv

\* The terminal touches nothing of the session.
LEMMA SentIsWorld ==
  ASSUME IInv, NEW bytes \in Seq(Byte), NEW reply \in Expectation \cup {NoReply},
         Send(bytes, reply)
  PROVE  \A a \in Seq(Expectation) : World(log', read, a)
<1> DEFINE Part == [byte : Byte, from : Nat, reply : Expectation \cup {NoReply}]
           parts == [ i \in DOMAIN bytes |->
                        [byte |-> bytes[i], from |-> Len(log) + 1, reply |-> reply] ]
<1>1. log \in Seq(Part) /\ Len(log) \in Nat /\ read \in 0 .. Len(log)
  BY LenProperties DEF IInv, World
<1>2. parts \in Seq(Part)
  <2>1. DOMAIN bytes = 1 .. Len(bytes) /\ Len(bytes) \in Nat
    BY LenProperties
  <2>2. \A i \in 1 .. Len(bytes) : bytes[i] \in Byte
    BY ElementOfSeq
  <2>3. \A i \in 1 .. Len(bytes) :
          [byte |-> bytes[i], from |-> Len(log) + 1, reply |-> reply] \in Part
    BY <1>1, <2>2
  <2>4. parts = [ i \in 1 .. Len(bytes) |->
                    [byte |-> bytes[i], from |-> Len(log) + 1, reply |-> reply] ]
    BY <2>1
  <2> HIDE DEF Part, parts
  <2> QED  BY <2>1, <2>3, <2>4
<1>3. log' = log \o parts
  BY DEF Send
<1> HIDE DEF Part, parts
<1>4. log' \in Seq(Part) /\ Len(log') = Len(log) + Len(parts) /\ Len(parts) \in Nat
  BY <1>1, <1>2, <1>3, ConcatProperties, LenProperties
<1> QED  BY <1>1, <1>4 DEF World, Part

LEMMA TerminalPreservesIInv == ASSUME IInv, Answer \/ Ignore \/ TypeKey PROVE IInv'
<1>1. UNCHANGED <<decoder, slots, next_id, active_query, call, read, leftover>>
  BY DEF Answer, Ignore, TypeKey, session, app
<1>2. World(log', read, asked')
  <2>1. CASE Answer
    <3>1. /\ asked # <<>> /\ asked \in Seq(Expectation) /\ asked' = Tail(asked)
          /\ Send(reply_of[Head(asked)], Head(asked))
      BY <2>1 DEF Answer, IInv, World
    <3>2. Head(asked) \in Expectation /\ Tail(asked) \in Seq(Expectation)
      BY <3>1, HeadTailProperties
    <3>3. reply_of[Head(asked)] \in Seq(Byte)
      BY <3>2, SyncAssumption
    <3> QED  BY <3>1, <3>2, <3>3, SentIsWorld
  <2>2. CASE Ignore
    <3>1. asked # <<>> /\ asked \in Seq(Expectation) /\ asked' = Tail(asked) /\ log' = log
      BY <2>2 DEF Ignore, IInv, World
    <3>2. Tail(asked) \in Seq(Expectation)
      BY <3>1, HeadTailProperties
    <3> QED  BY <3>1, <3>2 DEF IInv, World
  <2>3. CASE TypeKey
    <3>1. PICK bytes \in Typed : Send(bytes, NoReply)
      BY <2>3 DEF TypeKey
    <3>2. bytes \in Seq(Byte)
      BY SyncAssumption
    <3>3. asked' = asked /\ asked \in Seq(Expectation)
      BY <2>3 DEF TypeKey, IInv, World
    <3> QED  BY <3>1, <3>2, <3>3, SentIsWorld
  <2> QED  BY <2>1, <2>2, <2>3
<1> QED  BY <1>1, <1>2 DEF IInv

LEMMA NextPreservesIInv == IInv /\ [Next]_vars => IInv'
<1> SUFFICES ASSUME IInv, [Next]_vars PROVE IInv'
  OBVIOUS
<1>1. CASE StartQuery \/ StartProbe
  BY <1>1, StartPreservesIInv
<1>2. CASE TimeOut \/ Eof
  BY <1>2, GivingUpPreservesIInv DEF TimeOut, Eof
<1>3. CASE ReadFails
  BY <1>3, ReadFailsPreservesIInv
<1>4. CASE ReadAndMatch
  BY <1>4, ReadAndMatchPreservesIInv
<1>5. CASE read_input
  BY <1>5, ReadInputPreservesIInv
<1>6. CASE Answer \/ Ignore \/ TypeKey
  BY <1>6, TerminalPreservesIInv
<1>7. CASE UNCHANGED vars
  BY <1>7 DEF vars, session, terminal, app, IInv
<1> QED  BY <1>1, <1>2, <1>3, <1>4, <1>5, <1>6, <1>7 DEF Next

(***************************************************************************)
(* Whatever the terminal answers and the user types, and whichever call    *)
(* times out or fails, the driver's slots keep their ids, their waiters    *)
(* and their owners, and the decoder its shape.                            *)
(***************************************************************************)
THEOREM InductiveInvariant == Spec => []IInv
<1> QED
  BY InitIInv, NextPreservesIInv, PTL DEF Spec

(***************************************************************************)
(* run_query and probe_capabilities leave no expectation behind but those  *)
(* of a probe whose write or read failed: each other one belongs to the    *)
(* call in flight or is the one the next call sweeps.                      *)
(***************************************************************************)
THEOREM SlotsAlwaysOwned == Spec => []SlotsAreOwned
<1>1. IInv => SlotsAreOwned
  BY OwnedIsTheProperty DEF IInv
<1> QED
  BY <1>1, InductiveInvariant, PTL

=============================================================================
