---------------------------- MODULE SyntaxParser -----------------------------
(***************************************************************************)
(* SyntaxParser of src/src/syntax.rs: the tokenizer that cuts what the     *)
(* terminal sends into tokens, whatever the reads it arrives in, keeping   *)
(* no more than its payload limit of a sequence that has not ended.  The   *)
(* module has no variables: SyntaxTokenizer and TypedInput keep the state. *)
(*                                                                         *)
(* A byte is a representative of its class, named for a member of it.      *)
(* CAN stands for SUB too, APC for PM and SOS, and the parsed parameters   *)
(* of a token, a function of its bytes, are left out.  One turn of the     *)
(* loops of feed, and one byte of a string or a paste, is one step.        *)
(***************************************************************************)
EXTENDS Integers, Sequences

(***************************************************************************)
(* The classes of bytes.  The C1 bytes are UTF-8 continuations as well.    *)
(***************************************************************************)
Param == {"0", "1", "2", "high", "low"}  \* high and low: see SemanticDecoder
Marker == {"?"}
Intermediate == {" "}
Final == {"[", "]", "P", "_", "\\", "~", "m"}
EscapeFinal == Param \cup Marker \cup Final
Printable == EscapeFinal \cup Intermediate
Introducer8 == {"CSI", "DCS", "OSC", "APC"}
C0 == {"BEL", "CR", "LF"}
Control == C0 \cup {"CAN", "ESC"}
Boundary == Control \cup Introducer8 \cup {"ST"}
Continuation == Introducer8 \cup {"ST", "80"}
Byte == Printable \cup Boundary \cup {"80", "C3", "E2", "FF"}

PasteStart == <<"2", "0", "0", "~">>
PasteEnds == { <<"ESC", "[", "2", "0", "1", "~">>, <<"CSI", "2", "0", "1", "~">> }

Take(s, n) == SubSeq(s, 1, n)
Cut(s, n) == SubSeq(s, n + 1, Len(s))

(***************************************************************************)
(* kept is the buffer of Partial and the retained bytes of an accumulator; *)
(* held is the ESC that may begin ST, or the pending match of a paste.     *)
(***************************************************************************)
Ground(limit, rest) ==
  [ limit |-> limit, mode |-> "Ground", kind |-> "none", kept |-> <<>>,
    intro |-> 0, start |-> 0, dropped |-> 0, held |-> <<>>, first |-> FALSE,
    rest |-> rest ]

\* dropped counts bytes lost before the tail, the bytes that ended the token.
Token(type, raw) ==
  [type |-> type, raw |-> raw, dropped |-> 0, tail |-> <<>>, flags |-> {}]

\* What a step does: emit a token, or not, and go on as p.
Outcome(p, emitted) == [parser |-> p, tokens |-> emitted]

Emit(p, token, rest) == Outcome(Ground(p.limit, rest), <<token>>)

Step_Emit(p, type, n) == Emit(p, Token(type, Take(p.rest, n)), Cut(p.rest, n))

\* Mutant: what is buffered stays in the buffer.
buffered_twice(p) ==
  Outcome([p EXCEPT !.mode = "Partial", !.kept = p.rest], <<>>)

NeedMore(p) ==
  Outcome([p EXCEPT !.mode = "Partial", !.kept = p.rest, !.rest = <<>>], <<>>)

-----------------------------------------------------------------------------
(***************************************************************************)
(* Where the run of bytes of a class ends that begins at position from.    *)
(***************************************************************************)
AfterRun(class, s, from) ==
  CHOOSE end \in from .. Len(s) + 1 :
    /\ \A i \in from .. end - 1 : s[i] \in class
    /\ end <= Len(s) => s[end] \notin class

\* Mutant: a prefix that fills the buffer is ended at once.
scan_chunk_prefix(s, from, limit) ==
  LET end == AfterRun(Intermediate, s, AfterRun(Param, s, AfterRun(Marker, s, from)))
  IN IF end - from > limit THEN [ends |-> "Overflow", at |-> from + limit]
     ELSE IF end > Len(s) THEN [ends |-> "Aborted", at |-> end]
     ELSE IF s[end] \in Final THEN [ends |-> "Complete", at |-> end + 1]
     ELSE [ends |-> "Aborted", at |-> IF s[end] = "CAN" THEN end + 1 ELSE end]

\* The position after the prefix, its final byte or the aborting CAN included.
scan_control_prefix(s, from, limit) ==
  LET end == AfterRun(Intermediate, s, AfterRun(Param, s, AfterRun(Marker, s, from)))
  IN IF end - from > limit THEN [ends |-> "Overflow", at |-> from + limit]
     ELSE IF end > Len(s) THEN [ends |-> "NeedMore", at |-> end]
     ELSE IF s[end] \in Final THEN [ends |-> "Complete", at |-> end + 1]
     ELSE [ends |-> "Aborted", at |-> IF s[end] = "CAN" THEN end + 1 ELSE end]

EnterPaste(p, end) ==
  Outcome([p EXCEPT !.mode = "InPaste", !.kept = Take(p.rest, end - 1),
                    !.start = end - 1, !.first = TRUE,
                    !.rest = Cut(p.rest, end - 1)], <<>>)

parse_csi(p, intro) ==
  LET prefix == scan_control_prefix(p.rest, intro + 1, p.limit)
  IN CASE prefix.ends = "NeedMore" -> NeedMore(p)
       [] prefix.ends = "Complete" ->
            IF SubSeq(p.rest, intro + 1, prefix.at - 1) = PasteStart
            THEN EnterPaste(p, prefix.at)
            ELSE Step_Emit(p, "Csi", prefix.at - 1)
       [] OTHER -> Step_Emit(p, "Malformed", prefix.at - 1)

\* Mutant: the parameters of a DCS are taken for a part of the introducer.
enter_past_prefix(p, kind, intro, end) ==
  Outcome([p EXCEPT !.mode = "InString", !.kind = kind, !.intro = end - 1,
                    !.kept = Take(p.rest, end - 1), !.start = end - 1,
                    !.rest = Cut(p.rest, end - 1)], <<>>)

EnterString(p, kind, intro, end) ==
  Outcome([p EXCEPT !.mode = "InString", !.kind = kind, !.intro = intro,
                    !.kept = Take(p.rest, end - 1), !.start = end - 1,
                    !.rest = Cut(p.rest, end - 1)], <<>>)

\* Only a DCS has parameters before its payload.
parse_string(p, kind, intro) ==
  IF kind # "Dcs" THEN EnterString(p, kind, intro, intro + 1)
  ELSE LET prefix == scan_control_prefix(p.rest, intro + 1, p.limit)
       IN CASE prefix.ends = "NeedMore" -> NeedMore(p)
            [] prefix.ends = "Complete" -> EnterString(p, kind, intro, prefix.at)
            [] OTHER -> Step_Emit(p, "Malformed", prefix.at - 1)

parse_plain_escape(p) ==
  LET s == p.rest
      end == AfterRun(Intermediate, s, 2)
  IN IF end - 2 > p.limit THEN Step_Emit(p, "Malformed", 1 + p.limit)
     ELSE IF end > Len(s) THEN NeedMore(p)
     ELSE IF s[end] \in EscapeFinal THEN Step_Emit(p, "Esc", end)
     ELSE Step_Emit(p, "Malformed", IF s[end] = "CAN" THEN end ELSE end - 1)

parse_escape(p) ==
  IF Len(p.rest) = 1 THEN NeedMore(p)
  ELSE CASE p.rest[2] = "[" -> parse_csi(p, 2)
         [] p.rest[2] = "P" -> parse_string(p, "Dcs", 2)
         [] p.rest[2] = "]" -> parse_string(p, "Osc", 2)
         [] p.rest[2] = "_" -> parse_string(p, "Apc", 2)
         [] p.rest[2] = "CAN" -> Step_Emit(p, "Malformed", 2)
         [] OTHER -> parse_plain_escape(p)

(***************************************************************************)
(* Text: s[1..n] is whole UTF-8 characters when each lead byte has its     *)
(* continuations and each continuation its lead byte.                      *)
(***************************************************************************)
utf8_width(b) ==
  CASE b \in Printable -> 1 [] b = "C3" -> 2 [] b = "E2" -> 3 [] OTHER -> 0

from_utf8(s, n) ==
  \A i \in 1 .. n :
    \/ s[i] \in Printable
    \/ /\ utf8_width(s[i]) > 1
       /\ i + utf8_width(s[i]) - 1 <= n
       /\ \A j \in i + 1 .. i + utf8_width(s[i]) - 1 : s[j] \in Continuation
    \/ /\ s[i] \in Continuation
       /\ \E j \in 1 .. i - 1 : j + utf8_width(s[j]) - 1 >= i

\* The text at the start of s, cut after the first character to reach limit.
TextRun(s, limit) ==
  LET run == { n \in 0 .. Len(s) :
                 /\ from_utf8(s, n)
                 /\ \A m \in 1 .. n - 1 : from_utf8(s, m) => m < limit }
  IN CHOOSE n \in run : \A m \in run : m <= n

parse_text(p) ==
  LET s == p.rest
      run == TextRun(s, p.limit)
      width == utf8_width(s[run + 1])
  IN IF run > 0 /\ run >= p.limit THEN Step_Emit(p, "Text", run)
     ELSE IF run = Len(s) THEN NeedMore(p)
     ELSE IF s[run + 1] \in Boundary \/ width = 0
     THEN IF run > 0 THEN Step_Emit(p, "Text", run) ELSE Step_Emit(p, "Malformed", 1)
     ELSE IF run + width > Len(s) THEN NeedMore(p)
     ELSE IF run > 0 THEN Step_Emit(p, "Text", run)
     ELSE Step_Emit(p, "Malformed", width)

step(p) ==
  LET b == Head(p.rest)
  IN CASE b = "ESC" -> parse_escape(p)
       [] b = "CSI" -> parse_csi(p, 1)
       [] b = "DCS" -> parse_string(p, "Dcs", 1)
       [] b = "OSC" -> parse_string(p, "Osc", 1)
       [] b = "APC" -> parse_string(p, "Apc", 1)
       [] b \in {"CAN", "ST"} -> Step_Emit(p, "Malformed", 1)
       [] b \in C0 -> Step_Emit(p, "Control", 1)
       [] OTHER -> parse_text(p)

-----------------------------------------------------------------------------
(***************************************************************************)
(* Inside a string.  Past the limit its bytes are counted and dropped.     *)
(***************************************************************************)
push_payload_byte(p, b) ==
  IF Len(p.kept) - p.intro < p.limit
  THEN [p EXCEPT !.kept = Append(@, b)]
  ELSE [p EXCEPT !.dropped = @ + 1]

string_token(p, terminator) ==
  [ type |-> p.kind, raw |-> p.kept \o terminator, dropped |-> p.dropped,
    tail |-> terminator, flags |-> {} ]

emit_string_token(p, terminator, rest) ==
  Emit(p, string_token(p, terminator), rest)

\* An aborted string is one malformed token, unless it has lost bytes: then
\* it is its own token, and the bytes that aborted it are read again.
abort_string(p, aborting, again) ==
  IF p.dropped = 0
  THEN Emit(p, Token("Malformed", p.kept \o aborting), again)
  ELSE emit_string_token(p, <<>>, aborting \o again)

\* Mutant: the ESC held from an earlier chunk is forgotten.
held_esc_lost(p) == p.rest

held_esc_buffer(p) == p.held \o p.rest

consume_string(p) ==
  LET b == Head(p.rest)
      rest == Tail(p.rest)
  IN IF p.held # <<>>
     THEN CASE b = "\\" -> emit_string_token(p, <<"ESC", "\\">>, rest)
            [] b = "CAN" -> abort_string(p, <<"ESC", "CAN">>, rest)
            [] OTHER -> abort_string(p, <<>>, held_esc_buffer(p))
     ELSE CASE b = "BEL" /\ p.kind = "Osc" -> emit_string_token(p, <<"BEL">>, rest)
            [] b = "ST" -> emit_string_token(p, <<"ST">>, rest)
            [] b = "ESC" -> Outcome([p EXCEPT !.held = <<"ESC">>, !.rest = rest], <<>>)
            [] b = "CAN" -> abort_string(p, <<"CAN">>, rest)
            [] OTHER -> Outcome([push_payload_byte(p, b) EXCEPT !.rest = rest], <<>>)

-----------------------------------------------------------------------------
(***************************************************************************)
(* Inside a paste.  The bytes that may begin its end are held; when the    *)
(* candidate breaks, the fewest bytes become payload that leave one again. *)
(***************************************************************************)
is_paste_end_prefix(s) ==
  \E end \in PasteEnds : Len(s) <= Len(end) /\ s = Take(end, Len(s))

\* Mutant: a broken candidate is payload as a whole.
shift_all(candidate) ==
  IF is_paste_end_prefix(candidate) THEN 0 ELSE Len(candidate)

advance_after_break(candidate) ==
  CHOOSE n \in 0 .. Len(candidate) :
    /\ is_paste_end_prefix(Cut(candidate, n))
    /\ \A m \in 0 .. n - 1 : ~ is_paste_end_prefix(Cut(candidate, m))

paste_token(p, raw, tail, flags) ==
  [ type |-> "Paste", raw |-> raw \o tail, dropped |-> 0, tail |-> tail,
    flags |-> flags \cup (IF p.first THEN {"first"} ELSE {}) ]

segment_payload_len(p) == Len(p.kept) - p.start

\* Mutant: a segment is cut only when no end may have begun.
emit_segment_unheld(p) ==
  IF segment_payload_len(p) >= p.limit /\ p.held = <<>>
  THEN Outcome([p EXCEPT !.kept = <<>>, !.start = 0, !.first = FALSE],
               <<paste_token(p, p.kept, <<>>, {})>>)
  ELSE Outcome(p, <<>>)

emit_segment(p) ==
  IF segment_payload_len(p) >= p.limit
  THEN Outcome([p EXCEPT !.kept = <<>>, !.start = 0, !.first = FALSE],
               <<paste_token(p, p.kept, <<>>, {})>>)
  ELSE Outcome(p, <<>>)

consume_paste(p) ==
  LET candidate == Append(p.held, Head(p.rest))
      rest == Tail(p.rest)
      n == advance_after_break(candidate)
  IN IF candidate \in PasteEnds
     THEN Emit(p, paste_token(p, p.kept, candidate, {"final", "terminated"}), rest)
     ELSE emit_segment([p EXCEPT !.kept = @ \o Take(candidate, n),
                                 !.held = Cut(candidate, n), !.rest = rest])

-----------------------------------------------------------------------------
\* One turn of the loops of feed.
Turn(p) ==
  CASE p.mode = "InString" -> consume_string(p)
    [] p.mode = "InPaste" -> consume_paste(p)
    [] OTHER -> step(p)

fed_with(p, chunk) ==
  IF p.mode = "Partial" THEN Ground(p.limit, p.kept \o chunk)
  ELSE [p EXCEPT !.rest = chunk]

\* A fold from the left that evaluates each intermediate result once, which
\* TLC does not do of a LET or an argument when it checks liveness.
Fold(f(_, _), base, s) ==
  LET run[n \in 0 .. Len(s)] ==
        IF n = 0 THEN base
        ELSE CHOOSE result \in { f(acc, s[n]) : acc \in {run[n - 1]} } : TRUE
  IN run[Len(s)]

\* One turn more, or none when the chunk is read.
another_turn(o) ==
  IF o.parser.rest = <<>> THEN o
  ELSE CHOOSE next \in { Outcome(turn.parser, o.tokens \o turn.tokens) :
                           turn \in {Turn(o.parser)} } : TRUE

\* A whole call of feed: turn after turn until the chunk is read.
Drained(p) ==
  LET after[i \in 0 .. 3 * Len(p.rest)] ==
        IF i = 0 THEN Outcome(p, <<>>)
        ELSE CHOOSE o \in { another_turn(before) : before \in {after[i - 1]} } : TRUE
  IN  after[3 * Len(p.rest)]

finish_pending(p) ==
  LET s == p.kept
  IN IF s[1] \notin Boundary
     THEN Token(IF from_utf8(s, Len(s)) THEN "Text" ELSE "Malformed", s)
     ELSE Token(IF s[1] = "ESC" /\ \A i \in 2 .. Len(s) : s[i] \in Intermediate
                THEN "Esc" ELSE "Malformed", s)

flushed(p) ==
  CASE p.mode = "Ground" -> Outcome(p, <<>>)
    [] p.mode = "Partial" -> Emit(p, finish_pending(p), <<>>)
    [] p.mode = "InString" ->
         emit_string_token(IF p.held = <<>> THEN p ELSE push_payload_byte(p, "ESC"),
                           <<>>, <<>>)
    [] p.mode = "InPaste" ->
         Emit(p, paste_token(p, p.kept \o p.held, <<>>, {"final"}), <<>>)

Mode == {"Ground", "Partial", "InString", "InPaste"}
TokenType == { "Text", "Control", "Csi", "Esc", "Malformed", "Osc", "Dcs", "Apc", "Paste" }

Tokens ==
  [ type : TokenType, raw : Seq(Byte), dropped : Nat, tail : Seq(Byte),
    flags : SUBSET {"first", "final", "terminated"} ]

(***************************************************************************)
(* Between two calls the parser holds at most the limit of bytes and a     *)
(* small constant, however the input goes on: the introducer and at most   *)
(* the limit of a prefix or of text, with a character begun; a string's    *)
(* introducer, the limit and the final byte of a DCS prefix; a segment of  *)
(* less than the limit with a bracket before and after it.                 *)
(***************************************************************************)
AtLeastOne(n) == IF n = 0 THEN 1 ELSE n

Bounded(p) ==
  LET least == AtLeastOne(p.limit)
  IN CASE p.mode = "Ground" -> p.kept = <<>> /\ p.held = <<>>
       [] p.mode = "Partial" -> Len(p.kept) <= 2 + least
       [] p.mode = "InString" ->
            Len(p.kept) <= p.intro + p.limit + 1 /\ Len(p.held) <= 1
       [] p.mode = "InPaste" ->
            segment_payload_len(p) < least /\ p.start <= 6 /\ Len(p.held) <= 5

=============================================================================
