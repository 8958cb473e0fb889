--------------------------- MODULE SemanticDecoder ---------------------------
(***************************************************************************)
(* SemanticDecoder of src/src/event.rs: the typed events of the tokens a   *)
(* SyntaxParser cuts, and what decides when a driver may end a token that  *)
(* is pending.                                                             *)
(*                                                                         *)
(* Besides its parser the decoder remembers two things from one token to   *)
(* the next: that a segment of a paste ended in a CR, and the first half   *)
(* of a UTF-16 pair that win32-input sends as two keys.  In a win32 key,   *)
(* high and low stand for the fields that carry such a half.  An event     *)
(* keeps what names it: the bytes of a character or of a key, the text of  *)
(* a paste, the bytes of what stays syntax.                                *)
(***************************************************************************)
EXTENDS SyntaxParser, SequencesExt

event(kind, data, flags) == [kind |-> kind, data |-> data, flags |-> flags]
Key(data) == event("Key", data, {})
Syntax(token) == event("Syntax", token.raw, {})

replacement_event == Key(<<"U+FFFD">>)

new(limit) ==
  [parser |-> Ground(limit, <<>>), paste_pending_cr |-> FALSE, high_surrogate |-> FALSE]

\* What a call returns: the decoder after it and the events.
Decoded(d, events) == [decoder |-> d, events |-> events]

-----------------------------------------------------------------------------
\* One key for each character of a text.
push_text_events(text) ==
  LET starts == { i \in DOMAIN text : utf8_width(text[i]) > 0 }
  IN [ n \in 1 .. Cardinality(starts) |->
         LET i == CHOOSE i \in starts : Cardinality({ j \in starts : j <= i }) = n
         IN Key(SubSeq(text, i, i + utf8_width(text[i]) - 1)) ]

(***************************************************************************)
(* A paste segment: CRLF and CR become LF, also across segments.           *)
(***************************************************************************)
\* Mutant: the carry is dropped between segments.
decode_without_carry(payload, flags, pending_cr) ==
  LET next(acc, b) ==
        IF acc.cr /\ b = "LF" THEN [acc EXCEPT !.cr = FALSE]
        ELSE [out |-> Append(acc.out, IF b = "CR" THEN "LF" ELSE b), cr |-> b = "CR"]
      text == Fold(next, [out |-> <<>>, cr |-> FALSE], payload)
  IN [event |-> event("Paste", text.out, flags), carry |-> FALSE]

decode(payload, flags, pending_cr) ==
  LET next(acc, b) ==
        IF acc.cr /\ b = "LF" THEN [acc EXCEPT !.cr = FALSE]
        ELSE [out |-> Append(acc.out, IF b = "CR" THEN "LF" ELSE b), cr |-> b = "CR"]
      text == Fold(next, [out |-> <<>>, cr |-> pending_cr], payload)
  IN [event |-> event("Paste", text.out, flags), carry |-> text.cr /\ "final" \notin flags]

\* The payload of a segment: its raw bytes without the brackets.
payload(token) ==
  Cut(Take(token.raw, Len(token.raw) - Len(token.tail)),
      IF "first" \notin token.flags THEN 0
      ELSE Len(PasteStart) + (IF token.raw[1] = "ESC" THEN 2 ELSE 1))

(***************************************************************************)
(* A control sequence by its parameters and its final byte.                *)
(***************************************************************************)
Sequence(token) == Cut(token.raw, IF token.raw[1] = "ESC" THEN 2 ELSE 1)

is_win32_key(s) == Last(s) = "_" /\ \A i \in 1 .. Len(s) - 1 : s[i] \in Param

\* The orphaned half, if there is one, and no more: what follows is decoded
\* on its own.
orphan(d) == IF d.high_surrogate THEN <<replacement_event>> ELSE <<>>

\* The other win32 keys of the model name no key.
decode_fields(d, s) ==
  CASE s[1] = "high" -> Decoded([d EXCEPT !.high_surrogate = TRUE], orphan(d))
    [] s[1] = "low"  -> Decoded([d EXCEPT !.high_surrogate = FALSE],
                                IF d.high_surrogate THEN <<Key(<<"high", "low">>)>>
                                ELSE <<replacement_event>>)
    [] OTHER         -> Decoded([d EXCEPT !.high_surrogate = FALSE], orphan(d))

\* The numbers of legacy_tilde_key that the digits of the model can write.
is_tilde_key(s) ==
  s \in { <<"~">>, <<"1", "~">>, <<"2", "~">>, <<"1", "1", "~">>, <<"1", "2", "~">>,
          <<"2", "0", "~">>, <<"2", "1", "~">> }

is_function_key(s) == s \in { <<"P">>, <<"1", "P">> }

map_csi(d, token) ==
  LET s == Sequence(token)
  IN IF is_win32_key(s) THEN decode_fields(d, s)
     ELSE Decoded(d, IF is_tilde_key(s) \/ is_function_key(s)
                     THEN <<Key(IF Len(s) = 1 THEN <<"1">> \o s ELSE s)>>
                     ELSE <<Syntax(token)>>)

escape_event(token) ==
  IF Last(token.raw) \in EscapeFinal THEN Syntax(token) ELSE Key(<<"ESC">>)

map_token(d, token) ==
  CASE token.type = "Text"    -> Decoded(d, push_text_events(token.raw))
    [] token.type = "Control" -> Decoded(d, <<Key(token.raw)>>)
    [] token.type = "Csi"     -> map_csi(d, token)
    [] token.type = "Paste"   ->
         LET paste == decode(payload(token), token.flags, d.paste_pending_cr)
         IN Decoded([d EXCEPT !.paste_pending_cr = paste.carry], <<paste.event>>)
    [] token.type = "Esc"     -> Decoded(d, <<escape_event(token)>>)
    [] OTHER                  -> Decoded(d, <<Syntax(token)>>)

\* The events of another call behind those there are.
Joined(events, more) == Decoded(more.decoder, events \o more.events)

map_tokens(d, tokens) ==
  LET next(acc, token) == Joined(acc.events, map_token(acc.decoder, token))
  IN Fold(next, Decoded(d, <<>>), tokens)

-----------------------------------------------------------------------------
\* What the parser returned, decoded.
decoded_by(d, outcome) == map_tokens([d EXCEPT !.parser = outcome.parser], outcome.tokens)

feed(d, bytes) == decoded_by(d, Drained(fed_with(d.parser, bytes)))

and_orphan(ended) ==
  Decoded([ended.decoder EXCEPT !.high_surrogate = FALSE],
          ended.events \o orphan(ended.decoder))

finish(d) == and_orphan(decoded_by(d, flushed(d.parser)))

pending_bytes(d) == d.parser.kept

\* Mutant: a character begun does not count as unsettled.
has_any_text(d) ==
  pending_bytes(d) # <<>> /\ pending_bytes(d)[1] \notin Boundary

\* A control byte is a character of its own here.
has_settled_text(d) ==
  LET s == pending_bytes(d)
      printed == [i \in DOMAIN s |-> IF s[i] \in Control THEN " " ELSE s[i]]
  IN s # <<>> /\ s[1] \notin Control /\ from_utf8(printed, Len(s))

has_pending_lone_escape(d) == pending_bytes(d) = <<"ESC">>

\* Of the events of finish, only the first is returned.
first_event(ended) == Decoded(ended.decoder, Take(ended.events, 1))

flush_pending_escape(d) == first_event(finish(d))

=============================================================================
