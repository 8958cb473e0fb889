------------------------------ MODULE TypedInput ------------------------------
(***************************************************************************)
(* How the bytes a terminal sends become the events next_event returns     *)
(* (src/src/tokio_session.rs): read_events feeds each read to the decoder  *)
(* and, when the read did not fill its buffer, ends a text that is already *)
(* whole; next_event bounds a read by a deadline while a lone ESC is all   *)
(* that is pending, and takes it for the Escape key when the deadline      *)
(* passes first.  A call that is dropped leaves the decoder as it is, and  *)
(* the deadline starts anew with the next call.                            *)
(***************************************************************************)
EXTENDS SemanticDecoder

CONSTANTS
  Limits,   \* payload limits of the decoder
  Inputs,   \* what the terminal may send: sequences of bytes
  MaxRead,  \* bound: bytes of a read (longer ones are reads that fill the buffer)
  MaxDrops  \* bound: calls of next_event dropped by the application

ASSUME TypedInputAssumption ==
  /\ Limits \subseteq Nat /\ Inputs \subseteq Seq(Byte)
  /\ MaxRead \in Nat \ {0} /\ MaxDrops \in Nat

VARIABLES
  decoder,
  events,      \* all events decoded so far, as next_event returns them in order
  calling,     \* a call of next_event awaits a read
  dropped,     \* calls dropped so far
  input, fed,  \* what the terminal sends, and how many bytes of it were read
  escapes,     \* history: where in the input a lone ESC was taken for the key
  cut_short    \* history: a flush has ended a paste or half of a UTF-16 pair

vars == <<decoder, events, calling, dropped, input, fed, escapes, cut_short>>

Init ==
  /\ \E limit \in Limits : decoder = new(limit)
  /\ events = <<>>
  /\ calling = FALSE
  /\ dropped = 0
  /\ input \in Inputs /\ fed = 0
  /\ escapes = <<>>
  /\ cut_short = FALSE

ends_more_than_text(d) == d.parser.mode = "InPaste" \/ d.high_surrogate

next_event ==
  /\ ~ calling
  /\ calling' = TRUE
  /\ UNCHANGED <<decoder, events, dropped, input, fed, escapes, cut_short>>

DropCall ==
  /\ calling
  /\ dropped < MaxDrops
  /\ calling' = FALSE
  /\ dropped' = dropped + 1
  /\ UNCHANGED <<decoder, events, input, fed, escapes, cut_short>>

\* The flush at a drain boundary.
drained(d) == IF has_settled_text(d) THEN finish(d) ELSE Decoded(d, <<>>)

read_events(bytes, fills_buffer) ==
  \E got \in {feed(decoder, bytes)} :
  \E rest \in {IF fills_buffer THEN Decoded(got.decoder, <<>>) ELSE drained(got.decoder)} :
    /\ decoder' = rest.decoder
    /\ events' = events \o got.events \o rest.events
    /\ calling' = (got.events \o rest.events = <<>>)
    /\ cut_short' = (cut_short \/ /\ ~ fills_buffer /\ has_settled_text(got.decoder)
                                  /\ ends_more_than_text(got.decoder))

ReadBytes ==
  /\ calling
  /\ \E n \in 1 .. Min({MaxRead, Len(input) - fed}), fills_buffer \in BOOLEAN :
       /\ read_events(SubSeq(input, fed + 1, fed + n), fills_buffer)
       /\ fed' = fed + n
  /\ UNCHANGED <<dropped, input, escapes>>

\* Mutant: a call that is dropped takes the deadline with it for good.
armed_once == has_pending_lone_escape(decoder) /\ dropped = 0

lone_escape_pending == has_pending_lone_escape(decoder)

EscapeDeadline ==
  /\ calling /\ lone_escape_pending
  /\ \E ended \in {flush_pending_escape(decoder)} :
       /\ decoder' = ended.decoder
       /\ events' = events \o ended.events
       /\ calling' = (ended.events = <<>>)
  /\ escapes' = Append(escapes, fed)
  /\ cut_short' = (cut_short \/ ends_more_than_text(decoder))
  /\ UNCHANGED <<dropped, input, fed>>

Next == next_event \/ DropCall \/ ReadBytes \/ EscapeDeadline

Spec == Init /\ [][Next]_vars

(***************************************************************************)
(* The application asks for events for as long as it runs, and the timer   *)
(* of a call it does not drop fires.                                       *)
(***************************************************************************)
FairSpec == Spec /\ WF_vars(next_event) /\ WF_vars(EscapeDeadline)

-----------------------------------------------------------------------------
TypeOK ==
  /\ decoder.parser.mode \in Mode /\ decoder.parser.rest = <<>>
  /\ decoder.paste_pending_cr \in BOOLEAN /\ decoder.high_surrogate \in BOOLEAN
  /\ calling \in BOOLEAN /\ cut_short \in BOOLEAN
  /\ dropped \in 0 .. MaxDrops
  /\ fed \in 0 .. Len(input)
  /\ escapes \in Seq(0 .. fed)

key_taken(got) == Joined(got.events, flush_pending_escape(got.decoder))

through_escapes ==
  LET from(k) == IF k = 1 THEN 1 ELSE escapes[k - 1] + 1
      next(acc, k) ==
        Joined(acc.events, key_taken(feed(acc.decoder, SubSeq(input, from(k), escapes[k]))))
  IN Fold(next, Decoded(new(decoder.parser.limit), <<>>), [k \in DOMAIN escapes |-> k])

since_escape ==
  SubSeq(input, IF escapes = <<>> THEN 1 ELSE Last(escapes) + 1, fed)

mid_character(d) == d.parser.mode = "Partial" /\ pending_bytes(d)[1] \notin Boundary

(***************************************************************************)
(* The events do not depend on how the input was cut into reads, nor on    *)
(* which of them filled the buffer: they are those of one read of what has *)
(* arrived, ended only where a deadline took an ESC for the key.  In the   *)
(* middle of a character the text before it may be held back or not.  All  *)
(* is claimed until a flush has ended a paste or half of a pair (README).  *)
(***************************************************************************)
EventsDoNotDependOnReads ==
  \E ended \in {through_escapes} :
  \E last \in {feed(ended.decoder, since_escape)} :
  \E whole \in {drained(last.decoder)}, ours \in {drained(decoder)} :
    \/ cut_short \/ mid_character(whole.decoder)
    \/ /\ ours.decoder = whole.decoder
       /\ events \o ours.events = ended.events \o last.events \o whole.events

(***************************************************************************)
(* An application that stops dropping its calls gets its Escape key: a     *)
(* lone ESC does not stay pending (or it begins a sequence).               *)
(***************************************************************************)
EscapeIsDelivered == has_pending_lone_escape(decoder) ~> ~ has_pending_lone_escape(decoder)

(***************************************************************************)
(* What is pasted arrives whatever the segments: CRLF, CR and LF each one  *)
(* LF, the last byte of one paste never joined with the first of the next. *)
(***************************************************************************)
lines(raw) ==
  LET second(i) == i > 1 /\ raw[i] = "LF" /\ raw[i - 1] = "CR"
      kept == SelectSeq([i \in DOMAIN raw |-> i], LAMBDA i : ~ second(i))
  IN [n \in DOMAIN kept |-> IF raw[kept[n]] = "CR" THEN "LF" ELSE raw[kept[n]]]

pasted(returned) ==
  FlattenSeq([i \in DOMAIN returned |->
    IF returned[i].kind # "Paste" THEN <<>>
    ELSE returned[i].data \o (IF "final" \in returned[i].flags THEN <<"/">> ELSE <<>>)])

PasteTextIgnoresSegments ==
  fed = Len(input) /\ escapes = <<>> /\ ~ cut_short =>
    \E unsegmented \in {Drained(fed_with(Ground(Len(input) + 1, <<>>), input))} :
    \E pastes \in { SelectSeq(unsegmented.tokens \o flushed(unsegmented.parser).tokens,
                              LAMBDA t : t.type = "Paste") } :
      pasted(events \o finish(decoder).events) =
        FlattenSeq([i \in DOMAIN pastes |-> Append(lines(payload(pastes[i])), "/")])

-----------------------------------------------------------------------------
(***************************************************************************)
(* "A keybinding never fires mid-paste" (event/paste.rs): while the bytes  *)
(* of a paste arrive, what follows its first segment are its segments.     *)
(* The claim is made of pastes larger than the decoder's limit, and it is  *)
(* these that break it: the bytes of a first segment begin with the start  *)
(* bracket, which has_settled_text takes for no text; those of a later one *)
(* do not, and a read that ends behind them ends the paste.                *)
(***************************************************************************)
NoKeyMidPaste ==
  LET whole == feed(new(decoder.parser.limit), Take(input, fed))
      begins(i) == events[i].kind = "Paste" /\ "first" \in events[i].flags
  IN whole.decoder.parser.mode = "InPaste" /\ escapes = <<>> =>
       \A i, j \in DOMAIN events :
         begins(i) /\ i < j /\ (\A k \in i + 1 .. Len(events) : ~ begins(k))
           /\ "terminated" \notin events[i].flags
           => events[j].kind = "Paste"

=============================================================================
