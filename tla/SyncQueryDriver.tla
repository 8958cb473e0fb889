--------------------------- MODULE SyncQueryDriver ---------------------------
(***************************************************************************)
(* The blocking queries of TerminalSession (src/src/session.rs): run_query *)
(* for one typed request, probe_capabilities for the DA1-fenced bundle,    *)
(* and read_input, which hands the application the raw bytes the queries   *)
(* read and did not want before it reads the device again.                 *)
(*                                                                         *)
(* A read is decoded a byte at a time, so that each event, and with it the *)
(* span of raw bytes that made it, is known: the span of an awaited reply  *)
(* is dropped, every other span is typeahead.  The bytes of a sequence     *)
(* that has not ended are carried to the next read.                        *)
(*                                                                         *)
(* The terminal is the environment: what it sends, answers and typed       *)
(* bytes, is one log, and a byte is known by its position in the log.      *)
(***************************************************************************)
EXTENDS SemanticDecoder

CONSTANTS
  Limit,      \* the decoder's payload limit
  Query,      \* expectations a single query may ask for
  Optional,   \* the expectations of the probe bundle before its fence, in order
  Fence,      \* Expectation::PrimaryDeviceAttributes
  reply_of,   \* the bytes with which a terminal answers each expectation
  Typed,      \* what the user's keys send: sequences of bytes
  NoReply, NoId,
  MaxTyped,   \* bound: keys typed
  MaxCalls    \* bound: queries and probes

Bundle == Append(Optional, Fence)
Expectation == Query \cup ToSet(Bundle)

\* A reply that no typed decoder takes reaches the correlator as syntax.
ReplyEvent == { event("Syntax", reply_of[e], {}) : e \in Expectation }
Matches == { <<e, event("Syntax", reply_of[e], {})>> : e \in Expectation }

ASSUME SyncAssumption ==
  /\ Limit \in Nat /\ MaxTyped \in Nat /\ MaxCalls \in Nat
  /\ reply_of \in [Expectation -> Seq(Byte)]
  /\ Typed \subseteq Seq(Byte) \ {<<>>}
  /\ Optional \in Seq(ToSet(Optional)) /\ Fence \notin ToSet(Optional)
  /\ \A i, j \in DOMAIN Optional : Optional[i] = Optional[j] => i = j
  /\ NoReply \notin ReplyEvent /\ NoId \notin Nat

C == INSTANCE CorrelatorState WITH Event <- ReplyEvent

VARIABLES
  decoder, decoder_carry,  \* QueryState: bytes fed that completed no event yet
  slots, next_id,          \* QueryState::correlator
  typeahead,               \* QueryState: bytes for read_input
  active_query,            \* id of the single query in flight, or NoId
  call,                    \* the query or probe that blocks, or the last one
  asked,                   \* requests the terminal has received and not answered
  log, read,               \* all bytes the terminal sent, and how many were read
  delivered,               \* history: what read_input has returned
  overtaken,               \* history: read_input has read past a carried byte
  leftover                 \* history: ids a failed probe has left registered

session  == <<decoder, decoder_carry, slots, next_id, typeahead, active_query, call>>
terminal == <<asked, log>>
app      == <<delivered, overtaken, leftover>>
vars     == <<session, terminal, read, app>>

blocked == call.at = "poll"
Idle(c) == [c EXCEPT !.at = "idle"]

typed == { log[n].from : n \in { m \in DOMAIN log : log[m].reply = NoReply } }

Init ==
  /\ decoder = new(Limit) /\ decoder_carry = <<>>
  /\ slots = [i \in {} |-> NoReply] /\ next_id = 0
  /\ typeahead = <<>>
  /\ active_query = NoId
  /\ call = [count |-> 0, kind |-> "none", asks |-> <<>>, at |-> "idle", ids |-> <<>>, got |-> <<>>, since |-> 0, fresh |-> 0]
  /\ asked = <<>>
  /\ log = <<>> /\ read = 0
  /\ delivered = <<>> /\ overtaken = FALSE /\ leftover = {}

-----------------------------------------------------------------------------
\* Mutant: what an earlier query left behind stays.
sweep_nothing(tracked) == tracked

sweep_active_query(tracked) ==
  IF active_query = NoId THEN tracked ELSE C!resolve(tracked, active_query)

register_next(acc, e) ==
  LET id == C!register_id(acc.slots, acc.next_id, e)
  IN  [ slots   |-> C!register(acc.slots, acc.next_id, e),
        next_id |-> IF id = acc.next_id THEN id + 1 ELSE acc.next_id,
        ids     |-> Append(acc.ids, id) ]

register_all(tracked, expectations) ==
  Fold(register_next, [slots |-> tracked, next_id |-> next_id, ids |-> <<>>], expectations)

resolve_all(tracked, ids) == Fold(C!resolve, tracked, ids)

(***************************************************************************)
(* Sweep, register, write.  When the write or the flush fails the call     *)
(* returns at once, and the terminal has received the request or not.      *)
(***************************************************************************)
Ask(kind, expectations) ==
  /\ ~ blocked
  /\ call.count < MaxCalls
  /\ LET reg == register_all(sweep_active_query(slots), expectations)
     IN \E written, received \in BOOLEAN :
          /\ written => received
          /\ slots' = reg.slots /\ next_id' = reg.next_id
          /\ active_query' = IF kind = "query" THEN reg.ids[1] ELSE NoId
          /\ call' = [ count |-> call.count + 1, kind |-> kind, asks |-> expectations, at |-> IF written THEN "poll" ELSE "idle",
                       ids |-> reg.ids, got |-> [i \in DOMAIN reg.ids |-> NoReply],
                       since |-> read, fresh |-> next_id ]
          /\ asked' = IF received THEN asked \o expectations ELSE asked
          /\ leftover' = IF ~ written /\ kind = "probe"
                         THEN leftover \cup ToSet(reg.ids) ELSE leftover
  /\ UNCHANGED <<decoder, decoder_carry, typeahead, log, read, delivered, overtaken>>

StartQuery == \E e \in Query : Ask("query", <<e>>)

StartProbe == Ask("probe", Bundle)

(***************************************************************************)
(* The budget elapses: everything the call registered resolves as NoReply. *)
(* (The probe has no active query to clear.)                               *)
(***************************************************************************)
TimeOut ==
  /\ blocked
  /\ slots' = resolve_all(slots, call.ids)
  /\ active_query' = NoId
  /\ call' = Idle(call)
  /\ UNCHANGED <<decoder, decoder_carry, next_id, typeahead, terminal, read, app>>

\* poll or read fails: the call returns the error and resolves nothing.
ReadFails ==
  /\ blocked
  /\ call' = Idle(call)
  /\ leftover' = IF call.kind = "probe" THEN leftover \cup ToSet(call.ids) ELSE leftover
  /\ UNCHANGED <<decoder, decoder_carry, slots, next_id, typeahead, active_query,
                 terminal, read, delivered, overtaken>>

Eof ==
  /\ blocked /\ read = Len(log)
  /\ slots' = resolve_all(slots, call.ids)
  /\ active_query' = NoId
  /\ call' = Idle(call)
  /\ UNCHANGED <<decoder, decoder_carry, next_id, typeahead, terminal, read, app>>

-----------------------------------------------------------------------------
(***************************************************************************)
(* attribute_span: acc.unattributed less what the decoder still holds is   *)
(* the span of these events.                                               *)
(***************************************************************************)
\* Mutant: one reply is taken of a read.
attribute_to_first(ids, acc, d, events) ==
  LET n == Max({0, Len(acc.unattributed) - Len(pending_bytes(d))})
      take(got, ev) ==
        LET id == C!feed_id(got.slots, ev)
        IN CASE id \in ids /\ got.replies = <<>> ->
                  [got EXCEPT !.slots = C!take_reply(C!feed(@, ev), id),
                              !.replies = Append(@, <<id, ev>>), !.is_reply = TRUE]
             [] OTHER -> got
      got == Fold(take, [slots |-> acc.slots, replies |-> acc.replies, is_reply |-> FALSE], events)
  IN [ decoder |-> d, unattributed |-> Cut(acc.unattributed, n),
       slots |-> got.slots, replies |-> got.replies,
       typeahead |-> IF got.is_reply THEN acc.typeahead
                     ELSE acc.typeahead \o Take(acc.unattributed, n) ]

offer(ids, got, ev) ==
  LET id == C!feed_id(got.slots, ev)
  IN  IF id \in ids
      THEN [ slots    |-> C!take_reply(C!feed(got.slots, ev), id),
             replies  |-> Append(got.replies, <<id, ev>>),
             is_reply |-> TRUE ]
      ELSE [got EXCEPT !.slots = C!feed(@, ev)]

offer_all(ids, acc, events) ==
  LET next(got, ev) == offer(ids, got, ev)
  IN  Fold(next, [slots |-> acc.slots, replies |-> acc.replies, is_reply |-> FALSE], events)

attribute_span(ids, acc, d, events) ==
  LET n == Max({0, Len(acc.unattributed) - Len(pending_bytes(d))})
      got == offer_all(ids, acc, events)
  IN [ decoder |-> d, unattributed |-> Cut(acc.unattributed, n),
       slots |-> got.slots, replies |-> got.replies,
       typeahead |-> IF got.is_reply THEN acc.typeahead
                     ELSE acc.typeahead \o Take(acc.unattributed, n) ]

\* Mutant: the span of an event takes in what the decoder still holds.
attribute_whole(ids, acc, got) ==
  IF got.events = <<>> THEN [acc EXCEPT !.decoder = got.decoder]
  ELSE [attribute_span(ids, acc, [got.decoder EXCEPT !.parser.kept = <<>>], got.events)
          EXCEPT !.decoder = got.decoder]

\* A byte that ends no event stays unattributed.
attribute(ids, acc, got) ==
  IF got.events = <<>> THEN [acc EXCEPT !.decoder = got.decoder]
  ELSE attribute_span(ids, acc, got.decoder, got.events)

settle(ids, acc) ==
  IF has_settled_text(acc.decoder) THEN attribute(ids, acc, finish(acc.decoder)) ELSE acc

read_byte(ids, acc, n) ==
  attribute(ids, [acc EXCEPT !.unattributed = Append(@, n)], feed(acc.decoder, <<log[n].byte>>))

read_bytes(ids, chunk) ==
  LET next(acc, n) == read_byte(ids, acc, n)
  IN  Fold(next, [ decoder |-> decoder, unattributed |-> decoder_carry,
                   slots |-> slots, replies |-> <<>>, typeahead |-> typeahead ], chunk)

read_and_match(ids, chunk) == settle(ids, read_bytes(ids, chunk))

store_bundle_reply(replies) ==
  [ i \in DOMAIN call.ids |->
      IF \E r \in ToSet(replies) : r[1] = call.ids[i]
      THEN (CHOOSE r \in ToSet(replies) : r[1] = call.ids[i])[2] ELSE call.got[i] ]

ReadAndMatch ==
  /\ blocked
  /\ \E upto \in read + 1 .. Len(log) :
       \E r \in {read_and_match(ToSet(call.ids), [i \in 1 .. upto - read |-> read + i])} :
         LET done == IF call.kind = "query" THEN r.replies # <<>>
                     ELSE \E reply \in ToSet(r.replies) : reply[1] = Last(call.ids)
         IN /\ read' = upto
            /\ decoder' = r.decoder /\ decoder_carry' = r.unattributed
            /\ typeahead' = r.typeahead
            /\ slots' = IF done /\ call.kind = "probe"
                         THEN resolve_all(r.slots, call.ids) ELSE r.slots
            /\ active_query' = IF done THEN NoId ELSE active_query
            /\ call' = [call EXCEPT !.got = store_bundle_reply(r.replies),
                                    !.at = IF done THEN "idle" ELSE "poll"]
  /\ UNCHANGED <<next_id, terminal, app>>

(***************************************************************************)
(* read_input: the typeahead first, and the device only without any.       *)
(***************************************************************************)
read_input ==
  /\ ~ blocked
  /\ \/ /\ typeahead # <<>>
        /\ \E take \in {1, Len(typeahead)} :
             /\ delivered' = delivered \o Take(typeahead, take)
             /\ typeahead' = Cut(typeahead, take)
        /\ UNCHANGED <<read, overtaken>>
     \/ /\ typeahead = <<>>
        /\ \E upto \in read + 1 .. Len(log) :
             /\ delivered' = delivered \o [i \in 1 .. upto - read |-> read + i]
             /\ read' = upto
        /\ overtaken' = (overtaken \/ decoder_carry # <<>>)
        /\ UNCHANGED typeahead
  /\ UNCHANGED <<decoder, decoder_carry, slots, next_id, active_query, call, terminal, leftover>>

-----------------------------------------------------------------------------
\* The terminal.  A byte of its log is part of a key, or of a reply, that
\* begins at position from.
Send(bytes, reply) ==
  log' = log \o [ i \in DOMAIN bytes |->
                    [byte |-> bytes[i], from |-> Len(log) + 1, reply |-> reply] ]

Answer ==
  /\ asked # <<>>
  /\ Send(reply_of[Head(asked)], Head(asked))
  /\ asked' = Tail(asked)
  /\ UNCHANGED <<session, read, app>>

Ignore ==
  /\ asked # <<>>
  /\ asked' = Tail(asked)
  /\ UNCHANGED <<session, log, read, app>>

TypeKey ==
  /\ Cardinality(typed) < MaxTyped
  /\ \E bytes \in Typed : Send(bytes, NoReply)
  /\ UNCHANGED <<session, asked, read, app>>

Next ==
  \/ StartQuery \/ StartProbe
  \/ TimeOut \/ ReadFails \/ Eof \/ ReadAndMatch
  \/ read_input
  \/ Answer \/ Ignore \/ TypeKey

Spec == Init /\ [][Next]_vars

-----------------------------------------------------------------------------
(***************************************************************************)
(* Typeahead survives: what read_input returned, will return and the       *)
(* device still has are the terminal's bytes in order, byte for byte,      *)
(* however reads cut them, but for whole replies.                          *)
(* Claimed until read_input has read the device past a carried byte, which *)
(* it does not return.                                                     *)
(***************************************************************************)
on_its_way == delivered \o typeahead \o decoder_carry
                \o [i \in 1 .. Len(log) - read |-> read + i]

InOrderButForReplies(positions) ==
  /\ \A i \in 2 .. Len(positions) : positions[i - 1] < positions[i]
  /\ \A n \in DOMAIN log \ ToSet(positions) :
       /\ log[n].reply # NoReply
       /\ \A i \in DOMAIN positions : log[positions[i]].from # log[n].from

TypeaheadSurvives == overtaken \/ InOrderButForReplies(on_its_way)

(***************************************************************************)
(* What a call waits for it takes: while a reply is missing, none that it  *)
(* read whole has become typeahead, also behind the fence in the same read *)
(* and in one span with other events.  Not claimed where the call joined   *)
(* the slot of a failed probe, which may be completed already (README),    *)
(* nor once read_input has overtaken what the decoder holds.               *)
(***************************************************************************)
RepliesAreTaken ==
  \A i \in DOMAIN call.ids :
    ~ overtaken /\ call.got[i] = NoReply /\ call.ids[i] >= call.fresh =>
      \A n \in DOMAIN log :
        log[n].from = n /\ n > call.since /\ log[n].reply = call.asks[i]
        => \E m \in DOMAIN log : log[m].from = n /\ m \notin ToSet(typeahead)

(***************************************************************************)
(* Every tracked expectation has an owner that will resolve it: the call   *)
(* in flight, the field the next call sweeps, or else a probe that failed. *)
(***************************************************************************)
SlotsAreOwned ==
  DOMAIN slots \subseteq
    leftover \cup {active_query} \cup (IF blocked THEN ToSet(call.ids) ELSE {})

=============================================================================
