-------------------------- MODULE TokioQueryDriver ---------------------------
(***************************************************************************)
(* The query and event side of TokioTerminalSession                        *)
(* (src/src/tokio_session.rs): single queries, the DA1-fenced capability   *)
(* probe, and next_event, over one correlator and one queue of decoded     *)
(* events that outlive the futures which use them.                         *)
(*                                                                         *)
(* A call runs between two awaits in one step.  It awaits twice: in the    *)
(* write of its request and in each read.  At either point its future may  *)
(* be dropped, and all that survives is what the session's fields hold.    *)
(*                                                                         *)
(* The terminal is the environment.  It answers requests in order, late    *)
(* or never, and its answers, typed keys and resize reports reach the      *)
(* session in the order they were put on the wire, in batches of any size. *)
(* A reply is numbered with the id of the expectation it was asked for,    *)
(* which the session itself cannot see.                                    *)
(***************************************************************************)
EXTENDS Naturals, FiniteSets, SequencesExt

CONSTANTS
  Query,      \* expectations a single query may ask for
  Optional,   \* the expectations of the probe bundle before its fence, in order
  Fence,      \* Expectation::PrimaryDeviceAttributes
  NoReply, NoId,
  MaxKeys,    \* bound: keys typed
  MaxResizes, \* bound: in-band resize reports
  MaxInput,   \* bound: keys and resize reports together
  MaxIds,     \* bound: expectations registered
  MaxWire     \* bound: events on the wire, not yet read

Expectation == Query \cup ToSet(Optional) \cup {Fence}

Key    == [kind : {"key"}, n : 1 .. MaxKeys]
Resize == [kind : {"resize"}, n : 1 .. MaxResizes]
Reply  == [kind : {"reply"}, to : Expectation, n : 0 .. MaxIds - 1]
Event  == Key \cup Resize \cup Reply

Matches == {p \in Expectation \X Reply : p[1] = p[2].to}

ASSUME DriverAssumption ==
  /\ Optional \in Seq(ToSet(Optional)) /\ Fence \notin ToSet(Optional)
  /\ \A i, j \in DOMAIN Optional : Optional[i] = Optional[j] => i = j
  /\ NoReply \notin Event /\ NoId \notin Nat
  /\ MaxKeys \in Nat /\ MaxResizes \in Nat /\ MaxInput \in Nat
  /\ MaxIds \in Nat /\ MaxWire \in Nat

INSTANCE CorrelatorState

VARIABLES
  slots, next_id,  \* the session's correlator
  active_query,    \* id of the single query in flight or abandoned, or NoId
  active_probe,    \* ids of the bundle in flight or abandoned
  pending,         \* decoded events not yet delivered
  call,            \* the query or probe in flight, or the last one and its replies
  asked,           \* requests the terminal has received and not answered
  wire,            \* events the terminal has sent and the session has not read
  typed, resized,  \* keys and resizes the terminal has sent so far
  seen_key,        \* number of the last key next_event returned
  seen_size,       \* number of the last resize next_event returned
  gave_up          \* some call has ended without its reply or its fence

session  == <<slots, next_id, active_query, active_probe, pending, call>>
terminal == <<asked, wire, typed, resized>>
app      == <<seen_key, seen_size, gave_up>>
vars     == <<session, terminal, app>>

in_flight == call.at \in {"write", "read"}

-----------------------------------------------------------------------------
(***************************************************************************)
(* probe_bundle_commands / ProbeBundle::register: the fence comes last.    *)
(***************************************************************************)
\* Mutant: the fence is asked before the queries it closes.
fence_first == <<Fence>> \o Optional

Bundle == Append(Optional, Fence)

(***************************************************************************)
(* Registering one expectation after another, and resolving one id after   *)
(* another.  Each loop over a list is the function from how much of the    *)
(* list it has gone through to what it has made of it.                     *)
(***************************************************************************)
register_next(acc, e) ==
  LET id == register_id(acc.slots, acc.next_id, e)
  IN  [ slots   |-> register(acc.slots, acc.next_id, e),
        next_id |-> IF id = acc.next_id THEN id + 1 ELSE acc.next_id,
        ids     |-> Append(acc.ids, id) ]

register_all(tracked, expectations) ==
  LET after[n \in 0 .. Len(expectations)] ==
        IF n = 0 THEN [slots |-> tracked, next_id |-> next_id, ids |-> <<>>]
        ELSE register_next(after[n - 1], expectations[n])
  IN  after[Len(expectations)]

resolve_all(tracked, ids) ==
  LET after[n \in 0 .. Len(ids)] ==
        IF n = 0 THEN tracked ELSE resolve(after[n - 1], ids[n])
  IN  after[Len(ids)]

(***************************************************************************)
(* feed_events_into_query and drain_pending_into_query: feed up to the     *)
(* completion of id, keep what passes through and all that comes after.    *)
(***************************************************************************)
\* Mutant: what is put back is pushed in front of what was put back before.
query_feeds_up_front(acc, id, ev) ==
  IF acc.reply # NoReply \/ feed_id(acc.slots, ev) # id
  THEN [acc EXCEPT !.kept = <<ev>> \o @]
  ELSE [acc EXCEPT !.slots = take_reply(feed(@, ev), id), !.reply = ev]

query_feeds(acc, id, ev) ==
  LET done == feed_id(acc.slots, ev)
  IN  IF acc.reply # NoReply \/ done = NoId
      THEN [acc EXCEPT !.kept = Append(@, ev)]
      ELSE IF done = id
      THEN [acc EXCEPT !.slots = take_reply(feed(@, ev), id), !.reply = ev]
      ELSE [acc EXCEPT !.slots = feed(@, ev)]

feed_into_query(tracked, id, events) ==
  LET after[n \in 0 .. Len(events)] ==
        IF n = 0 THEN [slots |-> tracked, kept |-> <<>>, reply |-> NoReply]
        ELSE query_feeds(after[n - 1], id, events[n])
  IN  after[Len(events)]

(***************************************************************************)
(* feed_batch_into_bundle: feed the whole batch, store each reply of the   *)
(* bundle, and report whether the fence is among them.                     *)
(***************************************************************************)
\* Mutant: the fence acts on the spot (FM-Q7).
feed_into_bundle_up_to_fence(tracked, ids, found, events) ==
  LET step(acc, ev) ==
        LET done == feed_id(acc.slots, ev)
        IN  IF acc.fenced \/ done = NoId
            THEN [acc EXCEPT !.kept = Append(@, ev)]
            ELSE [acc EXCEPT !.slots  = take_reply(feed(@, ev), done),
                             !.got    = [i \in DOMAIN @ |-> IF ids[i] = done THEN ev ELSE @[i]],
                             !.fenced = (ev.to = Fence)]
  IN  FoldLeft(step, [slots |-> tracked, kept |-> <<>>, got |-> found, fenced |-> FALSE], events)

bundle_feeds(acc, ids, ev) ==
  LET done == feed_id(acc.slots, ev)
  IN  IF done = NoId
      THEN [acc EXCEPT !.kept = Append(@, ev)]
      ELSE [ slots  |-> take_reply(feed(acc.slots, ev), done),
             kept   |-> acc.kept,
             got    |-> [i \in DOMAIN acc.got |-> IF ids[i] = done THEN ev ELSE acc.got[i]],
             fenced |-> acc.fenced \/ \E i \in DOMAIN ids : ids[i] = done /\ Bundle[i] = Fence ]

feed_into_bundle(tracked, ids, found, events) ==
  LET after[n \in 0 .. Len(events)] ==
        IF n = 0 THEN [slots |-> tracked, kept |-> <<>>, got |-> found, fenced |-> FALSE]
        ELSE bundle_feeds(after[n - 1], ids, events[n])
  IN  after[Len(events)]

(***************************************************************************)
(* buffer_events, the next_event path: a completion is dropped.            *)
(***************************************************************************)
next_event_feeds(acc, ev) ==
  IF feed_id(acc.slots, ev) = NoId
  THEN [acc EXCEPT !.kept = Append(@, ev)]
  ELSE [acc EXCEPT !.slots = feed(@, ev)]

buffer_events(tracked, events) ==
  LET after[n \in 0 .. Len(events)] ==
        IF n = 0 THEN [slots |-> tracked, kept |-> <<>>]
        ELSE next_event_feeds(after[n - 1], events[n])
  IN  after[Len(events)]

(***************************************************************************)
(* take_coalesced_event: the position of the event next_event returns; the *)
(* resizes before it are dropped.                                          *)
(***************************************************************************)
is_resize(ev) == ev.kind = "resize"

\* Mutant: a front resize is dropped whenever anything is queued behind it.
take_coalesced_eagerly(queue) ==
  CHOOSE i \in DOMAIN queue :
    /\ is_resize(queue[i]) => i = Len(queue)
    /\ \A j \in 1 .. i - 1 : is_resize(queue[j])

take_coalesced_event(queue) ==
  LET superseded(i) == is_resize(queue[i]) /\ \E j \in i + 1 .. Len(queue) : is_resize(queue[j])
  IN  CHOOSE i \in DOMAIN queue : ~ superseded(i) /\ \A j \in 1 .. i - 1 : superseded(j)

-----------------------------------------------------------------------------
Init ==
  /\ slots = [i \in {} |-> NoReply]
  /\ next_id = 0
  /\ active_query = NoId
  /\ active_probe = <<>>
  /\ pending = <<>>
  /\ call = [kind |-> "none", at |-> "idle", ids |-> <<>>, got |-> <<>>]
  /\ asked = <<>> /\ wire = <<>>
  /\ typed = 0 /\ resized = 0
  /\ seen_key = 0 /\ seen_size = 0
  /\ gave_up = FALSE

(***************************************************************************)
(* The opening of run_query and probe_capabilities_inner, up to the await  *)
(* in the write: sweep both leftovers, register, record the ids.           *)
(***************************************************************************)
sweep_active_query(tracked) ==
  IF active_query = NoId THEN tracked ELSE resolve(tracked, active_query)

\* Mutant: an abandoned bundle is left to the next probe.
sweep_no_probe(tracked) == tracked

sweep_active_probe(tracked) == resolve_all(tracked, active_probe)

swept == sweep_active_probe(sweep_active_query(slots))

StartQuery(e) ==
  /\ ~ in_flight
  /\ next_id < MaxIds
  /\ LET id == register_id(swept, next_id, e)
     IN  /\ slots' = register(swept, next_id, e)
         /\ next_id' = IF id = next_id THEN id + 1 ELSE next_id
         /\ active_query' = id
         /\ call' = [kind |-> "query", at |-> "write", ids |-> <<id>>, got |-> <<NoReply>>]
  /\ active_probe' = <<>>
  /\ UNCHANGED <<pending, terminal, app>>

StartProbe ==
  /\ ~ in_flight
  /\ next_id + Len(Bundle) <= MaxIds
  /\ LET reg == register_all(swept, Bundle)
     IN  /\ slots' = reg.slots
         /\ next_id' = reg.next_id
         /\ active_probe' = reg.ids
         /\ call' = [ kind |-> "probe", at |-> "write", ids |-> reg.ids,
                      got |-> [i \in DOMAIN Bundle |-> NoReply] ]
  /\ active_query' = NoId
  /\ UNCHANGED <<pending, terminal, app>>

-----------------------------------------------------------------------------
(***************************************************************************)
(* What a query and a probe do with a batch of events, read or drained:    *)
(* queue is what pending held before it.                                   *)
(***************************************************************************)
QueryTakes(queue, events) ==
  LET fed == feed_into_query(slots, call.ids[1], events)
  IN  /\ slots' = fed.slots
      /\ pending' = queue \o fed.kept
      /\ call' = [call EXCEPT !.at = IF fed.reply = NoReply THEN "read" ELSE "answered",
                              !.got = <<fed.reply>>]
      /\ active_query' = IF fed.reply = NoReply THEN active_query ELSE NoId
      /\ UNCHANGED <<next_id, active_probe>>

ProbeTakes(queue, events) ==
  LET fed == feed_into_bundle(slots, call.ids, call.got, events)
  IN  /\ slots' = IF fed.fenced THEN resolve_all(fed.slots, call.ids) ELSE fed.slots
      /\ pending' = queue \o fed.kept
      /\ call' = [call EXCEPT !.at = IF fed.fenced THEN "fenced" ELSE "read",
                              !.got = fed.got]
      /\ active_probe' = IF fed.fenced THEN <<>> ELSE active_probe
      /\ UNCHANGED <<next_id, active_query>>

CallTakes(queue, events) ==
  \/ call.kind = "query" /\ QueryTakes(queue, events)
  \/ call.kind = "probe" /\ ProbeTakes(queue, events)

requests == [i \in DOMAIN call.ids |-> [to |-> slots[call.ids[i]].expectation, n |-> call.ids[i]]]

\* The write completes; what was already buffered is drained before any read.
WriteRequest ==
  /\ call.at = "write"
  /\ asked' = asked \o requests
  /\ CallTakes(<<>>, pending)
  /\ UNCHANGED <<wire, typed, resized, app>>

\* The write fails, or the future is dropped in it: part of it may be out.
InterruptWrite(sent) ==
  /\ call.at = "write"
  /\ sent < Len(requests)
  /\ asked' = asked \o SubSeq(requests, 1, sent)
  /\ call' = [call EXCEPT !.at = "dropped"]
  /\ gave_up' = TRUE
  /\ UNCHANGED << slots, next_id, active_query, active_probe, pending,
                  wire, typed, resized, seen_key, seen_size >>

ReadBatch(n) ==
  /\ call.at = "read"
  /\ n \in 1 .. Len(wire)
  /\ CallTakes(pending, SubSeq(wire, 1, n))
  /\ wire' = SubSeq(wire, n + 1, Len(wire))
  /\ UNCHANGED <<asked, typed, resized, app>>

\* Mutant: the deadline is looked at only when no typeahead is buffered.
awaits_read_with_empty_queue == call.at = "read" /\ pending = <<>>

awaits_read == call.at = "read"

\* The deadline, the end of the input, or a read error: the call's own ids
\* are resolved and forgotten.
EndRead(how) ==
  /\ awaits_read
  /\ slots' = resolve_all(slots, call.ids)
  /\ active_query' = NoId
  /\ active_probe' = <<>>
  /\ call' = [call EXCEPT !.at = how]
  /\ gave_up' = TRUE
  /\ UNCHANGED <<next_id, pending, terminal, seen_key, seen_size>>

\* The future is dropped while it awaits a read.
CancelRead ==
  /\ call.at = "read"
  /\ call' = [call EXCEPT !.at = "dropped"]
  /\ gave_up' = TRUE
  /\ UNCHANGED << slots, next_id, active_query, active_probe, pending,
                  terminal, seen_key, seen_size >>

-----------------------------------------------------------------------------
(***************************************************************************)
(* next_event: the queue first, and a read when it is empty.               *)
(***************************************************************************)
TakeEvent ==
  /\ ~ in_flight
  /\ pending # <<>>
  /\ LET i  == take_coalesced_event(pending)
         ev == pending[i]
     IN  /\ pending' = SubSeq(pending, i + 1, Len(pending))
         /\ seen_key' = IF ev.kind = "key" THEN ev.n ELSE seen_key
         /\ seen_size' = IF is_resize(ev) THEN ev.n ELSE seen_size
  /\ UNCHANGED <<slots, next_id, active_query, active_probe, call, terminal, gave_up>>

BufferBatch(n) ==
  /\ ~ in_flight
  /\ pending = <<>>
  /\ n \in 1 .. Len(wire)
  /\ LET fed == buffer_events(slots, SubSeq(wire, 1, n))
     IN  slots' = fed.slots /\ pending' = fed.kept
  /\ wire' = SubSeq(wire, n + 1, Len(wire))
  /\ UNCHANGED <<next_id, active_query, active_probe, call, asked, typed, resized, app>>

-----------------------------------------------------------------------------
(***************************************************************************)
(* The terminal.                                                           *)
(***************************************************************************)
Send(ev) == Len(wire) < MaxWire /\ wire' = Append(wire, ev)

Answer ==
  /\ asked # <<>>
  /\ Send([kind |-> "reply", to |-> Head(asked).to, n |-> Head(asked).n])
  /\ asked' = Tail(asked)
  /\ UNCHANGED <<session, typed, resized, app>>

Ignore ==
  /\ asked # <<>>
  /\ asked' = Tail(asked)
  /\ UNCHANGED <<session, wire, typed, resized, app>>

TypeKey ==
  /\ typed < MaxKeys /\ typed + resized < MaxInput
  /\ Send([kind |-> "key", n |-> typed + 1])
  /\ typed' = typed + 1
  /\ UNCHANGED <<session, asked, resized, app>>

ResizeWindow ==
  /\ resized < MaxResizes /\ typed + resized < MaxInput
  /\ Send([kind |-> "resize", n |-> resized + 1])
  /\ resized' = resized + 1
  /\ UNCHANGED <<session, asked, typed, app>>

-----------------------------------------------------------------------------
Next ==
  \/ \E e \in Query : StartQuery(e)
  \/ StartProbe
  \/ WriteRequest
  \/ \E sent \in 0 .. Len(Optional) : InterruptWrite(sent)
  \/ \E n \in 1 .. MaxWire : ReadBatch(n)
  \/ \E how \in {"timeout", "eof", "failed"} : EndRead(how)
  \/ CancelRead
  \/ TakeEvent
  \/ \E n \in 1 .. MaxWire : BufferBatch(n)
  \/ Answer
  \/ Ignore
  \/ TypeKey
  \/ ResizeWindow

Spec == Init /\ [][Next]_vars

(***************************************************************************)
(* The runtime's timer fires: a call that reads is ended by its deadline   *)
(* if by nothing else.  Whether a write completes is up to the terminal.   *)
(***************************************************************************)
DeadlineFairness == WF_vars(EndRead("timeout"))

\* A terminal that keeps accepting output.
LiveSpec == Spec /\ DeadlineFairness /\ WF_vars(WriteRequest)

-----------------------------------------------------------------------------
TypeOK ==
  /\ next_id \in 0 .. MaxIds
  /\ DOMAIN slots \subseteq 0 .. next_id - 1
  /\ slots \in [DOMAIN slots -> Slot]
  /\ active_query \in 0 .. MaxIds - 1 \cup {NoId}
  /\ active_probe \in Seq(0 .. MaxIds - 1)
  /\ pending \in Seq(Event)
  /\ call \in [ kind : {"none", "query", "probe"},
               at : { "idle", "write", "read", "answered", "fenced",
                      "timeout", "eof", "failed", "dropped" },
               ids : Seq(0 .. MaxIds - 1), got : Seq(Event \cup {NoReply}) ]
  /\ Len(call.got) = Len(call.ids)
  /\ asked \in Seq([to : Expectation, n : 0 .. MaxIds - 1])
  /\ wire \in Seq(Event) /\ Len(wire) <= MaxWire
  /\ typed \in 0 .. MaxKeys /\ seen_key \in 0 .. typed
  /\ resized \in 0 .. MaxResizes /\ seen_size \in 0 .. resized
  /\ gave_up \in BOOLEAN

(***************************************************************************)
(* Every tracked expectation is in active_query or active_probe, where the *)
(* next call's sweep finds it, has one waiter, and while a call is in      *)
(* flight it is one of that call's and has no reply waiting: registration  *)
(* never joins a leftover, and no completion is left untaken.              *)
(***************************************************************************)
recorded == ToSet(active_probe) \cup ({active_query} \ {NoId})

SlotsAreOwned ==
  /\ DOMAIN slots \subseteq recorded
  /\ \A i \in DOMAIN slots : slots[i].outstanding = 1
  /\ in_flight =>
       /\ recorded = ToSet(call.ids)
       /\ \A i \in DOMAIN slots : ~ is_completed(slots, i)
       /\ \A k \in DOMAIN call.ids :
            call.got[k] = NoReply <=> call.ids[k] \in DOMAIN slots

(***************************************************************************)
(* Typeahead is neither lost, nor duplicated, nor reordered, whatever      *)
(* queries, probes, drops and deadlines come between (rule 5, FM-Q1, Q6).  *)
(***************************************************************************)
undelivered == pending \o wire

in_order(events, kind) ==
  \A i, j \in DOMAIN events :
     i < j /\ events[i].kind = kind /\ events[j].kind = kind => events[i].n < events[j].n

numbers(events, kind) == {events[i].n : i \in {j \in DOMAIN events : events[j].kind = kind}}

TypeaheadInOrder ==
  in_order(undelivered, "key") /\ numbers(undelivered, "key") = seen_key + 1 .. typed

(***************************************************************************)
(* The application is never told an older geometry after a newer one, and  *)
(* the newest geometry is the last it will be told (FM-G2).                *)
(***************************************************************************)
LastGeometryArrives ==
  /\ in_order(undelivered, "resize")
  /\ numbers(undelivered, "resize") \subseteq seen_size + 1 .. resized
  /\ resized \in numbers(undelivered, "resize") \cup {seen_size}

(***************************************************************************)
(* A reply goes to the request that asked for it, as long as every earlier *)
(* call ended by its reply or its fence: the fence comes last, so nothing  *)
(* asked before it is still due when it arrives.                           *)
(***************************************************************************)
own_replies ==
  \A k \in DOMAIN call.ids : call.got[k] # NoReply => call.got[k].n = call.ids[k]

OwnReplyUnlessGaveUp == ~ gave_up => own_replies

(***************************************************************************)
(* When a probe ends, no event it has read or drained answers a query it   *)
(* reports unanswered: a reply in the same batch as the fence counts,      *)
(* before it or behind it (FM-Q7).                                         *)
(***************************************************************************)
FenceWaitsForBatch ==
  [][ (call.kind = "probe" /\ in_flight /\ call'.at \in {"fenced", "timeout", "eof"}) =>
        \A i \in DOMAIN Bundle, j \in DOMAIN pending' :
           match_event(Bundle[i], pending'[j]) => call'.got[i] # NoReply ]_vars

(***************************************************************************)
(* The inductive invariant.  The last call registered the newest ids, one  *)
(* after another; its own are the only ones tracked, and what is tracked   *)
(* is recorded for the next sweep until the call has cleaned up.           *)
(***************************************************************************)
CallIsRecorded ==
  /\ \A k \in DOMAIN call.ids : call.ids[k] = next_id - Len(call.ids) + k - 1
  /\ call.kind = "none" => call.at = "idle" /\ call.ids = <<>>
  /\ call.kind = "query" => Len(call.ids) = 1
  /\ call.kind = "probe" => Len(call.ids) = Len(Bundle)
  /\ IF call.at \in {"write", "read", "dropped"}
     THEN \/ call.kind = "query" /\ active_query = call.ids[1] /\ active_probe = <<>>
          \/ call.kind = "probe" /\ active_query = NoId /\ active_probe = call.ids
     ELSE active_query = NoId /\ active_probe = <<>> /\ DOMAIN slots = {}

SlotsAreOfTheCall ==
  /\ DOMAIN slots \subseteq ToSet(call.ids)
  /\ \A i \in DOMAIN slots : slots[i].outstanding = 1
  /\ call.kind = "probe" =>
       \A k \in DOMAIN call.ids :
          call.ids[k] \in DOMAIN slots => slots[call.ids[k]].expectation = Bundle[k]
  /\ in_flight =>
       /\ \A i \in DOMAIN slots : ~ is_completed(slots, i)
       /\ \A k \in DOMAIN call.ids : call.got[k] = NoReply <=> call.ids[k] \in DOMAIN slots
  /\ call.at = "write" \/ (call.kind = "query" /\ call.at = "read") =>
       \A k \in DOMAIN call.ids : call.got[k] = NoReply

\* What a reading probe has passed on answers no query it still waits for.
PassedOnIsUnclaimed ==
  call.kind = "probe" /\ call.at = "read" =>
    \A i \in DOMAIN Bundle, j \in DOMAIN pending :
       match_event(Bundle[i], pending[j]) => call.got[i] # NoReply

\* As long as no call has given up, every reply under way and every request
\* the terminal has yet to answer is awaited, and they come in the order of
\* registration.
awaited(r) == r.n \in DOMAIN slots /\ slots[r.n].expectation = r.to

RepliesAreAwaited ==
  ~ gave_up =>
    /\ call.at \in {"idle", "write", "read", "answered", "fenced"}
    /\ \A j \in DOMAIN pending : pending[j].kind # "reply"
    /\ \A j \in DOMAIN wire : wire[j].kind = "reply" => call.at = "read" /\ awaited(wire[j])
    /\ \A j \in DOMAIN asked : call.at = "read" /\ awaited(asked[j])
    /\ in_order(wire, "reply")
    /\ \A i, j \in DOMAIN asked : i < j => asked[i].n < asked[j].n
    /\ \A i \in DOMAIN wire, j \in DOMAIN asked :
         wire[i].kind = "reply" => wire[i].n < asked[j].n
    /\ own_replies

IInv ==
  /\ TypeOK /\ CallIsRecorded /\ SlotsAreOfTheCall
  /\ TypeaheadInOrder /\ LastGeometryArrives
  /\ PassedOnIsUnclaimed /\ RepliesAreAwaited

(***************************************************************************)
(* A call ends: a silent terminal costs one deadline.                      *)
(***************************************************************************)
EveryCallEnds == in_flight ~> ~ in_flight

=============================================================================
