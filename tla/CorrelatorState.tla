--------------------------- MODULE CorrelatorState ---------------------------
(***************************************************************************)
(* The data structure of src/src/correlate.rs: the slots a Correlator owns *)
(* and what register, feed, take_reply and resolve do to them.  The module *)
(* has no variables; Correlator and TokioQueryDriver keep the state.       *)
(*                                                                         *)
(* The code keeps a Vec of slots in registration order.  Ids are minted in *)
(* increasing order and never reused, so the vector is represented by a    *)
(* function from the ids still tracked to their slots: the order of the    *)
(* vector is the order of the ids, and removing an element is removing an  *)
(* id from the domain.                                                     *)
(***************************************************************************)
EXTENDS Naturals, FiniteSets

CONSTANTS
  Expectation,  \* the queries that can be registered
  Event,        \* decoded events, those that are replies and those that are not
  Matches,      \* the pairs <<e, ev>> for which e.match_event(ev) is Some(_)
  NoReply,      \* slot.reply == None
  NoId          \* no expectation id

(***************************************************************************)
(* Full-discriminator matching: no event is accepted by two expectations.  *)
(* ReplyMatchers establishes it for the matchers of the code.              *)
(***************************************************************************)
ASSUME MatchersDisjoint ==
  /\ Matches \subseteq Expectation \X Event
  /\ \A a, b \in Expectation, ev \in Event :
        <<a, ev>> \in Matches /\ <<b, ev>> \in Matches => a = b

ASSUME SentinelsAreFresh == NoReply \notin Event /\ NoId \notin Nat

Slot == [ expectation : Expectation,
          outstanding : Nat \ {0},
          reply       : Event \cup {NoReply} ]

match_event(e, ev) == <<e, ev>> \in Matches

distinguishes(a, b) == a # b

(***************************************************************************)
(* The first slot of the vector whose id is in ids.                        *)
(***************************************************************************)
first(ids) == CHOOSE i \in ids : \A j \in ids : i <= j

is_completed(slots, id) == slots[id].reply # NoReply

-----------------------------------------------------------------------------
(***************************************************************************)
(* register: the first slot that does not distinguish from e decides.      *)
(* distinguishes is a # b, so that slot holds e itself and the waiter      *)
(* joins it; RegisterError::Ambiguous has no pair that produces it.        *)
(***************************************************************************)
clashing(slots, e) ==
  {i \in DOMAIN slots : ~ distinguishes(slots[i].expectation, e)}

\* Mutant: a waiter never joins a slot that is already there.
register_always_fresh(slots, next_id, e) == next_id

register_id(slots, next_id, e) ==
  IF clashing(slots, e) = {} THEN next_id ELSE first(clashing(slots, e))

\* Mutant: joining a slot forgets to count the new waiter.
register_uncounted(slots, next_id, e) ==
  LET id == register_id(slots, next_id, e)
  IN  [ i \in DOMAIN slots \cup {id} |->
          IF i \in DOMAIN slots THEN slots[i]
          ELSE [expectation |-> e, outstanding |-> 1, reply |-> NoReply] ]

register(slots, next_id, e) ==
  LET id == register_id(slots, next_id, e)
  IN  [ i \in DOMAIN slots \cup {id} |->
          IF i # id THEN slots[i]
          ELSE IF id \in DOMAIN slots
               THEN [slots[id] EXCEPT !.outstanding = @ + 1]
               ELSE [expectation |-> e, outstanding |-> 1, reply |-> NoReply] ]

-----------------------------------------------------------------------------
(***************************************************************************)
(* feed: the first slot still awaiting a reply whose matcher accepts the   *)
(* event stores it; without one the event passes through.                  *)
(***************************************************************************)
\* Mutant: a completed slot is matched again.
matching_even_completed(slots, ev) ==
  {i \in DOMAIN slots : match_event(slots[i].expectation, ev)}

matching(slots, ev) ==
  {i \in DOMAIN slots : /\ ~ is_completed(slots, i)
                        /\ match_event(slots[i].expectation, ev)}

\* The id in Feed::Completed, NoId for Feed::Passthrough.
feed_id(slots, ev) ==
  IF matching(slots, ev) = {} THEN NoId ELSE first(matching(slots, ev))

feed(slots, ev) ==
  LET id == feed_id(slots, ev)
  IN  [ i \in DOMAIN slots |->
          IF i = id THEN [slots[i] EXCEPT !.reply = ev] ELSE slots[i] ]

-----------------------------------------------------------------------------
(***************************************************************************)
(* One waiter fewer: the tail take_reply and resolve share.                *)
(***************************************************************************)
remove(slots, id) == [i \in DOMAIN slots \ {id} |-> slots[i]]

\* Mutant: the last waiter leaves an empty slot behind.
release_keeps_slot(slots, id) ==
  [slots EXCEPT ![id].outstanding = @ - 1]

release(slots, id) ==
  IF slots[id].outstanding = 1
  THEN remove(slots, id)
  ELSE [slots EXCEPT ![id].outstanding = @ - 1]

\* None when the id is unknown or the slot has no reply yet.
take_reply(slots, id) ==
  IF id \in DOMAIN slots /\ is_completed(slots, id)
  THEN release(slots, id) ELSE slots

taken_reply(slots, id) ==
  IF id \in DOMAIN slots THEN slots[id].reply ELSE NoReply

\* Mutant: the held reply is dropped with the first waiter that gives up.
resolve_drops_held(slots, id) ==
  IF id \in DOMAIN slots
  THEN IF is_completed(slots, id) THEN remove(slots, id) ELSE release(slots, id)
  ELSE slots

\* WaiterRemoved, Removed and AlreadyCompleted all release; Unknown is a no-op.
resolve(slots, id) ==
  IF id \in DOMAIN slots THEN release(slots, id) ELSE slots

=============================================================================
