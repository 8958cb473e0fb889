----------------------------- MODULE Correlator ------------------------------
(***************************************************************************)
(* The sans-io query correlator of src/src/correlate.rs with any number of *)
(* waiters registering, reading and giving up in any order, and any event  *)
(* fed at any time.                                                        *)
(*                                                                         *)
(* A waiter stands for a query driver: it registers an expectation, holds  *)
(* the id it is given, and ends by taking the reply or by resolving the    *)
(* expectation (timeout, EOF, cancellation, no reply from a fence).        *)
(***************************************************************************)
EXTENDS CorrelatorState

CONSTANTS
  Waiter,         \* query drivers
  NoExpectation,  \* what an idle waiter wants (in the abstract specification)
  MaxIds          \* bound: ids minted in one behaviour (the code counts in u64)

ASSUME WaiterAssumption ==
  /\ IsFiniteSet(Waiter)
  /\ NoExpectation \notin Expectation
  /\ MaxIds \in Nat

VARIABLES
  slots,    \* Correlator.slots, as a function from the tracked ids
  next_id,  \* Correlator.next_id
  ticket,   \* the ExpectationId each waiter holds, or NoId
  got       \* the reply each waiter was last given, or NoReply

vars == <<slots, next_id, ticket, got>>

TypeOK ==
  /\ next_id \in 0 .. MaxIds
  /\ DOMAIN slots \subseteq 0 .. next_id - 1
  /\ slots \in [DOMAIN slots -> Slot]
  /\ ticket \in [Waiter -> Nat \cup {NoId}]
  /\ got \in [Waiter -> Event \cup {NoReply}]

Init ==
  /\ slots = [i \in {} |-> NoReply]
  /\ next_id = 0
  /\ ticket = [w \in Waiter |-> NoId]
  /\ got = [w \in Waiter |-> NoReply]

Register(w, e) ==
  /\ ticket[w] = NoId
  /\ next_id < MaxIds
  /\ LET id == register_id(slots, next_id, e)
     IN  /\ slots' = register(slots, next_id, e)
         /\ next_id' = IF id = next_id THEN next_id + 1 ELSE next_id
         /\ ticket' = [ticket EXCEPT ![w] = id]
  /\ UNCHANGED got

Feed(ev) ==
  /\ slots' = feed(slots, ev)
  /\ UNCHANGED <<next_id, ticket, got>>

\* A waiter whose expectation is not completed gets None and keeps waiting.
TakeReply(w) ==
  /\ ticket[w] # NoId
  /\ taken_reply(slots, ticket[w]) # NoReply
  /\ slots' = take_reply(slots, ticket[w])
  /\ ticket' = [ticket EXCEPT ![w] = NoId]
  /\ got' = [got EXCEPT ![w] = taken_reply(slots, ticket[w])]
  /\ UNCHANGED next_id

Resolve(w) ==
  /\ ticket[w] # NoId
  /\ slots' = resolve(slots, ticket[w])
  /\ ticket' = [ticket EXCEPT ![w] = NoId]
  /\ got' = [got EXCEPT ![w] = NoReply]
  /\ UNCHANGED next_id

Next ==
  \/ \E w \in Waiter, e \in Expectation : Register(w, e)
  \/ \E ev \in Event : Feed(ev)
  \/ \E w \in Waiter : TakeReply(w)
  \/ \E w \in Waiter : Resolve(w)

Spec == Init /\ [][Next]_vars

-----------------------------------------------------------------------------
holders(id) == {w \in Waiter : ticket[w] = id}

(***************************************************************************)
(* No pending reply can be claimed by two expectations: the tracked        *)
(* expectations are pairwise distinguishable (rule 1 of correlate.rs).     *)
(***************************************************************************)
PairwiseDistinct ==
  \A i, j \in DOMAIN slots : i # j => distinguishes(slots[i].expectation, slots[j].expectation)

(***************************************************************************)
(* The waiter count of a slot is the number of waiters that still hold its *)
(* id, and a waiter's id is always tracked: no slot is freed under a       *)
(* waiter that has yet to read it, and none outlives its last waiter.      *)
(***************************************************************************)
WaiterAccounting ==
  /\ \A w \in Waiter : ticket[w] # NoId => ticket[w] \in DOMAIN slots
  /\ \A i \in DOMAIN slots : slots[i].outstanding = Cardinality(holders(i))

(***************************************************************************)
(* A slot holds a reply its own matcher accepted.                          *)
(***************************************************************************)
RepliesMatch ==
  \A i \in DOMAIN slots :
     is_completed(slots, i) => match_event(slots[i].expectation, slots[i].reply)

(***************************************************************************)
(* The inductive invariant.                                                *)
(***************************************************************************)
IInv == TypeOK /\ PairwiseDistinct /\ WaiterAccounting /\ RepliesMatch

(***************************************************************************)
(* A held reply is what every remaining waiter will read: no later event   *)
(* replaces it, and it disappears only when no waiter holds the id any     *)
(* more (rule 3: "held until every waiter has taken it").                  *)
(***************************************************************************)
HeldReplyIsStable ==
  [][ \A i \in DOMAIN slots : is_completed(slots, i) =>
         \/ i \in DOMAIN slots' /\ slots'[i].reply = slots[i].reply
         \/ \A w \in Waiter : ticket'[w] # i ]_vars

(***************************************************************************)
(* The correlator implements SharedReply: a waiter wants the expectation   *)
(* of the slot it holds, and its answer is the reply stored there.         *)
(***************************************************************************)
wants == [ w \in Waiter |-> IF ticket[w] \in DOMAIN slots
                            THEN slots[ticket[w]].expectation ELSE NoExpectation ]

answer == [ w \in Waiter |-> IF ticket[w] \in DOMAIN slots
                             THEN slots[ticket[w]].reply ELSE NoReply ]

Abstract == INSTANCE SharedReply WITH wants <- wants, answer <- answer, got <- got

ImplementsSharedReply == Abstract!Spec

=============================================================================
