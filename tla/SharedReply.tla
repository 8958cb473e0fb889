----------------------------- MODULE SharedReply -----------------------------
(***************************************************************************)
(* What the correlator promises its waiters, without slots, ids or counts  *)
(* (rules 1, 3 and 4 of the module docs of src/src/correlate.rs).          *)
(*                                                                         *)
(* A waiter wants an expectation until it has received the reply or given  *)
(* up.  Everyone who wants the same expectation at the same time shares    *)
(* one answer: an event answers every unanswered waiter it matches, a      *)
(* waiter that joins an answered group gets the answer the group holds,    *)
(* and once the last of them has left the answer is gone.                  *)
(***************************************************************************)
CONSTANTS Waiter, Expectation, Event, Matches, NoReply, NoExpectation

VARIABLES
  wants,   \* the expectation each waiter is waiting on, or NoExpectation
  answer,  \* the event that answered it, or NoReply
  got      \* the reply the waiter was last given, or NoReply

vars == <<wants, answer, got>>

Init ==
  /\ wants  = [w \in Waiter |-> NoExpectation]
  /\ answer = [w \in Waiter |-> NoReply]
  /\ got    = [w \in Waiter |-> NoReply]

Ask(w, e) ==
  /\ wants[w] = NoExpectation
  /\ wants' = [wants EXCEPT ![w] = e]
  /\ \E r \in Event \cup {NoReply} :
        /\ answer' = [answer EXCEPT ![w] = r]
        /\ \A v \in Waiter : wants[v] = e => answer[v] = r
        /\ (\A v \in Waiter : wants[v] # e) => r = NoReply
  /\ UNCHANGED got

Deliver(ev) ==
  /\ \E w \in Waiter : answer[w] = NoReply /\ <<wants[w], ev>> \in Matches
  /\ answer' = [ w \in Waiter |->
                   IF answer[w] = NoReply /\ <<wants[w], ev>> \in Matches
                   THEN ev ELSE answer[w] ]
  /\ UNCHANGED <<wants, got>>

Leave(w, reply) ==
  /\ wants[w] # NoExpectation
  /\ wants'  = [wants EXCEPT ![w] = NoExpectation]
  /\ answer' = [answer EXCEPT ![w] = NoReply]
  /\ got'    = [got EXCEPT ![w] = reply]

Receive(w) == answer[w] # NoReply /\ Leave(w, answer[w])

GiveUp(w) == Leave(w, NoReply)

Next ==
  \/ \E w \in Waiter, e \in Expectation : Ask(w, e)
  \/ \E ev \in Event : Deliver(ev)
  \/ \E w \in Waiter : Receive(w) \/ GiveUp(w)

Spec == Init /\ [][Next]_vars

=============================================================================
