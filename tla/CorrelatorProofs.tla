-------------------------- MODULE CorrelatorProofs ---------------------------
(***************************************************************************)
(* Theorems about Correlator, for every set of waiters, expectations and   *)
(* events and every matching relation with disjoint matchers.              *)
(***************************************************************************)
EXTENDS Correlator, FiniteSetTheorems, TLAPS

(***************************************************************************)
(* first of a set with one element.                                        *)
(***************************************************************************)
LEMMA FirstOfOne ==
  ASSUME NEW S, NEW i \in Nat, i \in S, \A j \in S : j = i
  PROVE  first(S) = i
<1>1. \A j \in S : i <= j
  OBVIOUS
<1>2. \A k \in S : k = i
  OBVIOUS
<1> QED
  BY <1>1, <1>2 DEF first

(***************************************************************************)
(* register either appends a slot of its own for e, under the next id, or  *)
(* joins the one slot that holds e.                                        *)
(***************************************************************************)
LEMMA RegisterEffect ==
  ASSUME TypeOK, PairwiseDistinct, NEW e \in Expectation
  PROVE  LET id == register_id(slots, next_id, e)
         IN  \/ /\ \A i \in DOMAIN slots : slots[i].expectation # e
                /\ id = next_id
                /\ next_id \notin DOMAIN slots
                /\ DOMAIN register(slots, next_id, e) = DOMAIN slots \cup {next_id}
                /\ register(slots, next_id, e)[next_id]
                     = [expectation |-> e, outstanding |-> 1, reply |-> NoReply]
                /\ \A i \in DOMAIN slots : register(slots, next_id, e)[i] = slots[i]
             \/ /\ id \in DOMAIN slots
                /\ slots[id].expectation = e
                /\ register(slots, next_id, e)
                     = [slots EXCEPT ![id].outstanding = @ + 1]
<1> DEFINE id == register_id(slots, next_id, e)
<1>0. DOMAIN slots \subseteq Nat /\ next_id \in Nat /\ next_id \notin DOMAIN slots
  BY WaiterAssumption DEF TypeOK
<1>1. CASE clashing(slots, e) = {}
  <2>1. id = next_id
    BY <1>1 DEF register_id
  <2>2. \A i \in DOMAIN slots : slots[i].expectation # e
    BY <1>1 DEF clashing, distinguishes
  <2>3. register(slots, next_id, e)
          = [ i \in DOMAIN slots \cup {next_id} |->
                IF i # next_id THEN slots[i]
                ELSE [expectation |-> e, outstanding |-> 1, reply |-> NoReply] ]
    BY <2>1, <1>0 DEF register
  <2> QED
    BY <2>1, <2>2, <2>3, <1>0
<1>2. CASE clashing(slots, e) # {}
  <2>1. PICK k \in DOMAIN slots : slots[k].expectation = e /\ k \in clashing(slots, e)
    BY <1>2 DEF clashing, distinguishes
  <2>2. \A j \in clashing(slots, e) : j = k
    BY <2>1 DEF clashing, distinguishes, PairwiseDistinct
  <2>3. id = k
    BY <2>1, <2>2, <1>0, <1>2, FirstOfOne DEF register_id
  <2>4. register(slots, next_id, e)
          = [ i \in DOMAIN slots \cup {k} |->
                IF i # k THEN slots[i] ELSE [slots[k] EXCEPT !.outstanding = @ + 1] ]
    BY <2>1, <2>3 DEF register
  <2>5. slots = [i \in DOMAIN slots |-> slots[i]] /\ DOMAIN slots \cup {k} = DOMAIN slots
    BY <2>1 DEF TypeOK
  <2>6. [slots EXCEPT ![k].outstanding = @ + 1]
          = [ i \in DOMAIN slots \cup {k} |->
                IF i # k THEN slots[i] ELSE [slots[k] EXCEPT !.outstanding = @ + 1] ]
    BY <2>5
  <2> QED
    BY <2>1, <2>3, <2>4, <2>6
<1> QED
  BY <1>1, <1>2

(***************************************************************************)
(* Counting: the holders of an id when one waiter takes or drops a ticket. *)
(***************************************************************************)
LEMMA HoldersFinite ==
  ASSUME NEW i
  PROVE  IsFiniteSet(holders(i)) /\ Cardinality(holders(i)) \in Nat
<1>1. holders(i) \in SUBSET Waiter
  BY DEF holders
<1> QED
  BY <1>1, WaiterAssumption, FS_Subset, FS_CardinalityType

LEMMA HoldersAfterRegister ==
  ASSUME TypeOK, NEW w \in Waiter, ticket[w] = NoId, NEW k \in Nat,
         ticket' = [ticket EXCEPT ![w] = k]
  PROVE  /\ Cardinality(holders(k)') = Cardinality(holders(k)) + 1
         /\ \A i \in Nat : i # k => holders(i)' = holders(i)
<1>1. k # NoId /\ \A i \in Nat : i # NoId
  BY SentinelsAreFresh
<1>2. holders(k)' = holders(k) \cup {w} /\ w \notin holders(k)
  BY <1>1 DEF holders, TypeOK
<1>3. \A i \in Nat : i # k => holders(i)' = holders(i)
  BY <1>1 DEF holders, TypeOK
<1>4. Cardinality(holders(k) \cup {w}) = Cardinality(holders(k)) + 1
  BY <1>2, HoldersFinite, FS_AddElement
<1> QED
  BY <1>2, <1>3, <1>4

LEMMA HoldersAfterLeave ==
  ASSUME TypeOK, NEW w \in Waiter, NEW k \in Nat, ticket[w] = k,
         ticket' = [ticket EXCEPT ![w] = NoId]
  PROVE  /\ holders(k)' = holders(k) \ {w}
         /\ Cardinality(holders(k)') = Cardinality(holders(k)) - 1
         /\ \A i \in Nat : i # k => holders(i)' = holders(i)
<1>1. \A i \in Nat : i # NoId
  BY SentinelsAreFresh
<1>2. holders(k)' = holders(k) \ {w} /\ w \in holders(k)
  BY <1>1 DEF holders, TypeOK
<1>3. \A i \in Nat : i # k => holders(i)' = holders(i)
  BY <1>1 DEF holders, TypeOK
<1>4. Cardinality(holders(k) \ {w}) = Cardinality(holders(k)) - 1
  BY <1>2, HoldersFinite, FS_RemoveElement
<1> QED
  BY <1>2, <1>3, <1>4

-----------------------------------------------------------------------------
(***************************************************************************)
(* Every action preserves the inductive invariant.                         *)
(***************************************************************************)
LEMMA InitIInv == Init => IInv
<1> SUFFICES ASSUME Init PROVE IInv
  OBVIOUS
<1>1. DOMAIN slots = {}
  BY DEF Init
<1>2. TypeOK
  BY <1>1, WaiterAssumption DEF Init, TypeOK, Slot
<1> QED
  BY <1>1, <1>2 DEF IInv, Init, PairwiseDistinct, WaiterAccounting, RepliesMatch

LEMMA RegisterPreservesIInv ==
  ASSUME IInv, NEW w \in Waiter, NEW e \in Expectation, Register(w, e)
  PROVE  IInv'
<1> USE DEF IInv
<1> DEFINE id == register_id(slots, next_id, e)
<1>0. /\ ticket[w] = NoId
      /\ next_id < MaxIds
      /\ slots' = register(slots, next_id, e)
      /\ next_id' = IF id = next_id THEN next_id + 1 ELSE next_id
      /\ ticket' = [ticket EXCEPT ![w] = id]
      /\ got' = got
  BY DEF Register
<1>1. DOMAIN slots \subseteq Nat /\ next_id \in Nat /\ MaxIds \in Nat
  BY WaiterAssumption DEF TypeOK
<1>2. CASE /\ \A i \in DOMAIN slots : slots[i].expectation # e
           /\ id = next_id
           /\ next_id \notin DOMAIN slots
           /\ DOMAIN slots' = DOMAIN slots \cup {next_id}
           /\ slots'[next_id]
                = [expectation |-> e, outstanding |-> 1, reply |-> NoReply]
           /\ \A i \in DOMAIN slots : slots'[i] = slots[i]
  <2>1. TypeOK'
    <3>1. next_id' \in 0 .. MaxIds /\ DOMAIN slots' \subseteq 0 .. next_id' - 1
      BY <1>0, <1>1, <1>2 DEF TypeOK
    <3>2. slots'[next_id] \in Slot
      BY <1>2 DEF Slot
    <3>3. slots' \in [DOMAIN slots' -> Slot]
      <4>1. slots' = [i \in DOMAIN slots' |-> slots'[i]]
        BY <1>0 DEF register
      <4> QED
        BY <1>2, <3>2, <4>1 DEF TypeOK
    <3>4. ticket' \in [Waiter -> Nat \cup {NoId}]
      BY <1>0, <1>1, <1>2 DEF TypeOK
    <3> QED
      BY <3>1, <3>3, <3>4, <1>0 DEF TypeOK
  <2>2. PairwiseDistinct'
    BY <1>2 DEF PairwiseDistinct, distinguishes
  <2>3. \A v \in Waiter : ticket'[v] # NoId => ticket'[v] \in DOMAIN slots'
    BY <1>0, <1>2 DEF WaiterAccounting, TypeOK
  <2>4. \A i \in DOMAIN slots' : slots'[i].outstanding = Cardinality(holders(i)')
    <3>1. holders(next_id) = {}
      BY <1>1, <1>2, SentinelsAreFresh DEF holders, WaiterAccounting
    <3>2. ticket' = [ticket EXCEPT ![w] = next_id]
      BY <1>0, <1>2
    <3>3. PICK n \in Nat : n = next_id
      BY <1>1
    <3>4. /\ Cardinality(holders(n)') = Cardinality(holders(n)) + 1
          /\ \A i \in Nat : i # n => holders(i)' = holders(i)
      BY <1>0, <3>2, <3>3, HoldersAfterRegister
    <3>5. Cardinality(holders(n)') = 1
      BY <3>1, <3>3, <3>4, FS_EmptySet
    <3> QED
      BY <1>1, <1>2, <3>3, <3>4, <3>5 DEF WaiterAccounting
  <2>5. RepliesMatch'
    BY <1>2 DEF RepliesMatch, is_completed
  <2> QED
    BY <2>1, <2>2, <2>3, <2>4, <2>5 DEF WaiterAccounting
<1>3. CASE /\ id \in DOMAIN slots
           /\ slots[id].expectation = e
           /\ slots' = [slots EXCEPT ![id].outstanding = @ + 1]
  <2>0. PICK k \in Nat : k = id /\ k \in DOMAIN slots
    BY <1>1, <1>3
  <2>1. /\ next_id' = next_id
        /\ ticket' = [ticket EXCEPT ![w] = k]
        /\ DOMAIN slots' = DOMAIN slots
        /\ slots[k] \in Slot
        /\ slots'[k] = [slots[k] EXCEPT !.outstanding = @ + 1]
        /\ \A i \in DOMAIN slots : i # k => slots'[i] = slots[i]
    BY <1>0, <1>1, <1>3, <2>0 DEF TypeOK
  <2>2. slots'[k] \in Slot /\ slots'[k].expectation = slots[k].expectation
          /\ slots'[k].reply = slots[k].reply
          /\ slots'[k].outstanding = slots[k].outstanding + 1
    BY <2>1 DEF Slot
  <2>3. TypeOK'
    <3>1. slots' \in [DOMAIN slots' -> Slot]
      BY <1>3, <2>0, <2>1, <2>2 DEF TypeOK
    <3>2. ticket' \in [Waiter -> Nat \cup {NoId}]
      BY <2>1 DEF TypeOK
    <3> QED
      BY <1>0, <2>1, <3>1, <3>2 DEF TypeOK
  <2>4. PairwiseDistinct'
    <3>1. \A i \in DOMAIN slots : slots'[i].expectation = slots[i].expectation
      BY <2>1, <2>2
    <3>2. ASSUME NEW i \in DOMAIN slots, NEW j \in DOMAIN slots, i # j
          PROVE  slots'[i].expectation # slots'[j].expectation
      BY <3>1, <3>2 DEF PairwiseDistinct, distinguishes
    <3> QED
      BY <2>1, <3>2 DEF PairwiseDistinct, distinguishes
  <2>5. \A v \in Waiter : ticket'[v] # NoId => ticket'[v] \in DOMAIN slots'
    BY <2>0, <2>1 DEF WaiterAccounting, TypeOK
  <2>6. \A i \in DOMAIN slots' : slots'[i].outstanding = Cardinality(holders(i)')
    <3>1. /\ Cardinality(holders(k)') = Cardinality(holders(k)) + 1
          /\ \A i \in Nat : i # k => holders(i)' = holders(i)
      BY <1>0, <2>1, HoldersAfterRegister
    <3>2. SUFFICES ASSUME NEW i \in DOMAIN slots'
                   PROVE  slots'[i].outstanding = Cardinality(holders(i)')
      OBVIOUS
    <3>3. i \in DOMAIN slots /\ i \in Nat
      BY <1>1, <2>1
    <3>4. slots[i].outstanding = Cardinality(holders(i))
      BY <3>3 DEF WaiterAccounting
    <3>5. CASE i = k
      BY <2>2, <3>1, <3>4, <3>5
    <3>6. CASE i # k
      BY <2>1, <3>1, <3>3, <3>4, <3>6
    <3> QED
      BY <3>5, <3>6
  <2>7. RepliesMatch'
    BY <2>1, <2>2 DEF RepliesMatch, is_completed
  <2> QED
    BY <2>3, <2>4, <2>5, <2>6, <2>7 DEF WaiterAccounting
<1> QED
  BY <1>0, <1>2, <1>3, RegisterEffect

(***************************************************************************)
(* feed stores the event in at most one slot, one that had no reply and    *)
(* whose matcher accepts it, and changes nothing else.                     *)
(***************************************************************************)
LEMMA FeedEffect ==
  ASSUME TypeOK, PairwiseDistinct, NEW ev \in Event
  PROVE  \/ matching(slots, ev) = {} /\ feed(slots, ev) = slots
         \/ \E k \in DOMAIN slots :
              /\ slots[k].reply = NoReply
              /\ match_event(slots[k].expectation, ev)
              /\ matching(slots, ev) = {k}
              /\ feed(slots, ev) = [slots EXCEPT ![k].reply = ev]
<1>0. /\ DOMAIN slots \subseteq Nat
      /\ slots = [i \in DOMAIN slots |-> slots[i]]
      /\ \A i \in DOMAIN slots : slots[i].expectation \in Expectation /\ slots[i] \in Slot
  BY WaiterAssumption DEF TypeOK, Slot
<1>1. CASE matching(slots, ev) = {}
  <2>1. feed_id(slots, ev) = NoId /\ NoId \notin DOMAIN slots
    BY <1>0, <1>1, SentinelsAreFresh DEF feed_id
  <2>2. feed(slots, ev) = [i \in DOMAIN slots |-> slots[i]]
    BY <2>1 DEF feed
  <2> QED
    BY <1>0, <1>1, <2>2
<1>2. CASE matching(slots, ev) # {}
  <2>1. PICK k \in DOMAIN slots : k \in matching(slots, ev)
    BY <1>2 DEF matching
  <2>2. slots[k].reply = NoReply /\ match_event(slots[k].expectation, ev)
    BY <2>1 DEF matching, is_completed
  <2>3. \A j \in matching(slots, ev) : j = k
    <3>1. SUFFICES ASSUME NEW j \in matching(slots, ev) PROVE j = k
      OBVIOUS
    <3>2. j \in DOMAIN slots /\ match_event(slots[j].expectation, ev)
      BY DEF matching
    <3>3. slots[j].expectation = slots[k].expectation
      BY <1>0, <2>2, <3>2, MatchersDisjoint DEF match_event
    <3> QED
      BY <3>2, <3>3 DEF PairwiseDistinct, distinguishes
  <2>4. feed_id(slots, ev) = k
    BY <1>0, <1>2, <2>1, <2>3, FirstOfOne DEF feed_id
  <2>5. feed(slots, ev) = [ i \in DOMAIN slots |->
                              IF i = k THEN [slots[k] EXCEPT !.reply = ev] ELSE slots[i] ]
    BY <2>4 DEF feed
  <2>6. feed(slots, ev) = [slots EXCEPT ![k].reply = ev]
    BY <1>0, <2>5
  <2> QED
    BY <2>1, <2>2, <2>3, <2>6
<1> QED
  BY <1>1, <1>2

LEMMA FeedPreservesIInv ==
  ASSUME IInv, NEW ev \in Event, Feed(ev)
  PROVE  IInv'
<1> USE DEF IInv
<1>0. slots' = feed(slots, ev) /\ next_id' = next_id /\ ticket' = ticket /\ got' = got
  BY DEF Feed
<1>1. CASE feed(slots, ev) = slots
  BY <1>0, <1>1 DEF TypeOK, PairwiseDistinct, WaiterAccounting, RepliesMatch, holders
<1>2. ASSUME NEW k \in DOMAIN slots,
             slots[k].reply = NoReply,
             match_event(slots[k].expectation, ev),
             slots' = [slots EXCEPT ![k].reply = ev]
      PROVE  IInv'
  <2>1. /\ DOMAIN slots' = DOMAIN slots
        /\ slots[k] \in Slot
        /\ slots'[k] = [slots[k] EXCEPT !.reply = ev]
        /\ \A i \in DOMAIN slots : i # k => slots'[i] = slots[i]
    BY <1>2 DEF TypeOK
  <2>2. /\ slots'[k] \in Slot
        /\ slots'[k].expectation = slots[k].expectation
        /\ slots'[k].outstanding = slots[k].outstanding
        /\ slots'[k].reply = ev
    BY <2>1 DEF Slot
  <2>3. TypeOK'
    <3>1. slots' \in [DOMAIN slots' -> Slot]
      BY <1>2, <2>1, <2>2 DEF TypeOK
    <3> QED
      BY <1>0, <2>1, <3>1 DEF TypeOK
  <2>4. PairwiseDistinct'
    <3>1. \A i \in DOMAIN slots : slots'[i].expectation = slots[i].expectation
      BY <2>1, <2>2
    <3>2. ASSUME NEW i \in DOMAIN slots, NEW j \in DOMAIN slots, i # j
          PROVE  slots'[i].expectation # slots'[j].expectation
      BY <3>1, <3>2 DEF PairwiseDistinct, distinguishes
    <3> QED
      BY <2>1, <3>2 DEF PairwiseDistinct, distinguishes
  <2>5. WaiterAccounting'
    <3>1. \A i \in DOMAIN slots : slots'[i].outstanding = slots[i].outstanding
      BY <2>1, <2>2
    <3> QED
      BY <1>0, <2>1, <3>1 DEF WaiterAccounting, holders
  <2>6. RepliesMatch'
    BY <1>2, <2>1, <2>2 DEF RepliesMatch, is_completed
  <2> QED
    BY <2>3, <2>4, <2>5, <2>6
<1> QED
  BY <1>0, <1>1, <1>2, FeedEffect

(***************************************************************************)
(* One waiter leaves: its slot is freed when nobody else holds the id, and *)
(* otherwise counts one waiter fewer and is unchanged but for that.        *)
(***************************************************************************)
LEMMA ReleaseEffect ==
  ASSUME IInv, NEW w \in Waiter, NEW k \in DOMAIN slots, ticket[w] = k
  PROVE  \/ /\ slots[k].outstanding = 1
            /\ release(slots, k) = [i \in DOMAIN slots \ {k} |-> slots[i]]
            /\ \A v \in Waiter : ticket[v] = k => v = w
         \/ /\ slots[k].outstanding - 1 \in Nat \ {0}
            /\ release(slots, k) = [slots EXCEPT ![k].outstanding = @ - 1]
<1> USE DEF IInv
<1>0. slots[k].outstanding \in Nat \ {0} /\ slots[k].outstanding = Cardinality(holders(k))
  BY DEF TypeOK, Slot, WaiterAccounting
<1>1. CASE slots[k].outstanding = 1
  <2>1. PICK u : holders(k) = {u}
    BY <1>0, <1>1, HoldersFinite, FS_Singleton
  <2>2. \A v \in Waiter : ticket[v] = k => v = w
    BY <2>1 DEF holders
  <2> QED
    BY <1>1, <2>2 DEF release, remove
<1>2. CASE slots[k].outstanding # 1
  BY <1>0, <1>2 DEF release
<1> QED
  BY <1>1, <1>2

LEMMA ReleasePreservesIInv ==
  ASSUME IInv, NEW w \in Waiter, NEW k \in DOMAIN slots, ticket[w] = k,
         slots' = release(slots, k),
         next_id' = next_id,
         ticket' = [ticket EXCEPT ![w] = NoId],
         got' \in [Waiter -> Event \cup {NoReply}]
  PROVE  IInv'
<1> USE DEF IInv
<1>0. DOMAIN slots \subseteq Nat /\ k \in Nat /\ k # NoId
  BY WaiterAssumption, SentinelsAreFresh DEF TypeOK
<1>1. /\ holders(k)' = holders(k) \ {w}
      /\ Cardinality(holders(k)') = Cardinality(holders(k)) - 1
      /\ \A i \in Nat : i # k => holders(i)' = holders(i)
  BY <1>0, HoldersAfterLeave
<1>2. ticket' \in [Waiter -> Nat \cup {NoId}]
  BY DEF TypeOK
<1>3. CASE /\ slots[k].outstanding = 1
           /\ slots' = [i \in DOMAIN slots \ {k} |-> slots[i]]
           /\ \A v \in Waiter : ticket[v] = k => v = w
  <2>1. /\ DOMAIN slots' = DOMAIN slots \ {k}
        /\ \A i \in DOMAIN slots' : slots'[i] = slots[i]
    BY <1>3
  <2>2. TypeOK'
    BY <1>2, <1>3, <2>1 DEF TypeOK
  <2>3. PairwiseDistinct'
    BY <2>1 DEF PairwiseDistinct, distinguishes
  <2>4. \A v \in Waiter : ticket'[v] # NoId => ticket'[v] \in DOMAIN slots'
    BY <1>3, <2>1 DEF WaiterAccounting, TypeOK
  <2>5. \A i \in DOMAIN slots' : slots'[i].outstanding = Cardinality(holders(i)')
    <3>1. SUFFICES ASSUME NEW i \in DOMAIN slots'
                   PROVE  slots'[i].outstanding = Cardinality(holders(i)')
      OBVIOUS
    <3>2. holders(i)' = holders(i) /\ slots[i].outstanding = Cardinality(holders(i))
      BY <1>0, <1>1, <2>1 DEF WaiterAccounting
    <3> QED
      BY <2>1, <3>2
  <2>6. RepliesMatch'
    BY <2>1 DEF RepliesMatch, is_completed
  <2> QED
    BY <2>2, <2>3, <2>4, <2>5, <2>6 DEF WaiterAccounting
<1>4. CASE /\ slots[k].outstanding - 1 \in Nat \ {0}
           /\ slots' = [slots EXCEPT ![k].outstanding = @ - 1]
  <2>1. /\ DOMAIN slots' = DOMAIN slots
        /\ slots[k] \in Slot
        /\ slots'[k] = [slots[k] EXCEPT !.outstanding = @ - 1]
        /\ \A i \in DOMAIN slots : i # k => slots'[i] = slots[i]
    BY <1>4 DEF TypeOK
  <2>2. /\ slots'[k] \in Slot
        /\ slots'[k].expectation = slots[k].expectation
        /\ slots'[k].reply = slots[k].reply
        /\ slots'[k].outstanding = slots[k].outstanding - 1
    BY <1>4, <2>1 DEF Slot
  <2>8. \A i \in DOMAIN slots : /\ slots'[i].expectation = slots[i].expectation
                                /\ slots'[i].reply = slots[i].reply
    BY <2>1, <2>2
  <2>3. TypeOK'
    <3>1. slots' \in [DOMAIN slots' -> Slot]
      BY <1>4, <2>1, <2>2 DEF TypeOK
    <3> QED
      BY <1>2, <2>1, <3>1 DEF TypeOK
  <2>4. PairwiseDistinct'
    BY <2>1, <2>8 DEF PairwiseDistinct, distinguishes
  <2>5. \A v \in Waiter : ticket'[v] # NoId => ticket'[v] \in DOMAIN slots'
    BY <2>1 DEF WaiterAccounting, TypeOK
  <2>6. \A i \in DOMAIN slots' : slots'[i].outstanding = Cardinality(holders(i)')
    <3>1. SUFFICES ASSUME NEW i \in DOMAIN slots'
                   PROVE  slots'[i].outstanding = Cardinality(holders(i)')
      OBVIOUS
    <3>2. i \in Nat /\ slots[i].outstanding = Cardinality(holders(i))
      BY <1>0, <2>1 DEF WaiterAccounting
    <3>3. CASE i = k
      BY <1>1, <2>2, <3>2, <3>3
    <3>4. CASE i # k
      BY <1>1, <2>1, <3>2, <3>4
    <3> QED
      BY <3>3, <3>4
  <2>7. RepliesMatch'
    BY <2>1, <2>8 DEF RepliesMatch, is_completed
  <2> QED
    BY <2>3, <2>4, <2>5, <2>6, <2>7 DEF WaiterAccounting
<1> QED
  BY <1>3, <1>4, ReleaseEffect

(***************************************************************************)
(* take_reply and resolve are that release, for the waiter's own id.       *)
(***************************************************************************)
LEMMA LeaveEffect ==
  ASSUME IInv, NEW w \in Waiter, TakeReply(w) \/ Resolve(w)
  PROVE  /\ ticket[w] \in DOMAIN slots
         /\ slots' = release(slots, ticket[w])
         /\ next_id' = next_id
         /\ ticket' = [ticket EXCEPT ![w] = NoId]
         /\ \/ TakeReply(w) /\ slots[ticket[w]].reply # NoReply
               /\ got' = [got EXCEPT ![w] = slots[ticket[w]].reply]
            \/ Resolve(w) /\ got' = [got EXCEPT ![w] = NoReply]
<1>1. ticket[w] # NoId
  BY DEF TakeReply, Resolve
<1>2. ticket[w] \in DOMAIN slots
  BY <1>1 DEF IInv, WaiterAccounting
<1>3. CASE TakeReply(w)
  BY <1>2, <1>3 DEF TakeReply, take_reply, taken_reply, is_completed
<1>4. CASE Resolve(w)
  BY <1>2, <1>4 DEF Resolve, resolve
<1> QED
  BY <1>2, <1>3, <1>4

LEMMA LeavePreservesIInv ==
  ASSUME IInv, NEW w \in Waiter, TakeReply(w) \/ Resolve(w)
  PROVE  IInv'
<1>1. PICK k \in DOMAIN slots : ticket[w] = k
  BY LeaveEffect
<1>2. slots[k].reply \in Event \cup {NoReply}
  BY DEF IInv, TypeOK, Slot
<1>3. got' \in [Waiter -> Event \cup {NoReply}]
  BY <1>1, <1>2, LeaveEffect DEF IInv, TypeOK
<1> QED
  BY <1>1, <1>3, LeaveEffect, ReleasePreservesIInv

LEMMA NextPreservesIInv == IInv /\ [Next]_vars => IInv'
<1> SUFFICES ASSUME IInv, [Next]_vars PROVE IInv'
  OBVIOUS
<1>1. CASE UNCHANGED vars
  BY <1>1 DEF vars, IInv, TypeOK, PairwiseDistinct, WaiterAccounting, RepliesMatch, holders
<1>2. ASSUME NEW w \in Waiter, NEW e \in Expectation, Register(w, e) PROVE IInv'
  BY <1>2, RegisterPreservesIInv
<1>3. ASSUME NEW ev \in Event, Feed(ev) PROVE IInv'
  BY <1>3, FeedPreservesIInv
<1>4. ASSUME NEW w \in Waiter, TakeReply(w) \/ Resolve(w) PROVE IInv'
  BY <1>4, LeavePreservesIInv
<1> QED
  BY <1>1, <1>2, <1>3, <1>4 DEF Next

(***************************************************************************)
(* IInv is an invariant of the correlator.                                 *)
(***************************************************************************)
THEOREM InductiveInvariant == Spec => []IInv
  BY InitIInv, NextPreservesIInv, PTL DEF Spec

(***************************************************************************)
(* register, feed, take_reply and resolve keep the slots well formed.      *)
(***************************************************************************)
THEOREM TypeCorrect == Spec => []TypeOK
<1>1. IInv => TypeOK
  BY DEF IInv
<1> QED
  BY <1>1, InductiveInvariant, PTL

(***************************************************************************)
(* No two tracked expectations can be completed by the same event.         *)
(***************************************************************************)
THEOREM ExpectationsStayDistinct == Spec => []PairwiseDistinct
<1>1. IInv => PairwiseDistinct
  BY DEF IInv
<1> QED
  BY <1>1, InductiveInvariant, PTL

(***************************************************************************)
(* A slot counts exactly the waiters that hold its id.                     *)
(***************************************************************************)
THEOREM WaitersAreCounted == Spec => []WaiterAccounting
<1>1. IInv => WaiterAccounting
  BY DEF IInv
<1> QED
  BY <1>1, InductiveInvariant, PTL

-----------------------------------------------------------------------------
(***************************************************************************)
(* The held reply, and the refinement.                                     *)
(***************************************************************************)
LEMMA SlotHasAWaiter ==
  ASSUME IInv, NEW k \in DOMAIN slots
  PROVE  \E w \in Waiter : ticket[w] = k
<1>1. Cardinality(holders(k)) # 0
  BY DEF IInv, TypeOK, Slot, WaiterAccounting
<1>2. holders(k) # {}
  BY <1>1, FS_EmptySet
<1> QED
  BY <1>2 DEF holders

(***************************************************************************)
(* What a waiter without a slot looks like in the abstract specification.  *)
(***************************************************************************)
LEMMA IdleOrTracked ==
  ASSUME IInv, NEW w \in Waiter
  PROVE  \/ /\ ticket[w] = NoId /\ ticket[w] \notin DOMAIN slots
            /\ wants[w] = NoExpectation /\ answer[w] = NoReply
         \/ /\ ticket[w] # NoId /\ ticket[w] \in DOMAIN slots
            /\ slots[ticket[w]] \in Slot
            /\ wants[w] = slots[ticket[w]].expectation
            /\ wants[w] \in Expectation /\ wants[w] # NoExpectation
            /\ answer[w] = slots[ticket[w]].reply
<1>1. NoId \notin DOMAIN slots
  BY WaiterAssumption, SentinelsAreFresh DEF IInv, TypeOK
<1>2. CASE ticket[w] = NoId
  BY <1>1, <1>2 DEF wants, answer
<1>3. CASE ticket[w] # NoId
  <2>1. ticket[w] \in DOMAIN slots /\ slots[ticket[w]] \in Slot
    BY <1>3 DEF IInv, TypeOK, WaiterAccounting
  <2> QED
    BY <1>3, <2>1, WaiterAssumption DEF wants, answer, Slot
<1> QED
  BY <1>2, <1>3

LEMMA RegisterImplementsAsk ==
  ASSUME IInv, NEW w \in Waiter, NEW e \in Expectation, Register(w, e)
  PROVE  Abstract!Ask(w, e)
<1> DEFINE id == register_id(slots, next_id, e)
           fresh == [expectation |-> e, outstanding |-> 1, reply |-> NoReply]
<1>0. /\ ticket[w] = NoId
      /\ slots' = register(slots, next_id, e)
      /\ ticket' = [ticket EXCEPT ![w] = id]
      /\ got' = got
  BY DEF Register
<1>1. wants[w] = NoExpectation
  BY <1>0, IdleOrTracked
<1>2. /\ DOMAIN slots \subseteq Nat /\ next_id \in Nat
      /\ NoId \notin DOMAIN slots /\ NoId # next_id /\ e # NoExpectation
  BY WaiterAssumption, SentinelsAreFresh DEF IInv, TypeOK
<1>3. ticket'[w] = id /\ \A v \in Waiter : v # w => ticket'[v] = ticket[v]
  BY <1>0 DEF IInv, TypeOK
<1>4. CASE /\ \A i \in DOMAIN slots : slots[i].expectation # e
           /\ id = next_id
           /\ next_id \notin DOMAIN slots
           /\ DOMAIN slots' = DOMAIN slots \cup {next_id}
           /\ slots'[next_id] = fresh
           /\ \A i \in DOMAIN slots : slots'[i] = slots[i]
  <2>1. wants' = [wants EXCEPT ![w] = e] /\ answer' = [answer EXCEPT ![w] = NoReply]
    <3>1. /\ ticket'[w] \in DOMAIN slots'
          /\ slots'[ticket'[w]].expectation = e
          /\ slots'[ticket'[w]].reply = NoReply
      BY <1>3, <1>4
    <3>2. ASSUME NEW v \in Waiter, v # w
          PROVE  /\ ticket'[v] \in DOMAIN slots' <=> ticket[v] \in DOMAIN slots
                 /\ ticket[v] \in DOMAIN slots => slots'[ticket'[v]] = slots[ticket[v]]
      BY <1>2, <1>3, <1>4, <3>2, IdleOrTracked
    <3> QED
      BY <3>1, <3>2 DEF wants, answer
  <2>2. \A v \in Waiter : wants[v] # e
    BY <1>2, <1>4, IdleOrTracked
  <2> QED
    BY <1>0, <1>1, <2>1, <2>2 DEF Abstract!Ask
<1>5. CASE /\ id \in DOMAIN slots
           /\ slots[id].expectation = e
           /\ slots' = [slots EXCEPT ![id].outstanding = @ + 1]
  <2> DEFINE r == slots[id].reply
  <2>0. slots[id] \in Slot
    BY <1>5 DEF IInv, TypeOK
  <2>1. /\ DOMAIN slots' = DOMAIN slots
        /\ \A i \in DOMAIN slots : /\ slots'[i].expectation = slots[i].expectation
                                   /\ slots'[i].reply = slots[i].reply
    BY <1>5, <2>0 DEF IInv, TypeOK, Slot
  <2>2. wants' = [wants EXCEPT ![w] = e] /\ answer' = [answer EXCEPT ![w] = r]
    <3>1. /\ ticket'[w] \in DOMAIN slots'
          /\ slots'[ticket'[w]].expectation = e
          /\ slots'[ticket'[w]].reply = r
      BY <1>3, <1>5, <2>1
    <3>2. ASSUME NEW v \in Waiter, v # w
          PROVE  /\ ticket'[v] \in DOMAIN slots' <=> ticket[v] \in DOMAIN slots
                 /\ ticket[v] \in DOMAIN slots =>
                      /\ slots'[ticket'[v]].expectation = slots[ticket[v]].expectation
                      /\ slots'[ticket'[v]].reply = slots[ticket[v]].reply
      BY <1>3, <2>1, <3>2
    <3> QED
      BY <3>1, <3>2 DEF wants, answer
  <2>3. r \in Event \cup {NoReply}
    BY <2>0 DEF Slot
  <2>4. \A v \in Waiter : wants[v] = e => answer[v] = r
    <3>1. SUFFICES ASSUME NEW v \in Waiter, wants[v] = e PROVE answer[v] = r
      OBVIOUS
    <3>2. /\ ticket[v] \in DOMAIN slots /\ slots[ticket[v]].expectation = e
          /\ answer[v] = slots[ticket[v]].reply
      BY <1>2, <3>1, IdleOrTracked
    <3>3. ticket[v] = id
      BY <1>5, <3>2 DEF IInv, PairwiseDistinct, distinguishes
    <3> QED
      BY <3>2, <3>3
  <2>5. \E v \in Waiter : wants[v] = e
    <3>1. PICK v \in Waiter : ticket[v] = id
      BY <1>5, SlotHasAWaiter
    <3> QED
      BY <1>5, <3>1 DEF wants
  <2> QED
    BY <1>0, <1>1, <2>2, <2>3, <2>4, <2>5 DEF Abstract!Ask
<1> QED
  BY <1>0, <1>4, <1>5, RegisterEffect DEF IInv

LEMMA FeedImplementsDeliver ==
  ASSUME IInv, NEW ev \in Event, Feed(ev)
  PROVE  Abstract!Deliver(ev) \/ UNCHANGED Abstract!vars
<1>0. slots' = feed(slots, ev) /\ ticket' = ticket /\ got' = got
  BY DEF Feed
<1>1. CASE feed(slots, ev) = slots
  BY <1>0, <1>1 DEF Abstract!vars, wants, answer
<1>2. ASSUME NEW k \in DOMAIN slots,
             slots[k].reply = NoReply,
             match_event(slots[k].expectation, ev),
             matching(slots, ev) = {k},
             slots' = [slots EXCEPT ![k].reply = ev]
      PROVE  Abstract!Deliver(ev)
  <2>0. slots[k] \in Slot
    BY DEF IInv, TypeOK
  <2>1. /\ DOMAIN slots' = DOMAIN slots
        /\ slots'[k].expectation = slots[k].expectation
        /\ slots'[k].reply = ev
        /\ \A i \in DOMAIN slots : i # k => slots'[i] = slots[i]
    BY <1>2, <2>0 DEF IInv, TypeOK, Slot
  <2>2. \E w \in Waiter : answer[w] = NoReply /\ <<wants[w], ev>> \in Matches
    <3>1. PICK w \in Waiter : ticket[w] = k
      BY SlotHasAWaiter
    <3> QED
      BY <1>2, <3>1 DEF wants, answer, match_event
  <2>3. wants' = wants
    BY <1>0, <2>1 DEF wants
  <2>4. ASSUME NEW w \in Waiter
        PROVE  answer'[w] = IF answer[w] = NoReply /\ <<wants[w], ev>> \in Matches
                            THEN ev ELSE answer[w]
    <3>1. CASE ticket[w] = k
      BY <1>0, <1>2, <2>1, <3>1 DEF wants, answer, match_event
    <3>2. CASE ticket[w] # k
      <4>1. answer'[w] = answer[w]
        BY <1>0, <2>1, <3>2 DEF answer
      <4>2. ~ (answer[w] = NoReply /\ <<wants[w], ev>> \in Matches)
        <5>1. SUFFICES ASSUME answer[w] = NoReply, <<wants[w], ev>> \in Matches
                       PROVE  FALSE
          OBVIOUS
        <5>2. wants[w] \in Expectation
          BY <5>1, MatchersDisjoint
        <5>3. /\ ticket[w] \in DOMAIN slots
              /\ slots[ticket[w]].reply = NoReply
              /\ match_event(slots[ticket[w]].expectation, ev)
          BY <5>1, <5>2, IdleOrTracked, WaiterAssumption DEF match_event
        <5>4. ticket[w] \in matching(slots, ev)
          BY <5>3 DEF matching, is_completed
        <5> QED
          BY <1>2, <3>2, <5>4
      <4> QED
        BY <4>1, <4>2
    <3> QED
      BY <3>1, <3>2
  <2>5. answer' = [ w \in Waiter |->
                      IF answer[w] = NoReply /\ <<wants[w], ev>> \in Matches
                      THEN ev ELSE answer[w] ]
    BY <2>4 DEF answer
  <2> QED
    BY <1>0, <2>2, <2>3, <2>5 DEF Abstract!Deliver
<1> QED
  BY <1>0, <1>1, <1>2, FeedEffect DEF IInv

LEMMA LeaveImplementsLeave ==
  ASSUME IInv, NEW w \in Waiter, TakeReply(w) \/ Resolve(w)
  PROVE  Abstract!Receive(w) \/ Abstract!GiveUp(w)
<1>0. PICK k \in DOMAIN slots : ticket[w] = k
  BY LeaveEffect
<1>1. /\ slots' = release(slots, k)
      /\ ticket' = [ticket EXCEPT ![w] = NoId]
  BY <1>0, LeaveEffect
<1>2. /\ wants[w] # NoExpectation
      /\ answer[w] = slots[k].reply
      /\ NoId \notin DOMAIN slots
  BY <1>0, IdleOrTracked, SentinelsAreFresh, WaiterAssumption DEF IInv, TypeOK
<1>3. /\ NoId \notin DOMAIN slots'
      /\ \A v \in Waiter : ticket[v] \in DOMAIN slots /\ v # w =>
            /\ ticket[v] \in DOMAIN slots'
            /\ slots'[ticket[v]].expectation = slots[ticket[v]].expectation
            /\ slots'[ticket[v]].reply = slots[ticket[v]].reply
      /\ DOMAIN slots' \subseteq DOMAIN slots
  <2>1. CASE /\ slots' = [i \in DOMAIN slots \ {k} |-> slots[i]]
             /\ \A v \in Waiter : ticket[v] = k => v = w
    BY <1>2, <2>1
  <2>2. CASE slots' = [slots EXCEPT ![k].outstanding = @ - 1]
    <3>1. slots[k] \in Slot
      BY DEF IInv, TypeOK
    <3> QED
      BY <1>2, <2>2, <3>1 DEF IInv, TypeOK, Slot
  <2> QED
    BY <1>0, <1>1, <2>1, <2>2, ReleaseEffect
<1>4. wants' = [wants EXCEPT ![w] = NoExpectation] /\ answer' = [answer EXCEPT ![w] = NoReply]
  <2>1. ticket'[w] = NoId /\ \A v \in Waiter : v # w => ticket'[v] = ticket[v]
    BY <1>1 DEF IInv, TypeOK
  <2>2. ASSUME NEW v \in Waiter, v # w
        PROVE  wants'[v] = wants[v] /\ answer'[v] = answer[v]
    BY <1>3, <2>1, <2>2 DEF wants, answer
  <2>3. wants'[w] = NoExpectation /\ answer'[w] = NoReply
    BY <1>3, <2>1 DEF wants, answer
  <2> QED
    BY <2>2, <2>3 DEF wants, answer
<1>5. \/ slots[k].reply # NoReply /\ got' = [got EXCEPT ![w] = slots[k].reply]
      \/ got' = [got EXCEPT ![w] = NoReply]
  BY <1>0, LeaveEffect
<1> QED
  BY <1>2, <1>4, <1>5 DEF Abstract!Receive, Abstract!GiveUp, Abstract!Leave

(***************************************************************************)
(* The correlator implements SharedReply.                                  *)
(***************************************************************************)
THEOREM Refinement == Spec => ImplementsSharedReply
<1>1. Init => Abstract!Init
  BY DEF Init, Abstract!Init, wants, answer
<1>2. IInv /\ [Next]_vars => [Abstract!Next]_(Abstract!vars)
  <2> SUFFICES ASSUME IInv, [Next]_vars PROVE [Abstract!Next]_(Abstract!vars)
    OBVIOUS
  <2>1. CASE UNCHANGED vars
    BY <2>1 DEF vars, Abstract!vars, wants, answer
  <2>2. ASSUME NEW w \in Waiter, NEW e \in Expectation, Register(w, e)
        PROVE  Abstract!Next
    BY <2>2, RegisterImplementsAsk DEF Abstract!Next
  <2>3. ASSUME NEW ev \in Event, Feed(ev)
        PROVE  [Abstract!Next]_(Abstract!vars)
    BY <2>3, FeedImplementsDeliver DEF Abstract!Next
  <2>4. ASSUME NEW w \in Waiter, TakeReply(w) \/ Resolve(w)
        PROVE  Abstract!Next
    BY <2>4, LeaveImplementsLeave DEF Abstract!Next
  <2> QED
    BY <2>1, <2>2, <2>3, <2>4 DEF Next
<1> QED
  BY <1>1, <1>2, InductiveInvariant, PTL DEF Spec, ImplementsSharedReply, Abstract!Spec

(***************************************************************************)
(* A held reply is neither replaced nor freed under a waiter.              *)
(***************************************************************************)
THEOREM HeldRepliesAreStable == Spec => HeldReplyIsStable
<1> DEFINE Stable ==
      \A i \in DOMAIN slots : is_completed(slots, i) =>
         \/ i \in DOMAIN slots' /\ slots'[i].reply = slots[i].reply
         \/ \A w \in Waiter : ticket'[w] # i
<1>1. IInv /\ [Next]_vars => [Stable]_vars
  <2> SUFFICES ASSUME IInv, Next PROVE Stable
    OBVIOUS
  <2>1. ASSUME NEW w \in Waiter, NEW e \in Expectation, Register(w, e) PROVE Stable
    <3>1. \A i \in DOMAIN slots : i \in DOMAIN slots' /\ slots'[i].reply = slots[i].reply
      <4>1. slots' = register(slots, next_id, e)
        BY <2>1 DEF Register
      <4> DEFINE id == register_id(slots, next_id, e)
      <4>2. CASE /\ DOMAIN slots' = DOMAIN slots \cup {next_id}
                 /\ \A i \in DOMAIN slots : slots'[i] = slots[i]
        BY <4>2
      <4>3. CASE /\ id \in DOMAIN slots
                 /\ slots' = [slots EXCEPT ![id].outstanding = @ + 1]
        <5>1. slots[id] \in Slot
          BY <4>3 DEF IInv, TypeOK
        <5> QED
          BY <4>3, <5>1 DEF Slot
      <4> QED
        BY <4>1, <4>2, <4>3, RegisterEffect DEF IInv
    <3> QED
      BY <3>1
  <2>2. ASSUME NEW ev \in Event, Feed(ev) PROVE Stable
    <3>1. slots' = feed(slots, ev)
      BY <2>2 DEF Feed
    <3> QED
      BY <3>1, FeedEffect DEF IInv, is_completed
  <2>3. ASSUME NEW w \in Waiter, TakeReply(w) \/ Resolve(w) PROVE Stable
    <3>0. PICK k \in DOMAIN slots : ticket[w] = k
      BY <2>3, LeaveEffect
    <3>1. /\ slots' = release(slots, k)
          /\ ticket' = [ticket EXCEPT ![w] = NoId]
          /\ k # NoId
      BY <2>3, <3>0, LeaveEffect, SentinelsAreFresh, WaiterAssumption DEF IInv, TypeOK
    <3>2. CASE /\ slots' = [i \in DOMAIN slots \ {k} |-> slots[i]]
               /\ \A v \in Waiter : ticket[v] = k => v = w
      BY <3>1, <3>2 DEF IInv, TypeOK
    <3>3. CASE slots' = [slots EXCEPT ![k].outstanding = @ - 1]
      <4>1. slots[k] \in Slot
        BY DEF IInv, TypeOK
      <4> QED
        BY <3>3, <4>1 DEF Slot
    <3> QED
      BY <3>0, <3>1, <3>2, <3>3, ReleaseEffect
  <2> QED
    BY <2>1, <2>2, <2>3 DEF Next
<1> QED
  BY <1>1, InductiveInvariant, PTL DEF Spec, HeldReplyIsStable

=============================================================================
