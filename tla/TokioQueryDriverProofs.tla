----------------------- MODULE TokioQueryDriverProofs -----------------------
(***************************************************************************)
(* Theorems about TokioQueryDriver, for every probe bundle that ends in    *)
(* its fence, every set of queries and every bound: which expectations are *)
(* tracked, what becomes of typeahead and of resize reports, and to which  *)
(* request a reply goes.                                                   *)
(***************************************************************************)
EXTENDS TokioQueryDriver, SequenceTheorems, WellFoundedInduction, TLAPS

(***************************************************************************)
(* Counting up to N.                                                       *)
(***************************************************************************)
LEMMA LeastElement ==
  ASSUME NEW S \in SUBSET Nat, S # {}
  PROVE  \E n \in S : \A m \in S : n <= m
<1>1. PICK n \in S : \A m \in S : ~ (<<m, n>> \in OpToRel(<, Nat))
  BY NatLessThanWellFounded, WFMin
<1>2. \A m, k \in Nat : <<m, k>> \in OpToRel(<, Nat) <=> m < k
  BY DEF OpToRel
<1>3. \A m \in S : ~ (m < n)
  BY <1>1, <1>2
<1>4. \A m \in S : n <= m
  BY <1>3
<1> QED
  BY <1>4

LEMMA CountingUp ==
  ASSUME NEW N \in Nat, NEW P \in SUBSET (0 .. N),
         0 \in P, \A n \in 1 .. N : n - 1 \in P => n \in P
  PROVE  P = 0 .. N
<1> SUFFICES ASSUME P # 0 .. N PROVE FALSE
  OBVIOUS
<1> DEFINE S == (0 .. N) \ P
<1>1. S \in SUBSET Nat /\ S # {}
  <2>1. PICK x \in 0 .. N : x \notin P
    OBVIOUS
  <2>2. x \in S
    BY <2>1
  <2> QED  BY <2>2
<1>2. PICK n \in S : \A m \in S : n <= m
  <2> HIDE DEF S
  <2> QED  BY <1>1, LeastElement
<1>3. n \in 1 .. N /\ n \notin P
  BY <1>2
<1>4. n - 1 \notin P
  BY <1>3
<1>5. n - 1 \in S
  BY <1>3, <1>4
<1> QED
  BY <1>2, <1>3, <1>5

(***************************************************************************)
(* The loops do what their bodies say: each has a run, and its result is   *)
(* where the run ends.                                                     *)
(***************************************************************************)
LEMMA ResolveAllRuns ==
  ASSUME NEW tracked, NEW ids, Len(ids) \in Nat
  PROVE  \E f : /\ f[0] = tracked
                /\ \A n \in 1 .. Len(ids) : f[n] = resolve(f[n - 1], ids[n])
                /\ resolve_all(tracked, ids) = f[Len(ids)]
<1> DEFINE N == Len(ids)
           b == tracked
           E(f, m) == f = [n \in 0 .. m |-> IF n = 0 THEN b
                                            ELSE resolve(f[n - 1], ids[n])]
           P == {m \in 0 .. N : \E f : E(f, m)}
<1> HIDE DEF b
<1>1. 0 \in P
  <2>1. E([n \in 0 .. 0 |-> b], 0)
    OBVIOUS
  <2> HIDE DEF E
  <2> QED  BY <2>1
<1>2. ASSUME NEW m \in 1 .. N, m - 1 \in P
      PROVE  m \in P
  <2>1. PICK f : E(f, m - 1)
    BY <1>2
  <2> DEFINE g == [n \in 0 .. m |-> IF n = m THEN resolve(f[m - 1], ids[m]) ELSE f[n]]
  <2>2. E(g, m)
    <3>1. ASSUME NEW n \in 0 .. m
          PROVE  g[n] = IF n = 0 THEN b ELSE resolve(g[n - 1], ids[n])
      BY <2>1
    <3> QED  BY <3>1
  <2> HIDE DEF E
  <2> QED  BY <2>2
<1>3. P = 0 .. N
  <2>1. P \in SUBSET (0 .. N)
    OBVIOUS
  <2> HIDE DEF P
  <2> QED  BY <1>1, <1>2, <2>1, CountingUp
<1>4. \E f : E(f, N)
  <2> HIDE DEF E
  <2> QED  BY <1>3
<1> DEFINE f == CHOOSE f : E(f, N)
<1>5. E(f, N)
  <2> HIDE DEF E
  <2> QED  BY <1>4
<1>6. resolve_all(tracked, ids) = f[N]
  BY DEF resolve_all, b
<1>7. f[0] = b /\ \A n \in 1 .. N : f[n] = resolve(f[n - 1], ids[n])
  <2> HIDE DEF f
  <2> QED  BY <1>5
<1> QED
  BY <1>6, <1>7 DEF b

LEMMA RegisterAllRuns ==
  ASSUME NEW tracked, NEW exps, Len(exps) \in Nat
  PROVE  \E f : /\ f[0] = [slots |-> tracked, next_id |-> next_id, ids |-> <<>>]
                /\ \A n \in 1 .. Len(exps) : f[n] = register_next(f[n - 1], exps[n])
                /\ register_all(tracked, exps) = f[Len(exps)]
<1> DEFINE N == Len(exps)
           b == [slots |-> tracked, next_id |-> next_id, ids |-> <<>>]
           E(f, m) == f = [n \in 0 .. m |-> IF n = 0 THEN b
                                            ELSE register_next(f[n - 1], exps[n])]
           P == {m \in 0 .. N : \E f : E(f, m)}
<1> HIDE DEF b
<1>1. 0 \in P
  <2>1. E([n \in 0 .. 0 |-> b], 0)
    OBVIOUS
  <2> HIDE DEF E
  <2> QED  BY <2>1
<1>2. ASSUME NEW m \in 1 .. N, m - 1 \in P
      PROVE  m \in P
  <2>1. PICK f : E(f, m - 1)
    BY <1>2
  <2> DEFINE g == [n \in 0 .. m |-> IF n = m THEN register_next(f[m - 1], exps[m]) ELSE f[n]]
  <2>2. E(g, m)
    <3>1. ASSUME NEW n \in 0 .. m
          PROVE  g[n] = IF n = 0 THEN b ELSE register_next(g[n - 1], exps[n])
      BY <2>1
    <3> QED  BY <3>1
  <2> HIDE DEF E
  <2> QED  BY <2>2
<1>3. P = 0 .. N
  <2>1. P \in SUBSET (0 .. N)
    OBVIOUS
  <2> HIDE DEF P
  <2> QED  BY <1>1, <1>2, <2>1, CountingUp
<1>4. \E f : E(f, N)
  <2> HIDE DEF E
  <2> QED  BY <1>3
<1> DEFINE f == CHOOSE f : E(f, N)
<1>5. E(f, N)
  <2> HIDE DEF E
  <2> QED  BY <1>4
<1>6. register_all(tracked, exps) = f[N]
  BY DEF register_all, b
<1>7. f[0] = b /\ \A n \in 1 .. N : f[n] = register_next(f[n - 1], exps[n])
  <2> HIDE DEF f
  <2> QED  BY <1>5
<1> QED
  BY <1>6, <1>7 DEF b

LEMMA QueryRuns ==
  ASSUME NEW tracked, NEW id, NEW events, Len(events) \in Nat
  PROVE  \E f : /\ f[0] = [slots |-> tracked, kept |-> <<>>, reply |-> NoReply]
                /\ \A n \in 1 .. Len(events) : f[n] = query_feeds(f[n - 1], id, events[n])
                /\ feed_into_query(tracked, id, events) = f[Len(events)]
<1> DEFINE N == Len(events)
           b == [slots |-> tracked, kept |-> <<>>, reply |-> NoReply]
           E(f, m) == f = [n \in 0 .. m |-> IF n = 0 THEN b
                                            ELSE query_feeds(f[n - 1], id, events[n])]
           P == {m \in 0 .. N : \E f : E(f, m)}
<1> HIDE DEF b
<1>1. 0 \in P
  <2>1. E([n \in 0 .. 0 |-> b], 0)
    OBVIOUS
  <2> HIDE DEF E
  <2> QED  BY <2>1
<1>2. ASSUME NEW m \in 1 .. N, m - 1 \in P
      PROVE  m \in P
  <2>1. PICK f : E(f, m - 1)
    BY <1>2
  <2> DEFINE g == [n \in 0 .. m |-> IF n = m THEN query_feeds(f[m - 1], id, events[m]) ELSE f[n]]
  <2>2. E(g, m)
    <3>1. ASSUME NEW n \in 0 .. m
          PROVE  g[n] = IF n = 0 THEN b ELSE query_feeds(g[n - 1], id, events[n])
      BY <2>1
    <3> QED  BY <3>1
  <2> HIDE DEF E
  <2> QED  BY <2>2
<1>3. P = 0 .. N
  <2>1. P \in SUBSET (0 .. N)
    OBVIOUS
  <2> HIDE DEF P
  <2> QED  BY <1>1, <1>2, <2>1, CountingUp
<1>4. \E f : E(f, N)
  <2> HIDE DEF E
  <2> QED  BY <1>3
<1> DEFINE f == CHOOSE f : E(f, N)
<1>5. E(f, N)
  <2> HIDE DEF E
  <2> QED  BY <1>4
<1>6. feed_into_query(tracked, id, events) = f[N]
  BY DEF feed_into_query, b
<1>7. f[0] = b /\ \A n \in 1 .. N : f[n] = query_feeds(f[n - 1], id, events[n])
  <2> HIDE DEF f
  <2> QED  BY <1>5
<1> QED
  BY <1>6, <1>7 DEF b

bundle_start(tracked, found) == [slots |-> tracked, kept |-> <<>>, got |-> found, fenced |-> FALSE]

LEMMA BundleRuns ==
  ASSUME NEW tracked, NEW ids, NEW found, NEW events, Len(events) \in Nat
  PROVE  \E f : /\ f[0] = bundle_start(tracked, found)
                /\ \A n \in 1 .. Len(events) : f[n] = bundle_feeds(f[n - 1], ids, events[n])
                /\ feed_into_bundle(tracked, ids, found, events) = f[Len(events)]
<1> DEFINE N == Len(events)
           b == bundle_start(tracked, found)
           E(f, m) == f = [n \in 0 .. m |-> IF n = 0 THEN b
                                            ELSE bundle_feeds(f[n - 1], ids, events[n])]
           P == {m \in 0 .. N : \E f : E(f, m)}
<1> HIDE DEF b
<1>1. 0 \in P
  <2>1. E([n \in 0 .. 0 |-> b], 0)
    OBVIOUS
  <2> HIDE DEF E
  <2> QED  BY <2>1
<1>2. ASSUME NEW m \in 1 .. N, m - 1 \in P
      PROVE  m \in P
  <2>1. PICK f : E(f, m - 1)
    BY <1>2
  <2> DEFINE g == [n \in 0 .. m |-> IF n = m THEN bundle_feeds(f[m - 1], ids, events[m]) ELSE f[n]]
  <2>2. E(g, m)
    <3>1. ASSUME NEW n \in 0 .. m
          PROVE  g[n] = IF n = 0 THEN b ELSE bundle_feeds(g[n - 1], ids, events[n])
      BY <2>1
    <3> QED  BY <3>1
  <2> HIDE DEF E
  <2> QED  BY <2>2
<1>3. P = 0 .. N
  <2>1. P \in SUBSET (0 .. N)
    OBVIOUS
  <2> HIDE DEF P
  <2> QED  BY <1>1, <1>2, <2>1, CountingUp
<1>4. \E f : E(f, N)
  <2> HIDE DEF E
  <2> QED  BY <1>3
<1> DEFINE f == CHOOSE f : E(f, N)
<1>5. E(f, N)
  <2> HIDE DEF E
  <2> QED  BY <1>4
<1>6. feed_into_bundle(tracked, ids, found, events) = f[N]
  BY DEF feed_into_bundle, bundle_start, b
<1>7. f[0] = b /\ \A n \in 1 .. N : f[n] = bundle_feeds(f[n - 1], ids, events[n])
  <2> HIDE DEF f
  <2> QED  BY <1>5
<1> QED
  BY <1>6, <1>7 DEF b

LEMMA BufferRuns ==
  ASSUME NEW tracked, NEW events, Len(events) \in Nat
  PROVE  \E f : /\ f[0] = [slots |-> tracked, kept |-> <<>>]
                /\ \A n \in 1 .. Len(events) : f[n] = next_event_feeds(f[n - 1], events[n])
                /\ buffer_events(tracked, events) = f[Len(events)]
<1> DEFINE N == Len(events)
           b == [slots |-> tracked, kept |-> <<>>]
           E(f, m) == f = [n \in 0 .. m |-> IF n = 0 THEN b
                                            ELSE next_event_feeds(f[n - 1], events[n])]
           P == {m \in 0 .. N : \E f : E(f, m)}
<1> HIDE DEF b
<1>1. 0 \in P
  <2>1. E([n \in 0 .. 0 |-> b], 0)
    OBVIOUS
  <2> HIDE DEF E
  <2> QED  BY <2>1
<1>2. ASSUME NEW m \in 1 .. N, m - 1 \in P
      PROVE  m \in P
  <2>1. PICK f : E(f, m - 1)
    BY <1>2
  <2> DEFINE g == [n \in 0 .. m |-> IF n = m THEN next_event_feeds(f[m - 1], events[m]) ELSE f[n]]
  <2>2. E(g, m)
    <3>1. ASSUME NEW n \in 0 .. m
          PROVE  g[n] = IF n = 0 THEN b ELSE next_event_feeds(g[n - 1], events[n])
      BY <2>1
    <3> QED  BY <3>1
  <2> HIDE DEF E
  <2> QED  BY <2>2
<1>3. P = 0 .. N
  <2>1. P \in SUBSET (0 .. N)
    OBVIOUS
  <2> HIDE DEF P
  <2> QED  BY <1>1, <1>2, <2>1, CountingUp
<1>4. \E f : E(f, N)
  <2> HIDE DEF E
  <2> QED  BY <1>3
<1> DEFINE f == CHOOSE f : E(f, N)
<1>5. E(f, N)
  <2> HIDE DEF E
  <2> QED  BY <1>4
<1>6. buffer_events(tracked, events) = f[N]
  BY DEF buffer_events, b
<1>7. f[0] = b /\ \A n \in 1 .. N : f[n] = next_event_feeds(f[n - 1], events[n])
  <2> HIDE DEF f
  <2> QED  BY <1>5
<1> QED
  BY <1>6, <1>7 DEF b

-----------------------------------------------------------------------------
(***************************************************************************)
(* The bundle asks each query once, and its fence last.                    *)
(***************************************************************************)
LEMMA BundleAsksOnce ==
  /\ Bundle \in Seq(Expectation) /\ Len(Bundle) = Len(Optional) + 1
  /\ Len(Bundle) \in Nat \ {0} /\ Len(Optional) \in Nat
  /\ DOMAIN Bundle = 1 .. Len(Bundle)
  /\ \A i \in 1 .. Len(Bundle) : Bundle[i] \in Expectation
  /\ \A i, j \in 1 .. Len(Bundle) : Bundle[i] = Bundle[j] => i = j
  /\ \A i \in 1 .. Len(Bundle) : Bundle[i] = Fence <=> i = Len(Bundle)
<1>1. ToSet(Optional) \subseteq Expectation /\ Fence \in Expectation
  BY DEF Expectation
<1>2. Optional \in Seq(Expectation)
  BY <1>1, DriverAssumption, SeqMonotonic
<1>3. Bundle \in Seq(Expectation) /\ Len(Bundle) = Len(Optional) + 1
  BY <1>1, <1>2, AppendProperties DEF Bundle
<1>4. Len(Optional) \in Nat /\ DOMAIN Optional = 1 .. Len(Optional)
  BY <1>2, LenProperties
<1>5. \A i \in 1 .. Len(Optional) : Bundle[i] = Optional[i] /\ Optional[i] # Fence
  <2>1. \A i \in 1 .. Len(Optional) : Optional[i] \in ToSet(Optional)
    BY <1>4 DEF ToSet
  <2> QED
    BY <1>1, <1>2, <2>1, DriverAssumption, AppendProperties DEF Bundle
<1>6. Bundle[Len(Optional) + 1] = Fence
  BY <1>1, <1>2, AppendProperties DEF Bundle
<1>7. DOMAIN Bundle = 1 .. Len(Bundle) /\ \A i \in 1 .. Len(Bundle) : Bundle[i] \in Expectation
  BY <1>3, LenProperties, ElementOfSeq
<1>8. \A i \in 1 .. Len(Bundle) : i \in 1 .. Len(Optional) \/ i = Len(Optional) + 1
  BY <1>3, <1>4
<1>9. \A i, j \in 1 .. Len(Bundle) : Bundle[i] = Bundle[j] => i = j
  BY <1>4, <1>5, <1>6, <1>8, DriverAssumption
<1>10. \A i \in 1 .. Len(Bundle) : Bundle[i] = Fence <=> i = Len(Bundle)
  BY <1>3, <1>4, <1>5, <1>6, <1>8
<1> QED
  BY <1>3, <1>4, <1>7, <1>9, <1>10

(***************************************************************************)
(* Only a reply matches, and only the expectation it was sent for.         *)
(***************************************************************************)
LEMMA KindsOfEvents ==
  ASSUME NEW ev \in Event
  PROVE  /\ ev.kind \in {"key", "resize", "reply"}
         /\ ev.kind = "reply" <=> ev \in Reply
         /\ ev.kind = "reply" => ev.to \in Expectation /\ ev.n \in 0 .. MaxIds - 1
         /\ ev.kind = "key" => ev.n \in 1 .. MaxKeys
         /\ ev.kind = "resize" => ev.n \in 1 .. MaxResizes
<1>1. ASSUME ev \in Key PROVE ev.kind = "key" /\ ev.n \in 1 .. MaxKeys
  BY <1>1 DEF Key
<1>2. ASSUME ev \in Resize PROVE ev.kind = "resize" /\ ev.n \in 1 .. MaxResizes
  BY <1>2 DEF Resize
<1>3. ASSUME ev \in Reply PROVE ev.kind = "reply" /\ ev.to \in Expectation /\ ev.n \in 0 .. MaxIds - 1
  BY <1>3 DEF Reply
<1> QED
  BY <1>1, <1>2, <1>3 DEF Event

LEMMA OnlyItsReplyMatches ==
  ASSUME NEW ev \in Event, NEW e \in Expectation
  PROVE  match_event(e, ev) <=> ev.kind = "reply" /\ ev.to = e
  BY KindsOfEvents DEF match_event, Matches

-----------------------------------------------------------------------------
(***************************************************************************)
(* The correlator's operations, on the slots the drivers keep: a function  *)
(* on numbers, with one waiter each.                                       *)
(***************************************************************************)
Tracked(t) ==
  /\ DOMAIN t \subseteq Nat
  /\ t \in [DOMAIN t -> Slot]
  /\ \A i \in DOMAIN t : t[i].outstanding = 1

Without(t, ids) == [i \in DOMAIN t \ ids |-> t[i]]

fresh(e) == [expectation |-> e, outstanding |-> 1, reply |-> NoReply]

Added(t, id, e) == [i \in DOMAIN t \cup {id} |-> IF i = id THEN fresh(e) ELSE t[i]]

LEMMA FreshIsASlot ==
  ASSUME NEW e \in Expectation
  PROVE  /\ fresh(e) \in Slot /\ fresh(e).expectation = e
         /\ fresh(e).outstanding = 1 /\ fresh(e).reply = NoReply
  BY DEF fresh, Slot

LEMMA RegisterFresh ==
  ASSUME NEW t, NEW n, NEW e, n \notin DOMAIN t,
         \A i \in DOMAIN t : t[i].expectation # e
  PROVE  /\ register_id(t, n, e) = n
         /\ register(t, n, e) = Added(t, n, e)
<1>1. clashing(t, e) = {}
  BY DEF clashing, distinguishes
<1>2. register_id(t, n, e) = n
  BY <1>1 DEF register_id
<1> QED
  BY <1>2 DEF register, Added, fresh

LEMMA RegisterBundle ==
  ASSUME NEW t, DOMAIN t = {}, next_id \in Nat
  PROVE  register_all(t, Bundle) =
           [ slots   |-> [ i \in next_id .. next_id + Len(Bundle) - 1 |->
                             fresh(Bundle[i - next_id + 1]) ],
             next_id |-> next_id + Len(Bundle),
             ids     |-> [k \in 1 .. Len(Bundle) |-> next_id + k - 1] ]
<1> DEFINE N == Len(Bundle)
           S(n) == [i \in next_id .. next_id + n - 1 |-> fresh(Bundle[i - next_id + 1])]
           Ids(n) == [k \in 1 .. n |-> next_id + k - 1]
           R(n) == [slots |-> S(n), next_id |-> next_id + n, ids |-> Ids(n)]
<1>0. N \in Nat
  BY BundleAsksOnce
<1>1. PICK f : /\ f[0] = [slots |-> t, next_id |-> next_id, ids |-> <<>>]
               /\ \A n \in 1 .. N : f[n] = register_next(f[n - 1], Bundle[n])
               /\ register_all(t, Bundle) = f[N]
  BY <1>0, RegisterAllRuns
<1> DEFINE P == {n \in 0 .. N : f[n] = R(n)}
<1>2. 0 \in P
  <2>1. t = S(0)
    OBVIOUS
  <2>2. <<>> = Ids(0)
    OBVIOUS
  <2>3. f[0] = R(0)
    BY <1>1, <2>1, <2>2
  <2> QED  BY <1>0, <2>3
<1>3. ASSUME NEW n \in 1 .. N, n - 1 \in P
      PROVE  n \in P
  <2>1. f[n] = register_next(R(n - 1), Bundle[n])
    BY <1>1, <1>3
  <2> DEFINE id == next_id + n - 1
  <2>2. /\ R(n - 1).slots = S(n - 1) /\ R(n - 1).next_id = id /\ R(n - 1).ids = Ids(n - 1)
    OBVIOUS
  <2>3. id \notin DOMAIN S(n - 1)
    OBVIOUS
  <2>4. \A i \in DOMAIN S(n - 1) : S(n - 1)[i].expectation # Bundle[n]
    <3>1. SUFFICES ASSUME NEW i \in next_id .. next_id + n - 2
                   PROVE  fresh(Bundle[i - next_id + 1]).expectation # Bundle[n]
      OBVIOUS
    <3>2. i - next_id + 1 \in 1 .. N /\ i - next_id + 1 # n
      BY <1>0
    <3> QED
      BY <3>2, BundleAsksOnce, FreshIsASlot
  <2>5. /\ register_id(S(n - 1), id, Bundle[n]) = id
        /\ register(S(n - 1), id, Bundle[n]) = Added(S(n - 1), id, Bundle[n])
    <3> HIDE DEF S, id
    <3> QED  BY <2>3, <2>4, RegisterFresh
  <2>6. register(S(n - 1), id, Bundle[n]) = S(n)
    <3>1. DOMAIN S(n - 1) \cup {id} = DOMAIN S(n)
      OBVIOUS
    <3>2. \A i \in DOMAIN S(n) : S(n)[i] = IF i = id THEN fresh(Bundle[n]) ELSE S(n - 1)[i]
      OBVIOUS
    <3> QED
      BY <2>5, <3>1, <3>2 DEF Added
  <2>7. Append(Ids(n - 1), id) = Ids(n)
    <3>1. Ids(n - 1) \in Seq(Nat) /\ Ids(n) \in Seq(Nat) /\ id \in Nat
      OBVIOUS
    <3>2. Len(Ids(n - 1)) = n - 1 /\ Len(Ids(n)) = n
      OBVIOUS
    <3>3. \A k \in 1 .. n : Append(Ids(n - 1), id)[k] = Ids(n)[k]
      BY <3>1, <3>2
    <3> QED
      BY <3>1, <3>2, <3>3, AppendProperties, SeqEqual
  <2>8. register_next(R(n - 1), Bundle[n])
          = [slots |-> S(n), next_id |-> id + 1, ids |-> Ids(n)]
    <3> HIDE DEF S, Ids, R, id
    <3> QED  BY <2>2, <2>5, <2>6, <2>7 DEF register_next
  <2>9. id + 1 = next_id + n
    OBVIOUS
  <2> QED
    BY <2>1, <2>8, <2>9
<1>4. N \in P
  <2>1. P \in SUBSET (0 .. N)
    OBVIOUS
  <2>2. P = 0 .. N
    <3> HIDE DEF P
    <3> QED  BY <1>0, <1>2, <1>3, <2>1, CountingUp
  <2> HIDE DEF P
  <2> QED  BY <1>0, <2>2
<1> QED
  BY <1>1, <1>4

(***************************************************************************)
(* Resolving removes.                                                      *)
(***************************************************************************)
LEMMA ResolveRemoves ==
  ASSUME NEW t, Tracked(t), NEW id
  PROVE  resolve(t, id) = Without(t, {id})
<1>1. CASE id \in DOMAIN t
  BY <1>1 DEF resolve, release, remove, Without, Tracked
<1>2. CASE id \notin DOMAIN t
  <2>1. DOMAIN t \ {id} = DOMAIN t /\ t = [i \in DOMAIN t |-> t[i]]
    BY <1>2 DEF Tracked
  <2> QED
    BY <1>2, <2>1 DEF resolve, Without
<1> QED
  BY <1>1, <1>2

LEMMA WithoutIsTracked ==
  ASSUME NEW t, Tracked(t), NEW ids
  PROVE  Tracked(Without(t, ids)) /\ DOMAIN Without(t, ids) = DOMAIN t \ ids
         /\ \A i \in DOMAIN t \ ids : Without(t, ids)[i] = t[i]
  BY DEF Tracked, Without

LEMMA ResolveAllRemoves ==
  ASSUME NEW t, Tracked(t), NEW ids, Len(ids) \in Nat
  PROVE  resolve_all(t, ids) = Without(t, {ids[k] : k \in 1 .. Len(ids)})
<1> DEFINE N == Len(ids)
           Gone(n) == {ids[k] : k \in 1 .. n}
<1>1. PICK f : /\ f[0] = t
               /\ \A n \in 1 .. N : f[n] = resolve(f[n - 1], ids[n])
               /\ resolve_all(t, ids) = f[N]
  BY ResolveAllRuns
<1> DEFINE P == {n \in 0 .. N : f[n] = Without(t, Gone(n))}
<1>2. 0 \in P
  <2>1. DOMAIN t \ Gone(0) = DOMAIN t /\ t = [i \in DOMAIN t |-> t[i]]
    BY DEF Tracked
  <2> QED
    BY <1>1, <2>1 DEF Without
<1>3. ASSUME NEW n \in 1 .. N, n - 1 \in P
      PROVE  n \in P
  <2> DEFINE u == Without(t, Gone(n - 1))
  <2>1. f[n] = resolve(u, ids[n])
    BY <1>1, <1>3
  <2>2. f[n] = Without(u, {ids[n]})
    <3>1. Tracked(u)
      BY WithoutIsTracked
    <3> HIDE DEF u
    <3> QED  BY <2>1, <3>1, ResolveRemoves
  <2>3. Gone(n) = Gone(n - 1) \cup {ids[n]}
    OBVIOUS
  <2>4. Without(u, {ids[n]}) = Without(t, Gone(n))
    <3>1. DOMAIN u = DOMAIN t \ Gone(n - 1) /\ \A i \in DOMAIN t \ Gone(n - 1) : u[i] = t[i]
      BY WithoutIsTracked
    <3>2. DOMAIN u \ {ids[n]} = DOMAIN t \ Gone(n)
      BY <2>3, <3>1
    <3>3. \A i \in DOMAIN t \ Gone(n) : u[i] = t[i]
      BY <2>3, <3>1
    <3> HIDE DEF u, Gone
    <3> QED  BY <3>2, <3>3 DEF Without
  <2> QED
    BY <2>2, <2>4
<1>4. N \in P
  <2>1. P \in SUBSET (0 .. N)
    OBVIOUS
  <2>2. P = 0 .. N
    <3> HIDE DEF P
    <3> QED  BY <1>2, <1>3, <2>1, CountingUp
  <2> HIDE DEF P
  <2> QED  BY <2>2
<1> QED
  BY <1>1, <1>4

(***************************************************************************)
(* Feeding: an event passes through when no slot that still waits accepts  *)
(* it, and is otherwise the reply of one that does.                        *)
(***************************************************************************)
LEMMA FeedFinds ==
  ASSUME NEW t, Tracked(t), NEW ev \in Event
  PROVE  /\ feed_id(t, ev) = NoId =>
              \A i \in DOMAIN t : ~ is_completed(t, i) => ~ match_event(t[i].expectation, ev)
         /\ feed_id(t, ev) # NoId =>
              /\ feed_id(t, ev) \in DOMAIN t /\ ~ is_completed(t, feed_id(t, ev))
              /\ match_event(t[feed_id(t, ev)].expectation, ev)
              /\ ev.kind = "reply"
<1>1. CASE matching(t, ev) = {}
  BY <1>1 DEF feed_id, matching
<1>2. CASE matching(t, ev) # {}
  <2>1. matching(t, ev) \in SUBSET Nat
    BY DEF matching, Tracked
  <2>2. \E i \in matching(t, ev) : \A j \in matching(t, ev) : i <= j
    BY <1>2, <2>1, LeastElement
  <2>3. feed_id(t, ev) \in matching(t, ev)
    BY <1>2, <2>2 DEF feed_id, first
  <2>4. feed_id(t, ev) # NoId
    BY <2>1, <2>3, DriverAssumption
  <2>5. \A i \in DOMAIN t : t[i].expectation \in Expectation
    BY DEF Tracked, Slot
  <2> QED
    BY <2>3, <2>4, <2>5, OnlyItsReplyMatches DEF matching
<1> QED
  BY <1>1, <1>2

LEMMA FeedKeepsSlots ==
  ASSUME NEW t, Tracked(t), NEW ev \in Event
  PROVE  /\ Tracked(feed(t, ev)) /\ DOMAIN feed(t, ev) = DOMAIN t
         /\ \A i \in DOMAIN t : feed(t, ev)[i].expectation = t[i].expectation
<1>1. DOMAIN feed(t, ev) = DOMAIN t
  BY DEF feed
<1>2. ASSUME NEW i \in DOMAIN t
      PROVE  /\ feed(t, ev)[i] \in Slot /\ feed(t, ev)[i].outstanding = 1
             /\ feed(t, ev)[i].expectation = t[i].expectation
  <2>1. t[i] \in Slot /\ t[i].outstanding = 1
    BY DEF Tracked
  <2>2. feed(t, ev)[i] = t[i] \/ feed(t, ev)[i] = [t[i] EXCEPT !.reply = ev]
    BY DEF feed
  <2>3. /\ [t[i] EXCEPT !.reply = ev] \in Slot
        /\ [t[i] EXCEPT !.reply = ev].outstanding = t[i].outstanding
        /\ [t[i] EXCEPT !.reply = ev].expectation = t[i].expectation
    BY <2>1 DEF Slot
  <2> QED
    BY <2>1, <2>2, <2>3
<1>3. feed(t, ev) = [i \in DOMAIN t |-> feed(t, ev)[i]]
  BY DEF feed
<1> QED
  BY <1>1, <1>2, <1>3 DEF Tracked

LEMMA TakeFed ==
  ASSUME NEW t, Tracked(t), NEW ev \in Event, NEW id, feed_id(t, ev) = id, id # NoId
  PROVE  take_reply(feed(t, ev), id) = Without(t, {id})
<1>1. id \in DOMAIN t
  BY FeedFinds
<1>2. feed(t, ev)[id].reply = ev
  <2>1. t[id] \in Slot
    BY <1>1 DEF Tracked
  <2>2. feed(t, ev)[id] = [t[id] EXCEPT !.reply = ev]
    BY <1>1 DEF feed
  <2> QED
    BY <2>1, <2>2 DEF Slot
<1>3. ev # NoReply
  BY DriverAssumption
<1>4. take_reply(feed(t, ev), id) = remove(feed(t, ev), id)
  BY <1>1, <1>2, <1>3, FeedKeepsSlots DEF take_reply, is_completed, release, Tracked
<1>5. \A i \in DOMAIN t \ {id} : feed(t, ev)[i] = t[i]
  BY DEF feed
<1>6. DOMAIN feed(t, ev) = DOMAIN t
  BY FeedKeepsSlots
<1> QED
  BY <1>4, <1>5, <1>6 DEF remove, Without

-----------------------------------------------------------------------------
(***************************************************************************)
(* Sifting: s is what remains of the first n events of t when some of the  *)
(* replies among them are taken out.                                       *)
(***************************************************************************)
Places(pos, s, t, n) ==
  /\ pos \in [1 .. Len(s) -> 1 .. n]
  /\ \A i \in 1 .. Len(s) : s[i] = t[pos[i]]
  /\ \A i, j \in 1 .. Len(s) : i < j => pos[i] < pos[j]
  /\ \A m \in 1 .. n : t[m].kind # "reply" => \E i \in 1 .. Len(s) : pos[i] = m

Sifted(s, t, n) == \E pos : Places(pos, s, t, n)

LEMMA SiftNothing ==
  ASSUME NEW t
  PROVE  Sifted(<<>>, t, 0)
<1>1. Places([i \in {} |-> 0], <<>>, t, 0)
  BY DEF Places
<1> QED
  BY <1>1 DEF Sifted

LEMMA SiftKeeps ==
  ASSUME NEW t \in Seq(Event), NEW n \in 1 .. Len(t), NEW s \in Seq(Event), Sifted(s, t, n - 1)
  PROVE  Sifted(Append(s, t[n]), t, n)
<1> DEFINE u == Append(s, t[n])
<1>0. Len(t) \in Nat /\ Len(s) \in Nat /\ t[n] \in Event
  BY LenProperties, ElementOfSeq
<1>1. Len(u) = Len(s) + 1 /\ u[Len(s) + 1] = t[n] /\ \A i \in 1 .. Len(s) : u[i] = s[i]
  BY <1>0, AppendProperties
<1>2. PICK pos : Places(pos, s, t, n - 1)
  BY DEF Sifted
<1> DEFINE at == [i \in 1 .. Len(u) |-> IF i <= Len(s) THEN pos[i] ELSE n]
<1> HIDE DEF u
<1>3. at \in [1 .. Len(u) -> 1 .. n]
  <2>1. \A i \in 1 .. Len(s) : pos[i] \in 1 .. n
    BY <1>0, <1>2 DEF Places
  <2> QED
    BY <1>0, <1>1, <2>1
<1>4. \A i \in 1 .. Len(u) : u[i] = t[at[i]]
  <2>1. \A i \in 1 .. Len(s) : s[i] = t[pos[i]]
    BY <1>2 DEF Places
  <2> QED
    BY <1>0, <1>1, <2>1
<1>5. \A i, j \in 1 .. Len(u) : i < j => at[i] < at[j]
  <2>1. \A i \in 1 .. Len(s) : pos[i] \in 1 .. n - 1
    BY <1>2 DEF Places
  <2>2. \A i, j \in 1 .. Len(s) : i < j => pos[i] < pos[j]
    BY <1>2 DEF Places
  <2> QED
    BY <1>0, <1>1, <2>1, <2>2
<1>6. \A m \in 1 .. n : t[m].kind # "reply" => \E i \in 1 .. Len(u) : at[i] = m
  <2>1. SUFFICES ASSUME NEW m \in 1 .. n, t[m].kind # "reply"
                 PROVE  \E i \in 1 .. Len(u) : at[i] = m
    OBVIOUS
  <2>2. CASE m = n
    <3>1. at[Len(u)] = n /\ Len(u) \in 1 .. Len(u)
      BY <1>0, <1>1
    <3> QED  BY <2>2, <3>1
  <2>3. CASE m # n
    <3>1. m \in 1 .. n - 1
      BY <2>3
    <3>2. PICK i \in 1 .. Len(s) : pos[i] = m
      BY <1>2, <2>1, <3>1 DEF Places
    <3>3. i \in 1 .. Len(u) /\ at[i] = m
      BY <1>0, <1>1, <3>2
    <3> QED  BY <3>3
  <2> QED  BY <2>2, <2>3
<1>7. Places(at, u, t, n)
  BY <1>3, <1>4, <1>5, <1>6 DEF Places
<1> QED
  BY <1>7 DEF Sifted, u

LEMMA SiftDrops ==
  ASSUME NEW t \in Seq(Event), NEW n \in 1 .. Len(t), NEW s \in Seq(Event), Sifted(s, t, n - 1),
         t[n].kind = "reply"
  PROVE  Sifted(s, t, n)
<1>1. PICK pos : Places(pos, s, t, n - 1)
  BY DEF Sifted
<1>2. Places(pos, s, t, n)
  <2>1. \A m \in 1 .. n : m \in 1 .. n - 1 \/ m = n
    OBVIOUS
  <2>2. pos \in [1 .. Len(s) -> 1 .. n]
    <3>1. \A i \in 1 .. Len(s) : pos[i] \in 1 .. n
      BY <1>1 DEF Places
    <3> QED  BY <1>1, <3>1 DEF Places
  <2> QED
    BY <1>1, <2>1, <2>2 DEF Places
<1> QED
  BY <1>2 DEF Sifted

LEMMA SiftedElements ==
  ASSUME NEW s, NEW t, NEW n, Sifted(s, t, n), NEW i \in 1 .. Len(s)
  PROVE  \E m \in 1 .. n : s[i] = t[m]
  BY DEF Sifted, Places

(***************************************************************************)
(* One queue behind another: what it holds, and when it is in order.       *)
(***************************************************************************)
LEMMA Joined ==
  ASSUME NEW S, NEW a \in Seq(S), NEW b \in Seq(S)
  PROVE  /\ a \o b \in Seq(S) /\ Len(a \o b) = Len(a) + Len(b)
         /\ DOMAIN a = 1 .. Len(a) /\ DOMAIN b = 1 .. Len(b)
         /\ DOMAIN (a \o b) = 1 .. Len(a) + Len(b)
         /\ Len(a) \in Nat /\ Len(b) \in Nat
         /\ \A i \in DOMAIN a : i \in DOMAIN (a \o b) /\ (a \o b)[i] = a[i]
         /\ \A j \in DOMAIN b : /\ Len(a) + j \in DOMAIN (a \o b)
                                /\ (a \o b)[Len(a) + j] = b[j]
         /\ \A i \in DOMAIN (a \o b) :
              i \in DOMAIN a \/ \E j \in DOMAIN b : i = Len(a) + j
<1>1. Len(a) \in Nat /\ Len(b) \in Nat /\ DOMAIN a = 1 .. Len(a) /\ DOMAIN b = 1 .. Len(b)
  BY LenProperties
<1>2. /\ a \o b \in Seq(S) /\ Len(a \o b) = Len(a) + Len(b)
      /\ \A i \in 1 .. Len(a) + Len(b) :
           (a \o b)[i] = IF i <= Len(a) THEN a[i] ELSE b[i - Len(a)]
  BY ConcatProperties
<1>3. DOMAIN (a \o b) = 1 .. Len(a) + Len(b)
  BY <1>2, LenProperties
<1>4. ASSUME NEW i \in DOMAIN a PROVE i \in DOMAIN (a \o b) /\ (a \o b)[i] = a[i]
  BY <1>1, <1>2, <1>3
<1>5. ASSUME NEW j \in DOMAIN b
      PROVE  Len(a) + j \in DOMAIN (a \o b) /\ (a \o b)[Len(a) + j] = b[j]
  <2>1. Len(a) + j \in 1 .. Len(a) + Len(b) /\ ~ (Len(a) + j <= Len(a))
        /\ (Len(a) + j) - Len(a) = j
    BY <1>1
  <2> QED  BY <1>2, <1>3, <2>1
<1>6. ASSUME NEW i \in DOMAIN (a \o b), i \notin DOMAIN a
      PROVE  \E j \in DOMAIN b : i = Len(a) + j
  <2>1. i - Len(a) \in DOMAIN b /\ i = Len(a) + (i - Len(a))
    BY <1>1, <1>3, <1>6
  <2> QED  BY <2>1
<1> QED
  BY <1>1, <1>2, <1>3, <1>4, <1>5, <1>6

LEMMA NumbersJoined ==
  ASSUME NEW a \in Seq(Event), NEW b \in Seq(Event), NEW kind
  PROVE  numbers(a \o b, kind) = numbers(a, kind) \cup numbers(b, kind)
<1> DEFINE c == a \o b
<1>1. ASSUME NEW i \in DOMAIN c, c[i].kind = kind
      PROVE  c[i].n \in numbers(a, kind) \cup numbers(b, kind)
  <2>1. CASE i \in DOMAIN a
    BY <1>1, <2>1, Joined DEF numbers
  <2>2. CASE \E j \in DOMAIN b : i = Len(a) + j
    <3>1. PICK j \in DOMAIN b : i = Len(a) + j
      BY <2>2
    <3>2. c[i] = b[j]
      BY <3>1, Joined
    <3> QED  BY <1>1, <3>2 DEF numbers
  <2> QED  BY <2>1, <2>2, Joined
<1>2. ASSUME NEW i \in DOMAIN a, a[i].kind = kind
      PROVE  a[i].n \in numbers(c, kind)
  <2>1. i \in DOMAIN c /\ c[i] = a[i]
    BY Joined
  <2> HIDE DEF c
  <2> QED  BY <1>2, <2>1 DEF numbers
<1>3. ASSUME NEW j \in DOMAIN b, b[j].kind = kind
      PROVE  b[j].n \in numbers(c, kind)
  <2>1. Len(a) + j \in DOMAIN c /\ c[Len(a) + j] = b[j]
    BY Joined
  <2> HIDE DEF c
  <2> QED  BY <1>3, <2>1 DEF numbers
<1> HIDE DEF c
<1>4. numbers(c, kind) \subseteq numbers(a, kind) \cup numbers(b, kind)
  BY <1>1 DEF numbers
<1>5. numbers(a, kind) \subseteq numbers(c, kind)
  <2>1. ASSUME NEW x \in numbers(a, kind) PROVE x \in numbers(c, kind)
    <3>1. PICK i \in DOMAIN a : a[i].kind = kind /\ a[i].n = x
      BY DEF numbers
    <3> QED  BY <1>2, <3>1
  <2> QED  BY <2>1
<1>6. numbers(b, kind) \subseteq numbers(c, kind)
  <2>1. ASSUME NEW x \in numbers(b, kind) PROVE x \in numbers(c, kind)
    <3>1. PICK i \in DOMAIN b : b[i].kind = kind /\ b[i].n = x
      BY DEF numbers
    <3> QED  BY <1>3, <3>1
  <2> QED  BY <2>1
<1>7. numbers(c, kind) = numbers(a, kind) \cup numbers(b, kind)
  BY <1>4, <1>5, <1>6
<1> QED
  BY <1>7 DEF c

LEMMA OrderJoined ==
  ASSUME NEW a \in Seq(Event), NEW b \in Seq(Event), NEW kind
  PROVE  in_order(a \o b, kind) <=>
           /\ in_order(a, kind) /\ in_order(b, kind)
           /\ \A x \in numbers(a, kind), y \in numbers(b, kind) : x < y
<1> DEFINE c == a \o b
           la == Len(a)
<1>0. /\ la \in Nat /\ DOMAIN a = 1 .. la
      /\ DOMAIN b \subseteq Nat \ {0}
      /\ DOMAIN c \subseteq Nat
  BY Joined
<1>1. \A i \in DOMAIN a : i \in DOMAIN c /\ c[i] = a[i]
  BY Joined
<1>2. \A j \in DOMAIN b : la + j \in DOMAIN c /\ c[la + j] = b[j]
  BY Joined
<1>3. \A i \in DOMAIN c : i \in DOMAIN a \/ \E j \in DOMAIN b : i = la + j
  BY Joined
<1> HIDE DEF c, la
<1>4. ASSUME in_order(c, kind)
      PROVE  /\ in_order(a, kind) /\ in_order(b, kind)
             /\ \A x \in numbers(a, kind), y \in numbers(b, kind) : x < y
  <2>1. in_order(a, kind)
    BY <1>1, <1>4 DEF in_order
  <2>2. ASSUME NEW i \in DOMAIN b, NEW j \in DOMAIN b, i < j, b[i].kind = kind, b[j].kind = kind
        PROVE  b[i].n < b[j].n
    <3>1. la + i < la + j
      BY <1>0, <2>2
    <3> HIDE DEF la
    <3> QED  BY <1>2, <1>4, <2>2, <3>1 DEF in_order
  <2>3. ASSUME NEW x \in numbers(a, kind), NEW y \in numbers(b, kind)
        PROVE  x < y
    <3>1. PICK i \in DOMAIN a : a[i].kind = kind /\ a[i].n = x
      BY DEF numbers
    <3>2. PICK j \in DOMAIN b : b[j].kind = kind /\ b[j].n = y
      BY DEF numbers
    <3>3. i < la + j
      BY <1>0
    <3> QED  BY <1>1, <1>2, <1>4, <3>1, <3>2, <3>3 DEF in_order
  <2>4. in_order(b, kind)
    BY <2>2 DEF in_order
  <2> QED  BY <2>1, <2>3, <2>4
<1>5. ASSUME in_order(a, kind), in_order(b, kind),
             \A x \in numbers(a, kind), y \in numbers(b, kind) : x < y
      PROVE  in_order(c, kind)
  <2>1. SUFFICES ASSUME NEW i \in DOMAIN c, NEW j \in DOMAIN c, i < j,
                        c[i].kind = kind, c[j].kind = kind
                 PROVE  c[i].n < c[j].n
    BY DEF in_order
  <2>2. CASE i \in DOMAIN a /\ j \in DOMAIN a
    BY <1>1, <1>5, <2>1, <2>2 DEF in_order
  <2>3. CASE i \in DOMAIN a /\ \E k \in DOMAIN b : j = la + k
    <3>1. PICK k \in DOMAIN b : j = la + k
      BY <2>3
    <3>2. c[i] = a[i] /\ c[j] = b[k]
      BY <1>1, <1>2, <2>3, <3>1
    <3>3. a[i].n \in numbers(a, kind) /\ b[k].n \in numbers(b, kind)
      BY <2>1, <2>3, <3>2 DEF numbers
    <3> QED  BY <1>5, <3>2, <3>3
  <2>4. CASE (\E k \in DOMAIN b : i = la + k) /\ j \in DOMAIN a
    BY <1>0, <2>1, <2>4
  <2>5. CASE (\E k \in DOMAIN b : i = la + k) /\ \E k \in DOMAIN b : j = la + k
    <3>1. PICK k \in DOMAIN b : i = la + k
      BY <2>5
    <3>2. PICK l \in DOMAIN b : j = la + l
      BY <2>5
    <3>3. k < l
      BY <1>0, <2>1, <3>1, <3>2
    <3>4. c[i] = b[k] /\ c[j] = b[l]
      BY <1>2, <3>1, <3>2
    <3> QED  BY <1>5, <2>1, <3>3, <3>4 DEF in_order
  <2> QED  BY <1>3, <2>2, <2>3, <2>4, <2>5
<1>6. in_order(c, kind) <=>
           /\ in_order(a, kind) /\ in_order(b, kind)
           /\ \A x \in numbers(a, kind), y \in numbers(b, kind) : x < y
  BY <1>4, <1>5
<1> QED
  BY <1>6 DEF c

LEMMA Split ==
  ASSUME NEW S, NEW q \in Seq(S), NEW n \in 1 .. Len(q)
  PROVE  /\ SubSeq(q, 1, n) \in Seq(S) /\ SubSeq(q, n + 1, Len(q)) \in Seq(S)
         /\ Len(SubSeq(q, 1, n)) = n /\ Len(SubSeq(q, n + 1, Len(q))) = Len(q) - n
         /\ \A i \in 1 .. n : SubSeq(q, 1, n)[i] = q[i]
         /\ \A i \in 1 .. Len(q) - n : SubSeq(q, n + 1, Len(q))[i] = q[n + i]
         /\ q = SubSeq(q, 1, n) \o SubSeq(q, n + 1, Len(q))
<1> DEFINE a == SubSeq(q, 1, n)
           b == SubSeq(q, n + 1, Len(q))
           L == Len(q)
<1>1. L \in Nat /\ DOMAIN q = 1 .. L
  BY LenProperties
<1>2. \A i \in 1 .. L : q[i] \in S
  BY ElementOfSeq
<1>3. a \in Seq(S) /\ Len(a) = n /\ \A i \in 1 .. n : a[i] = q[i]
  BY <1>1, <1>2, SubSeqProperties
<1>4. b \in Seq(S) /\ Len(b) = L - n
  <2>1. n + 1 \in Int /\ L \in Int /\ \A i \in n + 1 .. L : q[i] \in S
    BY <1>1, <1>2
  <2>2. b \in Seq(S) /\ Len(b) = IF n + 1 <= L THEN L - (n + 1) + 1 ELSE 0
    BY <2>1, SubSeqProperties
  <2>3. (IF n + 1 <= L THEN L - (n + 1) + 1 ELSE 0) = L - n
    <3>1. \A N \in Nat : \A k \in 1 .. N : (IF k + 1 <= N THEN N - (k + 1) + 1 ELSE 0) = N - k
      OBVIOUS
    <3> QED  BY <1>1, <3>1
  <2> QED  BY <2>2, <2>3
<1>5. ASSUME NEW i \in 1 .. L - n PROVE b[i] = q[n + i]
  BY <1>1, <1>2, SubSeqProperties
<1> HIDE DEF a, b
<1>6. a \o b \in Seq(S) /\ Len(a \o b) = L
  <2>1. a \o b \in Seq(S) /\ Len(a \o b) = Len(a) + Len(b)
    BY <1>3, <1>4, Joined
  <2>2. n + (L - n) = L
    BY <1>1
  <2> QED  BY <1>3, <1>4, <2>1, <2>2
<1>7. ASSUME NEW i \in 1 .. L PROVE (a \o b)[i] = q[i]
  <2>1. DOMAIN a = 1 .. n /\ DOMAIN b = 1 .. L - n
    BY <1>3, <1>4, LenProperties
  <2>2. CASE i \in 1 .. n
    BY <1>3, <1>4, <2>1, <2>2, Joined
  <2>3. CASE i \in n + 1 .. L
    <3>1. i - n \in DOMAIN b /\ i - n \in 1 .. L - n /\ n + (i - n) = i
      BY <1>1, <2>1, <2>3
    <3>2. (a \o b)[n + (i - n)] = b[i - n]
      BY <1>3, <1>4, <3>1, Joined
    <3>3. b[i - n] = q[n + (i - n)]
      BY <1>5, <3>1
    <3> QED  BY <3>1, <3>2, <3>3
  <2>4. i \in 1 .. n \/ i \in n + 1 .. L
    BY <1>1
  <2> QED  BY <2>2, <2>3, <2>4
<1>8. q = a \o b
  BY <1>6, <1>7, SeqEqual
<1> QED
  BY <1>3, <1>4, <1>5, <1>8 DEF a, b

(***************************************************************************)
(* Sifting leaves keys and resizes in order, and takes none out.           *)
(***************************************************************************)
LEMMA SiftedOrder ==
  ASSUME NEW s \in Seq(Event), NEW t \in Seq(Event), Sifted(s, t, Len(t)), NEW kind,
         in_order(t, kind)
  PROVE  in_order(s, kind)
<1>1. PICK pos : Places(pos, s, t, Len(t))
  BY DEF Sifted
<1>2. DOMAIN s = 1 .. Len(s) /\ DOMAIN t = 1 .. Len(t)
  BY LenProperties
<1>3. ASSUME NEW i \in DOMAIN s, NEW j \in DOMAIN s, i < j, s[i].kind = kind, s[j].kind = kind
      PROVE  s[i].n < s[j].n
  <2>1. /\ s[i] = t[pos[i]] /\ s[j] = t[pos[j]] /\ pos[i] < pos[j]
        /\ pos[i] \in DOMAIN t /\ pos[j] \in DOMAIN t
    BY <1>1, <1>2, <1>3 DEF Places
  <2> QED
    BY <1>3, <2>1 DEF in_order
<1> QED
  BY <1>3 DEF in_order

LEMMA SiftedNumbers ==
  ASSUME NEW s \in Seq(Event), NEW t \in Seq(Event), Sifted(s, t, Len(t)), NEW kind, kind # "reply"
  PROVE  numbers(s, kind) = numbers(t, kind)
<1>1. PICK pos : Places(pos, s, t, Len(t))
  BY DEF Sifted
<1>2. DOMAIN s = 1 .. Len(s) /\ DOMAIN t = 1 .. Len(t)
  BY LenProperties
<1>3. ASSUME NEW i \in DOMAIN s, s[i].kind = kind
      PROVE  \E m \in DOMAIN t : t[m].kind = kind /\ t[m].n = s[i].n
  <2>1. s[i] = t[pos[i]] /\ pos[i] \in DOMAIN t
    BY <1>1, <1>2 DEF Places
  <2> QED
    BY <1>3, <2>1
<1>4. ASSUME NEW m \in DOMAIN t, t[m].kind = kind
      PROVE  \E i \in DOMAIN s : s[i].kind = kind /\ t[m].n = s[i].n
  <2>1. PICK i \in DOMAIN s : pos[i] = m
    BY <1>1, <1>2, <1>4 DEF Places
  <2>2. s[i] = t[m]
    BY <1>1, <1>2, <2>1 DEF Places
  <2> QED
    BY <1>4, <2>2
<1> QED
  BY <1>3, <1>4 DEF numbers


-----------------------------------------------------------------------------
(***************************************************************************)
(* The loops.  Every reply among the events is expected when it carries    *)
(* the number and the expectation of a slot, in the order of the numbers.  *)
(***************************************************************************)
Expected(t, events) ==
  /\ \A m \in 1 .. Len(events) : events[m].kind = "reply" =>
       events[m].n \in DOMAIN t /\ t[events[m].n].expectation = events[m].to
  /\ in_order(events, "reply")

Silent(k) == \A j \in 1 .. Len(k) : k[j].kind # "reply"

LEMMA SilentAppend ==
  ASSUME NEW k \in Seq(Event), NEW ev \in Event, Silent(k), ev.kind # "reply"
  PROVE  Silent(Append(k, ev))
<1>1. Len(k) \in Nat /\ Len(Append(k, ev)) = Len(k) + 1
  BY AppendProperties, LenProperties
<1>2. ASSUME NEW j \in 1 .. Len(k) + 1 PROVE Append(k, ev)[j].kind # "reply"
  <2>1. CASE j \in 1 .. Len(k)
    <3>1. Append(k, ev)[j] = k[j]
      BY <2>1, AppendProperties
    <3> QED  BY <2>1, <3>1 DEF Silent
  <2>2. CASE j = Len(k) + 1
    <3>1. Append(k, ev)[j] = ev
      BY <2>2, AppendProperties
    <3> QED  BY <3>1
  <2> QED  BY <1>1, <2>1, <2>2
<1> QED
  BY <1>1, <1>2 DEF Silent

(***************************************************************************)
(* A query: until its reply comes nothing changes, and with it its slot is *)
(* gone.                                                                   *)
(***************************************************************************)
QuerySoFar(t, id, events, n, s, k, r) ==
  /\ k \in Seq(Event) /\ Sifted(k, events, n)
  /\ r = NoReply => s = t
  /\ r # NoReply => /\ s = Without(t, {id})
                    /\ \E m \in 1 .. n : r = events[m]
                    /\ r \in Event /\ r.kind = "reply" /\ r.to = t[id].expectation
  /\ Expected(t, events) => Silent(k)

LEMMA QueryFeeds ==
  ASSUME NEW t, Tracked(t), NEW id, DOMAIN t = {id}, ~ is_completed(t, id),
         NEW events \in Seq(Event)
  PROVE  \E s, k, r :
           /\ feed_into_query(t, id, events) = [slots |-> s, kept |-> k, reply |-> r]
           /\ QuerySoFar(t, id, events, Len(events), s, k, r)
<1> DEFINE N == Len(events)
<1>0. N \in Nat /\ DOMAIN events = 1 .. N /\ \A n \in 1 .. N : events[n] \in Event
  BY LenProperties, ElementOfSeq
<1>1. PICK f : /\ f[0] = [slots |-> t, kept |-> <<>>, reply |-> NoReply]
               /\ \A n \in 1 .. N : f[n] = query_feeds(f[n - 1], id, events[n])
               /\ feed_into_query(t, id, events) = f[N]
  BY <1>0, QueryRuns
<1> HIDE DEF N
<1> DEFINE J(n) == \E s, k, r : /\ f[n] = [slots |-> s, kept |-> k, reply |-> r]
                                /\ QuerySoFar(t, id, events, n, s, k, r)
           P == {n \in 0 .. N : J(n)}
<1>2. J(0)
  <2>1. <<>> \in Seq(Event) /\ Silent(<<>>)
    BY DEF Silent
  <2>2. QuerySoFar(t, id, events, 0, t, <<>>, NoReply)
    BY <2>1, SiftNothing DEF QuerySoFar
  <2> QED  BY <1>1, <2>2
<1>3. ASSUME NEW n \in 1 .. N, J(n - 1)
      PROVE  J(n)
  <2>1. PICK s, k, r : /\ f[n - 1] = [slots |-> s, kept |-> k, reply |-> r]
                       /\ QuerySoFar(t, id, events, n - 1, s, k, r)
    BY <1>3
  <2> DEFINE ev == events[n]
  <2>2. ev \in Event
    BY <1>0
  <2>3. k \in Seq(Event) /\ Sifted(k, events, n - 1)
    BY <2>1 DEF QuerySoFar
  <2>4. n \in 1 .. Len(events)
    BY DEF N
  <2>5. Append(k, ev) \in Seq(Event) /\ Sifted(Append(k, ev), events, n)
    BY <2>2, <2>3, <2>4, SiftKeeps, AppendProperties
  <2>6. f[n] = query_feeds([slots |-> s, kept |-> k, reply |-> r], id, ev)
    BY <1>1, <2>1
  <2>7. CASE r # NoReply
    <3>1. f[n] = [slots |-> s, kept |-> Append(k, ev), reply |-> r]
      BY <2>6, <2>7 DEF query_feeds
    <3>2. PICK m \in 1 .. n - 1 : r = events[m]
      BY <2>1, <2>7 DEF QuerySoFar
    <3>3. r.kind = "reply"
      BY <2>1, <2>7 DEF QuerySoFar
    <3>4. ASSUME Expected(t, events) PROVE ev.kind # "reply"
      <4>1. SUFFICES ASSUME ev.kind = "reply" PROVE FALSE
        OBVIOUS
      <4>2. m \in DOMAIN events /\ n \in DOMAIN events /\ m < n
        BY <1>0
      <4>3. events[m].n < ev.n
        BY <3>2, <3>3, <3>4, <4>1, <4>2 DEF Expected, in_order
      <4>4. events[m].n = id /\ ev.n = id
        BY <1>0, <3>2, <3>3, <3>4, <4>1, <4>2 DEF Expected, N
      <4>5. ev.n \in Nat
        BY <2>2, <4>1, KindsOfEvents, DriverAssumption
      <4> QED  BY <4>3, <4>4, <4>5
    <3>5. ASSUME Expected(t, events) PROVE Silent(Append(k, ev))
      <4>1. Silent(k)
        BY <2>1, <3>5 DEF QuerySoFar
      <4> QED  BY <2>2, <2>3, <3>4, <3>5, <4>1, SilentAppend
    <3>6. m \in 1 .. n
      BY <3>2
    <3>7. QuerySoFar(t, id, events, n, s, Append(k, ev), r)
      BY <2>1, <2>5, <2>7, <3>2, <3>5, <3>6 DEF QuerySoFar
    <3> HIDE DEF ev
    <3> QED  BY <3>1, <3>7
  <2>8. CASE r = NoReply
    <3>1. s = t
      BY <2>1, <2>8 DEF QuerySoFar
    <3>2. CASE feed_id(t, ev) = NoId
      <4>1. f[n] = [slots |-> t, kept |-> Append(k, ev), reply |-> r]
        BY <2>6, <3>1, <3>2 DEF query_feeds
      <4>2. ASSUME Expected(t, events), ev.kind = "reply" PROVE FALSE
        <5>1. ev.n = id /\ t[id].expectation = ev.to
          BY <2>4, <4>2 DEF Expected
        <5>2. t[id].expectation \in Expectation
          BY DEF Tracked, Slot
        <5>3. match_event(t[id].expectation, ev)
          BY <2>2, <4>2, <5>1, <5>2, OnlyItsReplyMatches
        <5>4. ~ match_event(t[id].expectation, ev)
          BY <2>2, <3>2, FeedFinds
        <5> QED  BY <5>3, <5>4
      <4>3. ASSUME Expected(t, events) PROVE Silent(Append(k, ev))
        <5>1. Silent(k)
          BY <2>1, <4>3 DEF QuerySoFar
        <5> QED  BY <2>2, <2>3, <4>2, <4>3, <5>1, SilentAppend
      <4>4. QuerySoFar(t, id, events, n, t, Append(k, ev), r)
        BY <2>5, <2>8, <4>3 DEF QuerySoFar
      <4> HIDE DEF ev
      <4> QED  BY <4>1, <4>4
    <3>3. CASE feed_id(t, ev) # NoId
      <4>1. /\ feed_id(t, ev) = id /\ match_event(t[id].expectation, ev) /\ ev.kind = "reply"
        BY <2>2, <3>3, FeedFinds
      <4>2. id # NoId
        BY <3>3, <4>1
      <4>3. take_reply(feed(t, ev), id) = Without(t, {id})
        BY <2>2, <4>1, <4>2, TakeFed
      <4>4. f[n] = [slots |-> Without(t, {id}), kept |-> k, reply |-> ev]
        BY <2>6, <2>8, <3>1, <4>1, <4>2, <4>3 DEF query_feeds
      <4>5. Sifted(k, events, n)
        BY <2>3, <2>4, <4>1, SiftDrops
      <4>6. ev # NoReply
        BY <2>2, DriverAssumption
      <4>7. ev.to = t[id].expectation
        <5>1. t[id].expectation \in Expectation
          BY DEF Tracked, Slot
        <5> QED  BY <2>2, <4>1, <5>1, OnlyItsReplyMatches
      <4>8. \E m \in 1 .. n : ev = events[m]
        OBVIOUS
      <4>9. QuerySoFar(t, id, events, n, Without(t, {id}), k, ev)
        <5> HIDE DEF ev
        <5> QED  BY <2>1, <2>2, <2>3, <4>1, <4>5, <4>6, <4>7, <4>8 DEF QuerySoFar
      <4> HIDE DEF ev
      <4> QED  BY <4>4, <4>9
    <3> QED  BY <3>2, <3>3
  <2> QED  BY <2>7, <2>8
<1>4. N \in P
  <2> HIDE DEF J
  <2>1. P \in SUBSET (0 .. N) /\ 0 \in P
    BY <1>0, <1>2
  <2>2. \A n \in 1 .. N : n - 1 \in P => n \in P
    BY <1>3
  <2>3. P = 0 .. N
    <3> HIDE DEF P
    <3> QED  BY <1>0, <2>1, <2>2, CountingUp
  <2> HIDE DEF P
  <2> QED  BY <1>0, <2>3
<1> QED
  BY <1>1, <1>4 DEF N

(***************************************************************************)
(* next_event: a completion changes what a slot holds and nothing else.    *)
(***************************************************************************)
BufferSoFar(t, events, n, s, k) ==
  /\ k \in Seq(Event) /\ Sifted(k, events, n)
  /\ Tracked(s) /\ DOMAIN s = DOMAIN t
  /\ \A i \in DOMAIN t : s[i].expectation = t[i].expectation

LEMMA BufferFeeds ==
  ASSUME NEW t, Tracked(t), NEW events \in Seq(Event)
  PROVE  \E s, k : /\ buffer_events(t, events) = [slots |-> s, kept |-> k]
                   /\ BufferSoFar(t, events, Len(events), s, k)
<1> DEFINE N == Len(events)
<1>0. N \in Nat /\ \A n \in 1 .. N : events[n] \in Event
  BY LenProperties, ElementOfSeq
<1>1. PICK f : /\ f[0] = [slots |-> t, kept |-> <<>>]
               /\ \A n \in 1 .. N : f[n] = next_event_feeds(f[n - 1], events[n])
               /\ buffer_events(t, events) = f[N]
  BY <1>0, BufferRuns
<1> HIDE DEF N
<1> DEFINE J(n) == \E s, k : /\ f[n] = [slots |-> s, kept |-> k]
                             /\ BufferSoFar(t, events, n, s, k)
           P == {n \in 0 .. N : J(n)}
<1>2. J(0)
  <2>1. BufferSoFar(t, events, 0, t, <<>>)
    BY SiftNothing DEF BufferSoFar
  <2> QED  BY <1>1, <2>1
<1>3. ASSUME NEW n \in 1 .. N, J(n - 1)
      PROVE  J(n)
  <2>1. PICK s, k : /\ f[n - 1] = [slots |-> s, kept |-> k]
                    /\ BufferSoFar(t, events, n - 1, s, k)
    BY <1>3
  <2> DEFINE ev == events[n]
  <2>2. ev \in Event /\ n \in 1 .. Len(events)
    BY <1>0 DEF N
  <2>3. k \in Seq(Event) /\ Sifted(k, events, n - 1) /\ Tracked(s)
    BY <2>1 DEF BufferSoFar
  <2>4. f[n] = next_event_feeds([slots |-> s, kept |-> k], ev)
    BY <1>1, <2>1
  <2>5. CASE feed_id(s, ev) = NoId
    <3>1. f[n] = [slots |-> s, kept |-> Append(k, ev)]
      BY <2>4, <2>5 DEF next_event_feeds
    <3>2. Append(k, ev) \in Seq(Event) /\ Sifted(Append(k, ev), events, n)
      BY <2>2, <2>3, SiftKeeps, AppendProperties
    <3>3. BufferSoFar(t, events, n, s, Append(k, ev))
      BY <2>1, <3>2 DEF BufferSoFar
    <3> HIDE DEF ev
    <3> QED  BY <3>1, <3>3
  <2>6. CASE feed_id(s, ev) # NoId
    <3>1. f[n] = [slots |-> feed(s, ev), kept |-> k]
      BY <2>4, <2>6 DEF next_event_feeds
    <3>2. ev.kind = "reply"
      BY <2>2, <2>3, <2>6, FeedFinds
    <3>3. Sifted(k, events, n)
      BY <2>2, <2>3, <3>2, SiftDrops
    <3>4. /\ Tracked(feed(s, ev)) /\ DOMAIN feed(s, ev) = DOMAIN s
          /\ \A i \in DOMAIN s : feed(s, ev)[i].expectation = s[i].expectation
      BY <2>2, <2>3, FeedKeepsSlots
    <3>5. BufferSoFar(t, events, n, feed(s, ev), k)
      <4> HIDE DEF ev
      <4> QED  BY <2>1, <3>3, <3>4 DEF BufferSoFar
    <3> HIDE DEF ev
    <3> QED  BY <3>1, <3>5
  <2> QED  BY <2>5, <2>6
<1>4. N \in P
  <2> HIDE DEF J
  <2>1. P \in SUBSET (0 .. N) /\ 0 \in P
    BY <1>0, <1>2
  <2>2. \A n \in 1 .. N : n - 1 \in P => n \in P
    BY <1>3
  <2>3. P = 0 .. N
    <3> HIDE DEF P
    <3> QED  BY <1>0, <2>1, <2>2, CountingUp
  <2> HIDE DEF P
  <2> QED  BY <1>0, <2>3
<1> QED
  BY <1>1, <1>4 DEF N

(***************************************************************************)
(* A probe: slots and unanswered places of the bundle are the same, place  *)
(* by place, and what is passed on answers nothing that still waits.       *)
(***************************************************************************)
Watching(t, ids, got) ==
  /\ Tracked(t) /\ \A i \in DOMAIN t : ~ is_completed(t, i)
  /\ got \in Seq(Event \cup {NoReply}) /\ Len(got) = Len(Bundle)
  /\ DOMAIN t \subseteq {ids[i] : i \in 1 .. Len(Bundle)}
  /\ \A i \in 1 .. Len(Bundle) : ids[i] \in DOMAIN t => t[ids[i]].expectation = Bundle[i]
  /\ \A i \in 1 .. Len(Bundle) : got[i] = NoReply <=> ids[i] \in DOMAIN t

Numbered(ids) ==
  /\ DOMAIN ids = 1 .. Len(Bundle)
  /\ \A i \in 1 .. Len(Bundle) : ids[i] \in Nat
  /\ \A i, j \in 1 .. Len(Bundle) : i < j => ids[i] < ids[j]

AsExpected(t, ids, found, events, n, s, k, g, c) ==
  /\ Silent(k)
  /\ \A i \in 1 .. Len(Bundle) : g[i] = found[i] \/ g[i].n = ids[i]
  /\ \A i \in DOMAIN t \ DOMAIN s : \E m \in 1 .. n : events[m].kind = "reply" /\ events[m].n = i
  /\ c = TRUE => \E m \in 1 .. n : events[m].kind = "reply" /\ events[m].n = ids[Len(Bundle)]

BundleSoFar(t, ids, found, events, n, s, k, g, c) ==
  /\ k \in Seq(Event) /\ Sifted(k, events, n)
  /\ Watching(s, ids, g) /\ DOMAIN s \subseteq DOMAIN t
  /\ c \in BOOLEAN
  /\ \A i \in 1 .. Len(Bundle) : found[i] # NoReply => g[i] # NoReply
  /\ \A i \in 1 .. Len(Bundle), j \in 1 .. Len(k) : match_event(Bundle[i], k[j]) => g[i] # NoReply
  /\ Expected(t, events) => AsExpected(t, ids, found, events, n, s, k, g, c)

LEMMA IdsDiffer ==
  ASSUME NEW ids, Numbered(ids), NEW i \in 1 .. Len(Bundle), NEW j \in 1 .. Len(Bundle),
         ids[i] = ids[j]
  PROVE  i = j
<1>1. Len(Bundle) \in Nat
  BY BundleAsksOnce
<1>2. ~ (i < j) /\ ~ (j < i)
  BY DEF Numbered
<1> QED
  BY <1>1, <1>2

\* An event that passes a watching probe answers nothing it still waits for.
LEMMA PassesWatch ==
  ASSUME NEW s, NEW ids, NEW g, Watching(s, ids, g), NEW ev \in Event, feed_id(s, ev) = NoId,
         NEW i \in 1 .. Len(Bundle), match_event(Bundle[i], ev)
  PROVE  g[i] # NoReply
<1>1. SUFFICES ASSUME g[i] = NoReply PROVE FALSE
  OBVIOUS
<1>2. ids[i] \in DOMAIN s /\ s[ids[i]].expectation = Bundle[i] /\ ~ is_completed(s, ids[i])
  BY <1>1 DEF Watching
<1> QED
  BY <1>2, FeedFinds DEF Watching

answered(g, ids, p, ev) == [i \in DOMAIN g |-> IF ids[i] = ids[p] THEN ev ELSE g[i]]

\* ev answers place p of the bundle, and that place only.
AnswersPlace(s, ids, g, ev, p) ==
  /\ feed_id(s, ev) = ids[p] /\ ids[p] \in DOMAIN s
  /\ ev.kind = "reply" /\ ev.to = Bundle[p]
  /\ take_reply(feed(s, ev), ids[p]) = Without(s, {ids[p]})
  /\ Watching(Without(s, {ids[p]}), ids, answered(g, ids, p, ev))
  /\ answered(g, ids, p, ev)[p] = ev
  /\ \A i \in 1 .. Len(Bundle) : i # p => answered(g, ids, p, ev)[i] = g[i]

LEMMA WatchTakes ==
  ASSUME NEW s, NEW ids, NEW g, Watching(s, ids, g), Numbered(ids),
         NEW ev \in Event, feed_id(s, ev) # NoId
  PROVE  \E p \in 1 .. Len(Bundle) : AnswersPlace(s, ids, g, ev, p)
<1> DEFINE id == feed_id(s, ev)
<1>1. /\ Tracked(s) /\ g \in Seq(Event \cup {NoReply}) /\ Len(g) = Len(Bundle)
      /\ DOMAIN s \subseteq {ids[i] : i \in 1 .. Len(Bundle)}
  BY DEF Watching
<1>2. id \in DOMAIN s /\ match_event(s[id].expectation, ev) /\ ev.kind = "reply"
  BY <1>1, FeedFinds
<1>3. PICK p \in 1 .. Len(Bundle) : id = ids[p]
  BY <1>1, <1>2
<1>4. s[ids[p]].expectation = Bundle[p]
  BY <1>2, <1>3 DEF Watching
<1>5. ev.to = Bundle[p]
  BY <1>2, <1>3, <1>4, BundleAsksOnce, OnlyItsReplyMatches
<1>6. take_reply(feed(s, ev), ids[p]) = Without(s, {ids[p]})
  BY <1>1, <1>3, TakeFed
<1> DEFINE h == answered(g, ids, p, ev)
<1>7. DOMAIN g = 1 .. Len(Bundle) /\ Len(Bundle) \in Nat
  BY <1>1, BundleAsksOnce, LenProperties
<1>8. \A i \in 1 .. Len(Bundle) : g[i] \in Event \cup {NoReply}
  BY <1>1, ElementOfSeq
<1>9. h[p] = ev
  BY <1>7 DEF answered
<1>10. ASSUME NEW i \in 1 .. Len(Bundle), i # p PROVE h[i] = g[i]
  <2>1. ids[i] # ids[p]
    BY <1>10, IdsDiffer
  <2> QED  BY <1>7, <2>1 DEF answered
<1>11. h \in Seq(Event \cup {NoReply}) /\ Len(h) = Len(Bundle)
  BY <1>7, <1>8 DEF answered
<1>12. Watching(Without(s, {ids[p]}), ids, h)
  <2> DEFINE u == Without(s, {ids[p]})
  <2>1. /\ Tracked(u) /\ DOMAIN u = DOMAIN s \ {ids[p]}
        /\ \A i \in DOMAIN s \ {ids[p]} : u[i] = s[i]
    BY <1>1, WithoutIsTracked
  <2> HIDE DEF u, h, id
  <2>2. \A i \in DOMAIN u : ~ is_completed(u, i)
    <3>1. \A i \in DOMAIN s : ~ is_completed(s, i)
      BY DEF Watching
    <3> QED  BY <2>1, <3>1 DEF is_completed
  <2>3. \A i \in 1 .. Len(Bundle) : ids[i] \in DOMAIN u => u[ids[i]].expectation = Bundle[i]
    <3>1. \A i \in 1 .. Len(Bundle) : ids[i] \in DOMAIN s => s[ids[i]].expectation = Bundle[i]
      BY DEF Watching
    <3> QED  BY <2>1, <3>1
  <2>4. ASSUME NEW i \in 1 .. Len(Bundle) PROVE h[i] = NoReply <=> ids[i] \in DOMAIN u
    <3>1. CASE i = p
      BY <1>9, <2>1, <3>1, DriverAssumption
    <3>2. CASE i # p
      <4>1. ids[i] # ids[p] /\ h[i] = g[i]
        BY <1>10, <3>2, IdsDiffer
      <4>2. g[i] = NoReply <=> ids[i] \in DOMAIN s
        BY DEF Watching
      <4> QED  BY <2>1, <4>1, <4>2
    <3> QED  BY <3>1, <3>2
  <2>5. DOMAIN u \subseteq {ids[i] : i \in 1 .. Len(Bundle)}
    BY <1>1, <2>1
  <2>6. Watching(u, ids, h)
    BY <1>11, <2>1, <2>2, <2>3, <2>4, <2>5 DEF Watching
  <2> QED  BY <2>6 DEF u, h
<1> HIDE DEF id
<1>13. /\ feed_id(s, ev) = ids[p] /\ ids[p] \in DOMAIN s
  BY <1>2, <1>3 DEF id
<1>14. AnswersPlace(s, ids, g, ev, p)
  BY <1>2, <1>5, <1>6, <1>9, <1>10, <1>12, <1>13 DEF AnswersPlace
<1> QED
  BY <1>14

LEMMA BundleFeeds ==
  ASSUME NEW t, NEW ids, NEW found, Watching(t, ids, found), Numbered(ids),
         NEW events \in Seq(Event)
  PROVE  \E s, k, g, c :
           /\ feed_into_bundle(t, ids, found, events)
                = [slots |-> s, kept |-> k, got |-> g, fenced |-> c]
           /\ BundleSoFar(t, ids, found, events, Len(events), s, k, g, c)
<1> DEFINE N == Len(events)
           L == Len(Bundle)
<1>0. /\ N \in Nat /\ DOMAIN events = 1 .. N /\ \A n \in 1 .. N : events[n] \in Event
      /\ L \in Nat \ {0}
  BY LenProperties, ElementOfSeq, BundleAsksOnce
<1>1. PICK f : /\ f[0] = bundle_start(t, found)
               /\ \A n \in 1 .. N : f[n] = bundle_feeds(f[n - 1], ids, events[n])
               /\ feed_into_bundle(t, ids, found, events) = f[N]
  BY <1>0, BundleRuns
<1> DEFINE J(n) == \E s, k, g, c :
                     /\ f[n] = [slots |-> s, kept |-> k, got |-> g, fenced |-> c]
                     /\ BundleSoFar(t, ids, found, events, n, s, k, g, c)
           P == {n \in 0 .. N : J(n)}
<1> HIDE DEF N, L
<1>2. J(0)
  <2>1. <<>> \in Seq(Event) /\ Silent(<<>>) /\ Len(<<>>) = 0
    BY DEF Silent
  <2> DEFINE none == <<>>
             c == FALSE
  <2>2. c \in BOOLEAN /\ ~ (c = TRUE)
    OBVIOUS
  <2>3. bundle_start(t, found) = [slots |-> t, kept |-> none, got |-> found, fenced |-> c]
    BY Zenon DEF bundle_start
  <2>4. none \in Seq(Event) /\ Silent(none) /\ Len(none) = 0 /\ Sifted(none, events, 0)
    BY <2>1, SiftNothing
  <2> HIDE DEF none, c
  <2>5. AsExpected(t, ids, found, events, 0, t, none, found, c)
    BY <2>2, <2>4 DEF AsExpected
  <2>6. BundleSoFar(t, ids, found, events, 0, t, none, found, c)
    BY <2>2, <2>4, <2>5 DEF BundleSoFar
  <2>7. f[0] = [slots |-> t, kept |-> none, got |-> found, fenced |-> c]
    BY <1>1, <2>3
  <2> QED  BY <2>6, <2>7
<1>3. ASSUME NEW n \in 1 .. N, J(n - 1)
      PROVE  J(n)
  <2>1. PICK s, k, g, c : /\ f[n - 1] = [slots |-> s, kept |-> k, got |-> g, fenced |-> c]
                          /\ BundleSoFar(t, ids, found, events, n - 1, s, k, g, c)
    BY <1>3
  <2> DEFINE ev == events[n]
  <2>2. ev \in Event /\ n \in 1 .. Len(events)
    BY <1>0 DEF N
  <2>3. /\ k \in Seq(Event) /\ Sifted(k, events, n - 1) /\ Watching(s, ids, g)
        /\ DOMAIN s \subseteq DOMAIN t /\ c \in BOOLEAN
        /\ \A i \in 1 .. L : found[i] # NoReply => g[i] # NoReply
        /\ \A i \in 1 .. L, j \in 1 .. Len(k) : match_event(Bundle[i], k[j]) => g[i] # NoReply
    BY <2>1 DEF BundleSoFar, L
  <2>4. f[n] = bundle_feeds([slots |-> s, kept |-> k, got |-> g, fenced |-> c], ids, ev)
    BY <1>1, <2>1
  <2>5. ASSUME Expected(t, events)
        PROVE  /\ Silent(k)
               /\ \A i \in 1 .. L : g[i] = found[i] \/ g[i].n = ids[i]
               /\ \A i \in DOMAIN t \ DOMAIN s :
                    \E m \in 1 .. n - 1 : events[m].kind = "reply" /\ events[m].n = i
               /\ c = TRUE => \E m \in 1 .. n - 1 : events[m].kind = "reply" /\ events[m].n = ids[L]
    BY <2>1, <2>5 DEF BundleSoFar, AsExpected, L
  \* A reply that is expected is still waited for when it comes.
  <2>6. ASSUME Expected(t, events), ev.kind = "reply"
        PROVE  /\ ev.n \in DOMAIN s /\ ev.n \in DOMAIN t
               /\ t[ev.n].expectation = ev.to
    <3>1. ev.n \in DOMAIN t /\ t[ev.n].expectation = ev.to
      BY <2>2, <2>6 DEF Expected
    <3>2. ev.n \in DOMAIN s
      <4>1. SUFFICES ASSUME ev.n \notin DOMAIN s PROVE FALSE
        OBVIOUS
      <4>2. PICK m \in 1 .. n - 1 : events[m].kind = "reply" /\ events[m].n = ev.n
        BY <2>5, <2>6, <3>1, <4>1
      <4>3. m \in DOMAIN events /\ n \in DOMAIN events /\ m < n
        BY <1>0
      <4>4. events[m].n < ev.n
        BY <2>6, <4>2, <4>3 DEF Expected, in_order
      <4>5. ev.n \in Nat
        BY <2>2, <2>6, KindsOfEvents, DriverAssumption
      <4> QED  BY <4>2, <4>4, <4>5
    <3> QED  BY <3>1, <3>2
  <2>7. \A m \in 1 .. n - 1 : m \in 1 .. n
    OBVIOUS
  <2>8. CASE feed_id(s, ev) = NoId
    <3>1. f[n] = [slots |-> s, kept |-> Append(k, ev), got |-> g, fenced |-> c]
      BY <2>4, <2>8 DEF bundle_feeds
    <3>2. Append(k, ev) \in Seq(Event) /\ Sifted(Append(k, ev), events, n)
      BY <2>2, <2>3, SiftKeeps, AppendProperties
    <3>3. ASSUME NEW i \in 1 .. L, NEW j \in 1 .. Len(Append(k, ev)),
                 match_event(Bundle[i], Append(k, ev)[j])
          PROVE  g[i] # NoReply
      <4>1. Len(k) \in Nat /\ Len(Append(k, ev)) = Len(k) + 1
        BY <2>2, <2>3, AppendProperties, LenProperties
      <4>2. CASE j \in 1 .. Len(k)
        <5>1. Append(k, ev)[j] = k[j]
          BY <2>2, <2>3, <4>2, AppendProperties
        <5> QED  BY <2>3, <3>3, <4>2, <5>1
      <4>3. CASE j = Len(k) + 1
        <5>1. Append(k, ev)[j] = ev
          BY <2>2, <2>3, <4>3, AppendProperties
        <5> QED  BY <2>2, <2>3, <2>8, <3>3, <5>1, PassesWatch DEF L
      <4> QED  BY <4>1, <4>2, <4>3
    <3>4. ASSUME Expected(t, events) PROVE ev.kind # "reply"
      <4>1. SUFFICES ASSUME ev.kind = "reply" PROVE FALSE
        OBVIOUS
      <4>2. ev.n \in DOMAIN s /\ ev.n \in DOMAIN t /\ t[ev.n].expectation = ev.to
        BY <2>6, <3>4, <4>1
      <4>3. PICK i \in 1 .. L : ids[i] = ev.n
        BY <2>3, <4>2 DEF Watching, L
      <4>4. t[ids[i]].expectation = Bundle[i] /\ s[ids[i]].expectation = Bundle[i]
        BY <2>3, <4>2, <4>3 DEF Watching, L
      <4>5. match_event(Bundle[i], ev)
        BY <2>2, <4>1, <4>2, <4>3, <4>4, BundleAsksOnce, OnlyItsReplyMatches DEF L
      <4>6. g[i] # NoReply
        BY <2>2, <2>3, <2>8, <4>5, PassesWatch DEF L
      <4> QED  BY <2>3, <4>2, <4>3, <4>6 DEF Watching, L
    <3>5. ASSUME Expected(t, events)
          PROVE  AsExpected(t, ids, found, events, n, s, Append(k, ev), g, c)
      <4>1. Silent(Append(k, ev))
        BY <2>2, <2>3, <2>5, <3>4, <3>5, SilentAppend
      <4> HIDE DEF ev
      <4> QED  BY <2>5, <2>7, <3>5, <4>1 DEF AsExpected, L
    <3>6. BundleSoFar(t, ids, found, events, n, s, Append(k, ev), g, c)
      <4> HIDE DEF ev
      <4> QED  BY <2>3, <3>2, <3>3, <3>5 DEF BundleSoFar, L
    <3> HIDE DEF ev
    <3> QED  BY <3>1, <3>6
  <2>9. CASE feed_id(s, ev) # NoId
    <3>0. PICK p \in 1 .. Len(Bundle) : AnswersPlace(s, ids, g, ev, p)
      <4> HIDE DEF ev
      <4> QED  BY <2>2, <2>3, <2>9, WatchTakes
    <3>1. /\ feed_id(s, ev) = ids[p] /\ ids[p] \in DOMAIN s
          /\ ev.kind = "reply" /\ ev.to = Bundle[p]
          /\ take_reply(feed(s, ev), ids[p]) = Without(s, {ids[p]})
      BY <3>0 DEF AnswersPlace
    <3> DEFINE h == answered(g, ids, p, ev)
               u == Without(s, {ids[p]})
               d == c \/ (\E i \in DOMAIN ids : ids[i] = ids[p] /\ Bundle[i] = Fence)
    <3>2. f[n] = [slots |-> u, kept |-> k, got |-> h, fenced |-> d]
      <4> DEFINE acc == [slots |-> s, kept |-> k, got |-> g, fenced |-> c]
                 v == take_reply(feed(s, ev), ids[p])
      <4>1. acc.slots = s /\ acc.kept = k /\ acc.got = g /\ acc.fenced = c
        BY Zenon
      <4>2. f[n] = bundle_feeds(acc, ids, ev)
        BY <2>4
      <4> HIDE DEF acc
      <4>3. bundle_feeds(acc, ids, ev) = [slots |-> v, kept |-> k, got |-> h, fenced |-> d]
        BY <2>9, <3>1, <4>1, Zenon DEF bundle_feeds, answered
      <4>4. v = u
        BY <3>1
      <4> QED  BY <4>2, <4>3, <4>4, Zenon
    <3>3. Watching(u, ids, h) /\ h[p] = ev /\ \A i \in 1 .. L : i # p => h[i] = g[i]
      BY <3>0 DEF L, AnswersPlace
    <3>4. DOMAIN u = DOMAIN s \ {ids[p]}
      BY DEF Without
    <3>5. d \in BOOLEAN
      OBVIOUS
    <3>6. d = TRUE => c = TRUE \/ p = L
      <4>1. ASSUME NEW i \in DOMAIN ids, ids[i] = ids[p], Bundle[i] = Fence
            PROVE  p = L
        BY <4>1, IdsDiffer, BundleAsksOnce DEF L, Numbered
      <4> QED  BY <2>3, <4>1
    <3>7. p \in 1 .. L
      BY DEF L
    <3> HIDE DEF h, u, d
    <3>8. Sifted(k, events, n)
      BY <2>2, <2>3, <3>1, SiftDrops
    <3>9. ASSUME NEW i \in 1 .. L, g[i] # NoReply PROVE h[i] # NoReply
      BY <2>2, <3>3, <3>9, DriverAssumption
    <3>10. ASSUME Expected(t, events)
           PROVE  AsExpected(t, ids, found, events, n, u, k, h, d)
      <4>1. ev.n = ids[p]
        <5>1. ev.n \in DOMAIN s /\ ev.n \in DOMAIN t /\ t[ev.n].expectation = ev.to
          BY <2>6, <3>1, <3>10
        <5>2. PICK i \in 1 .. L : ids[i] = ev.n
          BY <2>3, <5>1 DEF Watching, L
        <5>3. t[ids[i]].expectation = Bundle[i]
          BY <5>1, <5>2 DEF Watching, L
        <5>4. Bundle[i] = Bundle[p]
          BY <3>1, <5>1, <5>2, <5>3
        <5>5. i = p
          BY <3>7, <5>4, BundleAsksOnce DEF L
        <5> QED  BY <5>2, <5>5
      <4>2. \A i \in 1 .. L : h[i] = found[i] \/ h[i].n = ids[i]
        <5>1. SUFFICES ASSUME NEW i \in 1 .. L PROVE h[i] = found[i] \/ h[i].n = ids[i]
          OBVIOUS
        <5>2. CASE i = p
          BY <3>3, <4>1, <5>2
        <5>3. CASE i # p
          BY <2>5, <3>3, <3>10, <5>3
        <5> QED  BY <5>2, <5>3
      <4>3. ASSUME NEW i \in DOMAIN t \ DOMAIN u
            PROVE  \E m \in 1 .. n : events[m].kind = "reply" /\ events[m].n = i
        <5>1. CASE i = ids[p]
          <6>1. n \in 1 .. n /\ events[n].kind = "reply" /\ events[n].n = i
            BY <3>1, <4>1, <5>1
          <6> QED  BY <6>1
        <5>2. CASE i # ids[p]
          <6>1. i \in DOMAIN t \ DOMAIN s
            BY <3>4, <4>3, <5>2
          <6> QED  BY <2>5, <2>7, <3>10, <6>1
        <5> QED  BY <5>1, <5>2
      <4>4. ASSUME d = TRUE
            PROVE  \E m \in 1 .. n : events[m].kind = "reply" /\ events[m].n = ids[L]
        <5>1. CASE c = TRUE
          BY <2>5, <2>7, <3>10, <5>1
        <5>2. CASE p = L
          <6>1. n \in 1 .. n /\ events[n].kind = "reply" /\ events[n].n = ids[L]
            BY <3>1, <4>1, <5>2
          <6> QED  BY <6>1
        <5> QED  BY <3>6, <4>4, <5>1, <5>2
      <4> HIDE DEF ev
      <4> QED  BY <2>5, <3>10, <4>2, <4>3, <4>4 DEF AsExpected, L
    <3>11. BundleSoFar(t, ids, found, events, n, u, k, h, d)
      <4>1. DOMAIN u \subseteq DOMAIN t
        BY <2>3, <3>4
      <4> HIDE DEF ev
      <4> QED  BY <2>3, <3>3, <3>5, <3>8, <3>9, <3>10, <4>1 DEF BundleSoFar, L
    <3> HIDE DEF ev
    <3> QED  BY <3>2, <3>11
  <2> QED  BY <2>8, <2>9
<1>4. N \in P
  <2> HIDE DEF J
  <2>1. P \in SUBSET (0 .. N) /\ 0 \in P
    BY <1>0, <1>2
  <2>2. \A n \in 1 .. N : n - 1 \in P => n \in P
    BY <1>3
  <2>3. P = 0 .. N
    <3> HIDE DEF P
    <3> QED  BY <1>0, <2>1, <2>2, CountingUp
  <2> HIDE DEF P
  <2> QED  BY <1>0, <2>3
<1> QED
  BY <1>1, <1>4 DEF N

-----------------------------------------------------------------------------
(***************************************************************************)
(* What the inductive invariant says of the call in flight.                *)
(***************************************************************************)
CallType == [ kind : {"none", "query", "probe"},
              at : { "idle", "write", "read", "answered", "fenced",
                     "timeout", "eof", "failed", "dropped" },
              ids : Seq(0 .. MaxIds - 1), got : Seq(Event \cup {NoReply}) ]

LEMMA CallShape ==
  ASSUME IInv
  PROVE  /\ call \in CallType
         /\ Len(call.ids) \in Nat /\ Len(call.got) = Len(call.ids)
         /\ DOMAIN call.ids = 1 .. Len(call.ids)
         /\ \A k \in 1 .. Len(call.ids) : call.ids[k] \in 0 .. MaxIds - 1 /\ call.ids[k] \in Nat
         /\ \A k, l \in 1 .. Len(call.ids) : k < l => call.ids[k] < call.ids[l]
         /\ ToSet(call.ids) = {call.ids[k] : k \in 1 .. Len(call.ids)}
<1>1. call \in CallType /\ Len(call.got) = Len(call.ids) /\ next_id \in Nat
  BY DriverAssumption DEF IInv, TypeOK, CallType
<1>2. call.ids \in Seq(0 .. MaxIds - 1)
  BY <1>1 DEF CallType
<1>3. Len(call.ids) \in Nat /\ DOMAIN call.ids = 1 .. Len(call.ids)
  BY <1>2, LenProperties
<1>4. \A k \in 1 .. Len(call.ids) : call.ids[k] \in 0 .. MaxIds - 1
  BY <1>2, ElementOfSeq
<1>5. \A k \in 1 .. Len(call.ids) : call.ids[k] = next_id - Len(call.ids) + k - 1
  BY <1>3 DEF IInv, CallIsRecorded
<1>6. \A k, l \in 1 .. Len(call.ids) : k < l => call.ids[k] < call.ids[l]
  <2>1. \A a, b, k, l \in Nat : k < l => a - b + k - 1 < a - b + l - 1
    OBVIOUS
  <2>2. \A k \in 1 .. Len(call.ids) : k \in Nat
    BY <1>3
  <2> QED  BY <1>1, <1>3, <1>5, <2>1, <2>2
<1>7. ToSet(call.ids) = {call.ids[k] : k \in 1 .. Len(call.ids)}
  BY <1>3 DEF ToSet
<1> QED
  BY <1>1, <1>3, <1>4, <1>6, <1>7, DriverAssumption

LEMMA SlotsAreTracked ==
  ASSUME IInv
  PROVE  Tracked(slots) /\ next_id \in Nat /\ DOMAIN slots \subseteq 0 .. next_id - 1
<1>1. next_id \in Nat /\ DOMAIN slots \subseteq 0 .. next_id - 1 /\ slots \in [DOMAIN slots -> Slot]
  BY DriverAssumption DEF IInv, TypeOK
<1>2. \A i \in DOMAIN slots : slots[i].outstanding = 1
  BY DEF IInv, SlotsAreOfTheCall
<1> QED
  BY <1>1, <1>2 DEF Tracked

LEMMA QueryWaits ==
  ASSUME IInv, in_flight, call.kind = "query"
  PROVE  /\ Len(call.ids) = 1 /\ call.ids[1] \in 0 .. MaxIds - 1
         /\ DOMAIN slots = {call.ids[1]} /\ ~ is_completed(slots, call.ids[1])
         /\ call.got[1] = NoReply
         /\ active_query = call.ids[1] /\ active_probe = <<>>
         /\ call.ids[1] = next_id - 1
<1>1. Len(call.ids) = 1
  BY DEF IInv, CallIsRecorded
<1>2. DOMAIN call.ids = {1} /\ call.ids[1] \in 0 .. MaxIds - 1
  BY <1>1, CallShape
<1>3. call.got[1] = NoReply
  BY <1>2 DEF IInv, SlotsAreOfTheCall, in_flight
<1>4. call.ids[1] \in DOMAIN slots
  BY <1>2, <1>3 DEF IInv, SlotsAreOfTheCall
<1>5. DOMAIN slots \subseteq {call.ids[1]}
  <2>1. DOMAIN slots \subseteq ToSet(call.ids)
    BY DEF IInv, SlotsAreOfTheCall
  <2> QED  BY <1>2, <2>1 DEF ToSet
<1>6. ~ is_completed(slots, call.ids[1])
  BY <1>4 DEF IInv, SlotsAreOfTheCall
<1>7. active_query = call.ids[1] /\ active_probe = <<>>
  BY DEF IInv, CallIsRecorded, in_flight
<1>8. call.ids[1] = next_id - 1
  <2>1. call.ids[1] = next_id - 1 + 1 - 1
    BY <1>1, <1>2 DEF IInv, CallIsRecorded
  <2> QED  BY <2>1, SlotsAreTracked
<1> QED
  BY <1>1, <1>2, <1>3, <1>4, <1>5, <1>6, <1>7, <1>8

LEMMA ProbeWaits ==
  ASSUME IInv, call.kind = "probe"
  PROVE  /\ Len(call.ids) = Len(Bundle) /\ Numbered(call.ids)
         /\ in_flight => /\ Watching(slots, call.ids, call.got)
                         /\ active_query = NoId /\ active_probe = call.ids
<1>1. Len(call.ids) = Len(Bundle) /\ Len(Bundle) \in Nat
  BY BundleAsksOnce DEF IInv, CallIsRecorded
<1>2. Numbered(call.ids)
  BY <1>1, CallShape DEF Numbered
<1>3. ASSUME in_flight PROVE Watching(slots, call.ids, call.got)
  <2>1. Tracked(slots) /\ \A i \in DOMAIN slots : ~ is_completed(slots, i)
    BY <1>3, SlotsAreTracked DEF IInv, SlotsAreOfTheCall
  <2>2. call.got \in Seq(Event \cup {NoReply}) /\ Len(call.got) = Len(Bundle)
    BY <1>1, CallShape DEF CallType
  <2>3. DOMAIN slots \subseteq {call.ids[i] : i \in 1 .. Len(Bundle)}
    <3>1. DOMAIN slots \subseteq ToSet(call.ids)
      BY DEF IInv, SlotsAreOfTheCall
    <3> QED  BY <1>1, <3>1, CallShape
  <2>4. DOMAIN call.ids = 1 .. Len(Bundle)
    BY <1>1, CallShape
  <2>5. \A i \in 1 .. Len(Bundle) : call.ids[i] \in DOMAIN slots => slots[call.ids[i]].expectation = Bundle[i]
    BY <2>4 DEF IInv, SlotsAreOfTheCall
  <2>6. \A i \in 1 .. Len(Bundle) : call.got[i] = NoReply <=> call.ids[i] \in DOMAIN slots
    BY <1>3, <2>4 DEF IInv, SlotsAreOfTheCall
  <2> QED
    BY <2>1, <2>2, <2>3, <2>5, <2>6 DEF Watching
<1>4. in_flight => active_query = NoId /\ active_probe = call.ids
  BY DEF IInv, CallIsRecorded, in_flight
<1> QED
  BY <1>1, <1>2, <1>3, <1>4

(***************************************************************************)
(* What becomes of the session when a call takes a batch, read or drained. *)
(***************************************************************************)
Claimed(queue, got) ==
  \A i \in 1 .. Len(Bundle), j \in 1 .. Len(queue) :
     match_event(Bundle[i], queue[j]) => got[i] # NoReply

StillWaited(events, x) ==
  /\ call'.at = "read"
  /\ x \in DOMAIN slots' /\ slots'[x].expectation = slots[x].expectation

Own(c) == \A k \in 1 .. Len(c.ids) : c.got[k] # NoReply => c.got[k].n = c.ids[k]

Taken(queue, events) ==
  /\ \E k \in Seq(Event) : /\ pending' = queue \o k
                           /\ Sifted(k, events, Len(events))
                           /\ Expected(slots, events) => Silent(k)
  /\ next_id' = next_id
  /\ Tracked(slots') /\ DOMAIN slots' \subseteq DOMAIN slots
  /\ active_query' \in {active_query, NoId} /\ active_probe' \in {active_probe, <<>>}
  /\ call' \in CallType /\ Len(call'.got) = Len(call'.ids)
  /\ call'.kind = call.kind /\ call'.ids = call.ids
  /\ CallIsRecorded' /\ SlotsAreOfTheCall'
  /\ call'.at \in {"read", "answered", "fenced"}
  /\ call.kind = "probe" /\ Claimed(queue, call.got) => Claimed(pending', call'.got)
  /\ Expected(slots, events) =>
       /\ Own(call) => Own(call')
       /\ \A x \in DOMAIN slots :
            (\A m \in 1 .. Len(events) : events[m].kind = "reply" => events[m].n < x)
              => StillWaited(events, x)

goes_on(a, g) == [call EXCEPT !.at = a, !.got = g]

LEMMA CallGoesOn ==
  ASSUME IInv, NEW a \in { "read", "answered", "fenced", "timeout", "eof", "failed", "dropped" },
         NEW g \in Seq(Event \cup {NoReply}), Len(g) = Len(call.ids)
  PROVE  /\ goes_on(a, g) \in CallType /\ Len(goes_on(a, g).got) = Len(goes_on(a, g).ids)
         /\ goes_on(a, g).kind = call.kind /\ goes_on(a, g).ids = call.ids
         /\ goes_on(a, g).at = a /\ goes_on(a, g).got = g
  BY CallShape DEF CallType, goes_on

LEMMA TakenByQuery ==
  ASSUME IInv, in_flight, call.kind = "query",
         NEW queue \in Seq(Event), NEW events \in Seq(Event), QueryTakes(queue, events)
  PROVE  Taken(queue, events)
<1> DEFINE id == call.ids[1]
<1>1. /\ Len(call.ids) = 1 /\ id \in 0 .. MaxIds - 1
      /\ DOMAIN slots = {id} /\ ~ is_completed(slots, id)
      /\ call.got[1] = NoReply /\ active_query = id /\ active_probe = <<>> /\ id = next_id - 1
  BY QueryWaits
<1>2. Tracked(slots)
  BY SlotsAreTracked
<1>3. PICK s, k, r : /\ feed_into_query(slots, id, events) = [slots |-> s, kept |-> k, reply |-> r]
                     /\ QuerySoFar(slots, id, events, Len(events), s, k, r)
  <2> HIDE DEF id
  <2> QED  BY <1>1, <1>2, QueryFeeds
<1>4. /\ slots' = s /\ pending' = queue \o k
      /\ call' = [call EXCEPT !.at = IF r = NoReply THEN "read" ELSE "answered", !.got = <<r>>]
      /\ active_query' = IF r = NoReply THEN active_query ELSE NoId
      /\ next_id' = next_id /\ active_probe' = active_probe
  BY <1>3 DEF QueryTakes
<1>5. /\ k \in Seq(Event) /\ Sifted(k, events, Len(events))
      /\ Expected(slots, events) => Silent(k)
      /\ r = NoReply => s = slots
      /\ r # NoReply => /\ s = Without(slots, {id})
                        /\ \E m \in 1 .. Len(events) : r = events[m]
                        /\ r \in Event /\ r.kind = "reply"
  BY <1>3 DEF QuerySoFar
<1>6. <<r>> \in Seq(Event \cup {NoReply}) /\ Len(<<r>>) = 1 /\ <<r>>[1] = r
  BY <1>5
<1> DEFINE a == IF r = NoReply THEN "read" ELSE "answered"
<1>7. /\ call' \in CallType /\ Len(call'.got) = Len(call'.ids)
      /\ call'.kind = "query" /\ call'.ids = call.ids /\ call'.at = a /\ call'.got = <<r>>
  <2>1. a \in { "read", "answered", "fenced", "timeout", "eof", "failed", "dropped" }
    OBVIOUS
  <2> DEFINE g == <<r>>
  <2>2. call' = goes_on(a, g)
    BY <1>4 DEF goes_on
  <2>4. g \in Seq(Event \cup {NoReply})
    BY <1>6
  <2>3. Len(g) = Len(call.ids)
    BY <1>1, <1>6
  <2> HIDE DEF a, g
  <2>5. call' \in CallType /\ Len(call'.got) = Len(call'.ids)
        /\ call'.kind = call.kind /\ call'.ids = call.ids /\ call'.at = a /\ call'.got = g
    BY <2>1, <2>2, <2>3, <2>4, CallGoesOn
  <2> QED  BY <2>5 DEF g
<1>8. DOMAIN call.ids = {1} /\ ToSet(call.ids) = {id}
  <2>1. DOMAIN call.ids = {1}
    BY <1>1, CallShape
  <2> QED  BY <2>1 DEF ToSet
<1>9. CASE r = NoReply
  <2>1. slots' = slots /\ active_query' = active_query /\ call'.at = "read"
    BY <1>4, <1>5, <1>7, <1>9
  <2>2. CallIsRecorded'
    BY <1>1, <1>4, <1>7, <2>1 DEF CallIsRecorded, IInv
  <2>3. SlotsAreOfTheCall'
    <3>1. \A i \in DOMAIN slots : slots[i].outstanding = 1 /\ ~ is_completed(slots, i)
      BY <1>1, <1>2 DEF Tracked
    <3> QED
      BY <1>1, <1>6, <1>7, <1>8, <1>9, <2>1, <3>1 DEF SlotsAreOfTheCall, in_flight
  <2>4. ASSUME Expected(slots, events)
        PROVE  /\ Own(call) => Own(call')
               /\ \A x \in DOMAIN slots : StillWaited(events, x)
    <3>1. Own(call')
      BY <1>1, <1>6, <1>7, <1>9 DEF Own
    <3>2. \A x \in DOMAIN slots : StillWaited(events, x)
      BY <2>1 DEF StillWaited
    <3> QED  BY <3>1, <3>2
  <2> QED
    BY <1>2, <1>4, <1>5, <1>7, <2>1, <2>2, <2>3, <2>4 DEF Taken
<1>10. CASE r # NoReply
  <2>1. /\ DOMAIN slots' = {} /\ Tracked(slots') /\ active_query' = NoId /\ call'.at = "answered"
    <3>1. DOMAIN Without(slots, {id}) = {} /\ Tracked(Without(slots, {id}))
      <4>1. DOMAIN slots \ {id} = {}
        BY <1>1
      <4> QED  BY <1>2, <4>1 DEF Without, Tracked
    <3> QED  BY <1>4, <1>5, <1>7, <1>10, <3>1
  <2>2. CallIsRecorded'
    BY <1>1, <1>4, <1>7, <2>1 DEF CallIsRecorded, IInv
  <2>3. SlotsAreOfTheCall'
    BY <1>7, <2>1 DEF SlotsAreOfTheCall, in_flight
  <2>4. ASSUME Expected(slots, events)
        PROVE  /\ Own(call) => Own(call')
               /\ \A x \in DOMAIN slots :
                    (\A m \in 1 .. Len(events) : events[m].kind = "reply" => events[m].n < x)
                      => StillWaited(events, x)
    <3>1. PICK m \in 1 .. Len(events) : r = events[m] /\ events[m].kind = "reply"
      BY <1>5, <1>10
    <3>2. r.n = id
      BY <1>1, <2>4, <3>1 DEF Expected
    <3>3. Own(call')
      BY <1>1, <1>6, <1>7, <3>2 DEF Own
    <3>4. ~ (r.n < id)
      BY <1>1, <3>2
    <3> HIDE DEF id
    <3> QED  BY <1>1, <3>1, <3>3, <3>4
  <2>5. DOMAIN slots' \subseteq DOMAIN slots
    BY <2>1
  <2> QED
    BY <1>4, <1>5, <1>7, <2>1, <2>2, <2>3, <2>4, <2>5 DEF Taken
<1> QED
  BY <1>9, <1>10

LEMMA TakenByProbe ==
  ASSUME IInv, in_flight, call.kind = "probe",
         NEW queue \in Seq(Event), NEW events \in Seq(Event), ProbeTakes(queue, events)
  PROVE  Taken(queue, events)
<1> DEFINE ids == call.ids
           got == call.got
           L == Len(Bundle)
<1>1. /\ Len(ids) = L /\ Numbered(ids) /\ Watching(slots, ids, got)
      /\ active_query = NoId /\ active_probe = ids
  BY ProbeWaits
<1>2. Tracked(slots) /\ next_id \in Nat
  BY SlotsAreTracked
<1>3. PICK s, k, g, c :
        /\ feed_into_bundle(slots, ids, got, events)
             = [slots |-> s, kept |-> k, got |-> g, fenced |-> c]
        /\ BundleSoFar(slots, ids, got, events, Len(events), s, k, g, c)
  <2> HIDE DEF ids, got
  <2> QED  BY <1>1, BundleFeeds
<1>4. /\ k \in Seq(Event) /\ Sifted(k, events, Len(events))
      /\ Watching(s, ids, g) /\ DOMAIN s \subseteq DOMAIN slots
      /\ c \in BOOLEAN
      /\ \A i \in 1 .. L : got[i] # NoReply => g[i] # NoReply
      /\ \A i \in 1 .. L, j \in 1 .. Len(k) : match_event(Bundle[i], k[j]) => g[i] # NoReply
  BY <1>3 DEF BundleSoFar
<1>5. ASSUME Expected(slots, events)
      PROVE  AsExpected(slots, ids, got, events, Len(events), s, k, g, c)
  BY <1>3, <1>5 DEF BundleSoFar
<1> DEFINE a == IF c THEN "fenced" ELSE "read"
<1>6. /\ slots' = IF c THEN resolve_all(s, ids) ELSE s
      /\ pending' = queue \o k
      /\ call' = goes_on(a, g)
      /\ active_probe' = IF c THEN <<>> ELSE active_probe
      /\ next_id' = next_id /\ active_query' = active_query
  BY <1>3 DEF ProbeTakes, goes_on
<1>7. L \in Nat \ {0} /\ DOMAIN ids = 1 .. L /\ \A i \in 1 .. L : ids[i] \in Nat
  BY <1>1, BundleAsksOnce DEF Numbered
<1>8. /\ g \in Seq(Event \cup {NoReply}) /\ Len(g) = L /\ Tracked(s)
  BY <1>4 DEF Watching
<1>9. /\ call' \in CallType /\ Len(call'.got) = Len(call'.ids)
      /\ call'.kind = "probe" /\ call'.ids = ids /\ call'.at = a /\ call'.got = g
  <2>1. a \in { "read", "answered", "fenced", "timeout", "eof", "failed", "dropped" }
    OBVIOUS
  <2> HIDE DEF a
  <2>2. /\ call' \in CallType /\ Len(call'.got) = Len(call'.ids)
        /\ call'.kind = call.kind /\ call'.ids = call.ids /\ call'.at = a /\ call'.got = g
    BY <1>1, <1>6, <1>8, <2>1, CallGoesOn
  <2> QED  BY <2>2
<1>10. Claimed(queue, got) => Claimed(pending', call'.got)
  <2>1. SUFFICES ASSUME Claimed(queue, got), NEW i \in 1 .. L, NEW j \in 1 .. Len(queue \o k),
                        match_event(Bundle[i], (queue \o k)[j])
                 PROVE  g[i] # NoReply
    BY <1>6, <1>9 DEF Claimed
  <2>2. DOMAIN queue = 1 .. Len(queue) /\ DOMAIN k = 1 .. Len(k) /\ DOMAIN (queue \o k) = 1 .. Len(queue \o k)
    BY <1>4, Joined
  <2>3. CASE j \in DOMAIN queue
    <3>1. (queue \o k)[j] = queue[j]
      BY <1>4, <2>3, Joined
    <3> QED  BY <1>4, <2>1, <2>2, <2>3, <3>1 DEF Claimed
  <2>4. CASE \E l \in DOMAIN k : j = Len(queue) + l
    <3>1. PICK l \in DOMAIN k : j = Len(queue) + l
      BY <2>4
    <3>2. (queue \o k)[j] = k[l]
      BY <1>4, <3>1, Joined
    <3> QED  BY <1>4, <2>1, <2>2, <3>1, <3>2
  <2>5. \A x \in DOMAIN (queue \o k) : x \in DOMAIN queue \/ \E l \in DOMAIN k : x = Len(queue) + l
    BY <1>4, Joined
  <2> QED  BY <2>2, <2>3, <2>4, <2>5
<1>11. ASSUME Expected(slots, events)
       PROVE  /\ Silent(k) /\ (Own(call) => Own(call'))
  <2>1. Silent(k) /\ \A i \in 1 .. L : g[i] = got[i] \/ g[i].n = ids[i]
    BY <1>5, <1>11 DEF AsExpected
  <2>2. Own(call) => Own(call')
    BY <1>1, <1>9, <2>1 DEF Own
  <2> QED  BY <2>1, <2>2
<1>12. CASE ~ c
  <2>1. slots' = s /\ active_probe' = active_probe /\ call'.at = "read"
    BY <1>6, <1>9, <1>12
  <2>2. CallIsRecorded'
    BY <1>1, <1>6, <1>9, <2>1 DEF CallIsRecorded, IInv
  <2>3. SlotsAreOfTheCall'
    <3>1. \A i \in DOMAIN s : s[i].outstanding = 1 /\ ~ is_completed(s, i)
      BY <1>4 DEF Watching, Tracked
    <3>2. DOMAIN s \subseteq ToSet(ids)
      BY <1>4, <1>7 DEF Watching, ToSet
    <3>3. \A i \in 1 .. L : ids[i] \in DOMAIN s => s[ids[i]].expectation = Bundle[i]
      BY <1>4 DEF Watching
    <3>4. \A i \in 1 .. L : g[i] = NoReply <=> ids[i] \in DOMAIN s
      BY <1>4 DEF Watching
    <3> HIDE DEF ids, L
    <3> QED
      BY <1>7, <1>9, <2>1, <3>1, <3>2, <3>3, <3>4 DEF SlotsAreOfTheCall, in_flight
  <2>4. ASSUME Expected(slots, events), NEW x \in DOMAIN slots,
               \A m \in 1 .. Len(events) : events[m].kind = "reply" => events[m].n < x
        PROVE  StillWaited(events, x)
    <3>1. x \in Nat
      BY <1>2 DEF Tracked
    <3>2. x \in DOMAIN s
      <4>1. SUFFICES ASSUME x \notin DOMAIN s PROVE FALSE
        OBVIOUS
      <4>2. PICK m \in 1 .. Len(events) : events[m].kind = "reply" /\ events[m].n = x
        BY <1>5, <2>4, <4>1 DEF AsExpected
      <4> QED  BY <2>4, <3>1, <4>2
    <3>3. PICK i \in 1 .. L : x = ids[i]
      BY <1>4, <3>2 DEF Watching
    <3>4. s[x].expectation = Bundle[i] /\ slots[x].expectation = Bundle[i]
      BY <1>1, <1>4, <3>2, <3>3 DEF Watching
    <3> QED  BY <2>1, <3>2, <3>4 DEF StillWaited
  <2> QED
    BY <1>4, <1>6, <1>8, <1>9, <1>10, <1>11, <2>1, <2>2, <2>3, <2>4 DEF Taken
<1>13. CASE c
  <2>1. DOMAIN slots' = {} /\ Tracked(slots') /\ active_probe' = <<>> /\ call'.at = "fenced"
    <3>1. resolve_all(s, ids) = Without(s, {ids[i] : i \in 1 .. Len(ids)})
      <4> HIDE DEF ids
      <4> QED  BY <1>1, <1>7, <1>8, ResolveAllRemoves
    <3>2. DOMAIN s \subseteq {ids[i] : i \in 1 .. Len(ids)}
      BY <1>1, <1>4 DEF Watching
    <3>3. DOMAIN slots' = {}
      BY <1>6, <1>13, <3>1, <3>2 DEF Without
    <3>4. Tracked(slots')
      BY <1>6, <1>8, <1>13, <3>1, <3>3 DEF Tracked, Without
    <3> QED  BY <1>6, <1>9, <1>13, <3>3, <3>4
  <2>2. CallIsRecorded'
    BY <1>1, <1>6, <1>9, <2>1 DEF CallIsRecorded, IInv
  <2>3. SlotsAreOfTheCall'
    BY <1>9, <2>1 DEF SlotsAreOfTheCall, in_flight
  <2>4. ASSUME Expected(slots, events), NEW x \in DOMAIN slots,
               \A m \in 1 .. Len(events) : events[m].kind = "reply" => events[m].n < x
        PROVE  FALSE
    <3>1. PICK m \in 1 .. Len(events) : events[m].kind = "reply" /\ events[m].n = ids[L]
      BY <1>5, <1>13, <2>4 DEF AsExpected
    <3>2. PICK i \in 1 .. L : x = ids[i]
      BY <1>1, <2>4 DEF Watching
    <3>3. ids[i] <= ids[L]
      BY <1>1, <1>7 DEF Numbered
    <3> QED  BY <1>7, <2>4, <3>1, <3>2, <3>3
  <2>5. DOMAIN slots' \subseteq DOMAIN slots
    BY <2>1
  <2> QED
    BY <1>4, <1>6, <1>9, <1>10, <1>11, <2>1, <2>2, <2>3, <2>4, <2>5 DEF Taken
<1> QED
  BY <1>4, <1>12, <1>13

LEMMA BatchTaken ==
  ASSUME IInv, in_flight, NEW queue \in Seq(Event), NEW events \in Seq(Event),
         CallTakes(queue, events)
  PROVE  Taken(queue, events) /\ call.kind \in {"query", "probe"}
  BY TakenByQuery, TakenByProbe DEF CallTakes

-----------------------------------------------------------------------------
(***************************************************************************)
(* The sweep at the start of a call leaves nothing tracked.                *)
(***************************************************************************)
LEMMA NothingElseTracked ==
  ASSUME IInv
  PROVE  DOMAIN resolve_all(slots, call.ids) = {} /\ Tracked(resolve_all(slots, call.ids))
<1> DEFINE ids == call.ids
           gone == {ids[k] : k \in 1 .. Len(ids)}
<1>1. Tracked(slots) /\ Len(ids) \in Nat
  BY SlotsAreTracked, CallShape
<1>2. resolve_all(slots, ids) = Without(slots, gone)
  <2> HIDE DEF ids
  <2> QED  BY <1>1, ResolveAllRemoves
<1>3. DOMAIN slots \subseteq gone
  BY CallShape DEF IInv, SlotsAreOfTheCall
<1> HIDE DEF gone, ids
<1>4. DOMAIN Without(slots, gone) = {}
  BY <1>3 DEF Without
<1>5. Tracked(Without(slots, gone))
  BY <1>1, WithoutIsTracked
<1> QED
  BY <1>2, <1>4, <1>5 DEF ids

LEMMA ResolvingNothing ==
  ASSUME NEW t, DOMAIN t = {}, Tracked(t), NEW ids, Len(ids) \in Nat
  PROVE  DOMAIN resolve_all(t, ids) = {} /\ Tracked(resolve_all(t, ids))
<1> DEFINE gone == {ids[k] : k \in 1 .. Len(ids)}
<1>1. resolve_all(t, ids) = Without(t, gone)
  BY ResolveAllRemoves
<1> HIDE DEF gone
<1>2. DOMAIN Without(t, gone) = {} /\ Tracked(Without(t, gone))
  BY WithoutIsTracked
<1> QED
  BY <1>1, <1>2

LEMMA SweptClean ==
  ASSUME IInv
  PROVE  DOMAIN swept = {} /\ Tracked(swept)
<1> DEFINE t == sweep_active_query(slots)
<1>0. Tracked(slots)
  BY SlotsAreTracked
<1>1. swept = resolve_all(t, active_probe)
  BY DEF swept, sweep_active_probe
<1>2. CASE call.at \in {"write", "read", "dropped"} /\ call.kind = "query" /\ active_query = call.ids[1] /\ active_probe = <<>>
  <2>1. Len(call.ids) = 1 /\ DOMAIN call.ids = {1} /\ call.ids[1] \in Nat
    <3>1. Len(call.ids) = 1
      BY <1>2 DEF IInv, CallIsRecorded
    <3> QED  BY <3>1, CallShape
  <2>2. DOMAIN slots \subseteq {active_query}
    BY <1>2, <2>1 DEF IInv, SlotsAreOfTheCall, ToSet
  <2>3. t = Without(slots, {active_query})
    <3>1. active_query # NoId
      BY <1>2, <2>1, DriverAssumption
    <3> QED  BY <1>0, <3>1, ResolveRemoves DEF sweep_active_query
  <2>4. DOMAIN t = {} /\ Tracked(t)
    <3>1. DOMAIN slots \ {active_query} = {}
      BY <2>2
    <3> QED  BY <1>0, <2>3, <3>1 DEF Without, Tracked
  <2>5. Len(active_probe) \in Nat
    BY <1>2
  <2> HIDE DEF t
  <2> QED  BY <1>1, <2>4, <2>5, ResolvingNothing
<1>3. CASE call.kind = "probe" /\ active_query = NoId /\ active_probe = call.ids
  <2>1. t = slots
    BY <1>3 DEF sweep_active_query
  <2> QED  BY <1>1, <1>3, <2>1, NothingElseTracked
<1>4. CASE active_query = NoId /\ active_probe = <<>> /\ DOMAIN slots = {}
  <2>1. t = slots
    BY <1>4 DEF sweep_active_query
  <2>2. Len(active_probe) \in Nat
    BY <1>4
  <2> HIDE DEF t
  <2> QED  BY <1>0, <1>1, <1>4, <2>1, <2>2, ResolvingNothing
<1> QED
  BY <1>2, <1>3, <1>4 DEF IInv, CallIsRecorded

(***************************************************************************)
(* The terminal's numbers are those of the session's invariants.           *)
(***************************************************************************)
LEMMA Queues ==
  ASSUME IInv
  PROVE  /\ pending \in Seq(Event) /\ wire \in Seq(Event)
         /\ Len(pending) \in Nat /\ Len(wire) \in Nat /\ Len(wire) <= MaxWire
         /\ DOMAIN pending = 1 .. Len(pending) /\ DOMAIN wire = 1 .. Len(wire)
         /\ typed \in Nat /\ resized \in Nat /\ seen_key \in Nat /\ seen_size \in Nat
         /\ seen_key <= typed /\ typed <= MaxKeys /\ seen_size <= resized /\ resized <= MaxResizes
         /\ \A i \in 1 .. Len(wire) : wire[i] \in Event
         /\ \A i \in 1 .. Len(pending) : pending[i] \in Event
<1>1. pending \in Seq(Event) /\ wire \in Seq(Event) /\ Len(wire) <= MaxWire
  BY DEF IInv, TypeOK
<1>2. typed \in 0 .. MaxKeys /\ seen_key \in 0 .. typed /\ resized \in 0 .. MaxResizes /\ seen_size \in 0 .. resized
  BY DEF IInv, TypeOK
<1> QED
  BY <1>1, <1>2, LenProperties, ElementOfSeq, DriverAssumption

(***************************************************************************)
(* A call that starts: it alone is tracked, under the newest ids.          *)
(***************************************************************************)
LEMMA StartQueryKeeps ==
  ASSUME IInv, NEW e \in Query, StartQuery(e)
  PROVE  IInv'
<1> DEFINE n == next_id
<1>1. DOMAIN swept = {} /\ Tracked(swept)
  BY SweptClean
<1>2. n \in Nat /\ n < MaxIds /\ e \in Expectation
  BY SlotsAreTracked DEF StartQuery, Expectation
<1>3. register_id(swept, n, e) = n /\ register(swept, n, e) = Added(swept, n, e)
  <2> HIDE DEF n
  <2> QED  BY <1>1, RegisterFresh
<1>4. /\ slots' = Added(swept, n, e) /\ next_id' = n + 1 /\ active_query' = n
      /\ call' = [kind |-> "query", at |-> "write", ids |-> <<n>>, got |-> <<NoReply>>]
      /\ active_probe' = <<>>
      /\ UNCHANGED <<pending, terminal, app>>
  BY <1>3 DEF StartQuery
<1>5. DOMAIN slots' = {n} /\ slots'[n] = fresh(e)
  BY <1>1, <1>4 DEF Added
<1>6. slots' \in [DOMAIN slots' -> Slot]
  <2>1. slots' = [i \in {n} |-> fresh(e)]
    BY <1>1, <1>4 DEF Added
  <2> QED  BY <1>2, <1>5, <2>1, FreshIsASlot
<1>7. /\ call'.kind = "query" /\ call'.at = "write" /\ call'.ids = <<n>> /\ call'.got = <<NoReply>>
      /\ Len(<<n>>) = 1 /\ Len(<<NoReply>>) = 1 /\ DOMAIN <<n>> = {1}
      /\ <<n>>[1] = n /\ <<NoReply>>[1] = NoReply
  BY <1>4
<1>8. TypeOK'
  <2>1. call' \in CallType
    BY <1>2, <1>4, DriverAssumption DEF CallType
  <2>2. next_id' \in 0 .. MaxIds /\ DOMAIN slots' \subseteq 0 .. next_id' - 1
        /\ active_query' \in 0 .. MaxIds - 1 /\ active_probe' \in Seq(0 .. MaxIds - 1)
    BY <1>2, <1>4, <1>5, DriverAssumption
  <2> QED
    BY <1>4, <1>6, <1>7, <2>1, <2>2 DEF IInv, TypeOK, terminal, app, CallType
<1>9. CallIsRecorded'
  <2>1. \A k \in DOMAIN call'.ids : call'.ids[k] = next_id' - Len(call'.ids) + k - 1
    BY <1>2, <1>4, <1>7
  <2> QED  BY <1>4, <1>7, <2>1 DEF CallIsRecorded
<1>10. SlotsAreOfTheCall'
  BY <1>2, <1>5, <1>7, FreshIsASlot DEF SlotsAreOfTheCall, in_flight, is_completed, ToSet
<1>11. TypeaheadInOrder' /\ LastGeometryArrives' /\ PassedOnIsUnclaimed'
  BY <1>4, <1>7 DEF IInv, TypeaheadInOrder, LastGeometryArrives, PassedOnIsUnclaimed,
                    undelivered, terminal, app
<1>12. RepliesAreAwaited'
  <2>1. ~ in_flight
    BY DEF StartQuery
  <2>2. gave_up' = gave_up /\ pending' = pending /\ wire' = wire /\ asked' = asked
    BY <1>4 DEF terminal, app
  <2>3. ASSUME ~ gave_up
        PROVE  /\ \A j \in DOMAIN pending : pending[j].kind # "reply"
               /\ \A j \in DOMAIN wire : wire[j].kind # "reply"
               /\ DOMAIN asked = {}
    BY <2>1, <2>3 DEF IInv, RepliesAreAwaited, in_flight
  <2>4. own_replies'
    BY <1>7 DEF own_replies
  <2> QED
    BY <1>7, <2>2, <2>3, <2>4 DEF RepliesAreAwaited, in_order
<1> QED
  BY <1>8, <1>9, <1>10, <1>11, <1>12 DEF IInv

LEMMA StartProbeKeeps ==
  ASSUME IInv, StartProbe
  PROVE  IInv'
<1> DEFINE L == Len(Bundle)
           n == next_id
           Slots == [i \in n .. n + L - 1 |-> fresh(Bundle[i - n + 1])]
           Ids == [k \in 1 .. L |-> n + k - 1]
           None == [i \in 1 .. L |-> NoReply]
<1>1. DOMAIN swept = {} /\ Tracked(swept)
  BY SweptClean
<1>2. n \in Nat /\ n + L <= MaxIds /\ L \in Nat \ {0} /\ DOMAIN Bundle = 1 .. L
  BY SlotsAreTracked, BundleAsksOnce DEF StartProbe
<1>3. register_all(swept, Bundle) = [slots |-> Slots, next_id |-> n + L, ids |-> Ids]
  BY <1>1, <1>2, RegisterBundle
<1>4. /\ slots' = Slots /\ next_id' = n + L /\ active_probe' = Ids /\ active_query' = NoId
      /\ call' = [kind |-> "probe", at |-> "write", ids |-> Ids, got |-> None]
      /\ UNCHANGED <<pending, terminal, app>>
  BY <1>2, <1>3 DEF StartProbe
<1>5. /\ DOMAIN Ids = 1 .. L /\ \A k \in 1 .. L : Ids[k] = n + k - 1
      /\ Ids \in Seq(0 .. MaxIds - 1) /\ Len(Ids) = L
  <2>1. \A k \in 1 .. L : n + k - 1 \in 0 .. MaxIds - 1
    BY <1>2, DriverAssumption
  <2> QED  BY <1>2, <2>1
<1>6. /\ DOMAIN None = 1 .. L /\ \A k \in 1 .. L : None[k] = NoReply
      /\ None \in Seq(Event \cup {NoReply}) /\ Len(None) = L
  BY <1>2
<1>7. /\ DOMAIN Slots = n .. n + L - 1
      /\ \A k \in 1 .. L : n + k - 1 \in DOMAIN Slots /\ Slots[n + k - 1] = fresh(Bundle[k])
      /\ \A i \in DOMAIN Slots : \E k \in 1 .. L : i = n + k - 1
  <2>1. ASSUME NEW k \in 1 .. L
        PROVE  n + k - 1 \in n .. n + L - 1 /\ (n + k - 1) - n + 1 = k
    BY <1>2
  <2>2. ASSUME NEW i \in n .. n + L - 1
        PROVE  \E k \in 1 .. L : i = n + k - 1
    <3>1. i - n + 1 \in 1 .. L /\ i = n + (i - n + 1) - 1
      BY <1>2
    <3> QED  BY <3>1
  <2> QED  BY <2>1, <2>2
<1>8. \A i \in DOMAIN Slots : Slots[i] \in Slot /\ Slots[i].outstanding = 1 /\ Slots[i].reply = NoReply
  BY <1>2, <1>7, BundleAsksOnce, FreshIsASlot
<1>9. Slots \in [DOMAIN Slots -> Slot]
  BY <1>8
<1> HIDE DEF Slots, Ids, None, L
<1>10. call'.kind = "probe" /\ call'.at = "write" /\ call'.ids = Ids /\ call'.got = None
  BY <1>4
<1>11. TypeOK'
  <2>1. call' \in CallType /\ Len(call'.got) = Len(call'.ids)
    BY <1>4, <1>5, <1>6 DEF CallType
  <2>2. next_id' \in 0 .. MaxIds /\ DOMAIN slots' \subseteq 0 .. next_id' - 1
    BY <1>2, <1>4, <1>7, DriverAssumption
  <2> QED
    BY <1>4, <1>5, <1>9, <2>1, <2>2 DEF IInv, TypeOK, terminal, app, CallType
<1>12. CallIsRecorded'
  <2>1. \A k \in 1 .. L : (n + L) - L + k - 1 = n + k - 1
    BY <1>2
  <2>2. \A k \in 1 .. L : Ids[k] = (n + L) - L + k - 1
    BY <1>5, <2>1
  <2>3. next_id' = n + L /\ call'.ids = Ids
    BY <1>4, <1>10
  <2>4. \A k \in DOMAIN call'.ids : call'.ids[k] = next_id' - Len(call'.ids) + k - 1
    BY <1>5, <2>2, <2>3
  <2> QED  BY <1>4, <1>5, <1>10, <2>4 DEF CallIsRecorded, L
<1>13. SlotsAreOfTheCall'
  <2>1. DOMAIN slots' \subseteq ToSet(call'.ids)
    BY <1>4, <1>5, <1>7, <1>10 DEF ToSet
  <2>2. \A k \in 1 .. L : Ids[k] \in DOMAIN Slots /\ Slots[Ids[k]] = fresh(Bundle[k])
    BY <1>5, <1>7
  <2>3. \A k \in 1 .. L : Slots[Ids[k]].expectation = Bundle[k]
    BY <2>2, FreshIsASlot, BundleAsksOnce DEF L
  <2> QED
    BY <1>4, <1>5, <1>6, <1>8, <1>10, <2>1, <2>2, <2>3 DEF SlotsAreOfTheCall, in_flight, is_completed
<1>14. TypeaheadInOrder' /\ LastGeometryArrives' /\ PassedOnIsUnclaimed'
  BY <1>4, <1>10 DEF IInv, TypeaheadInOrder, LastGeometryArrives, PassedOnIsUnclaimed,
                     undelivered, terminal, app
<1>15. RepliesAreAwaited'
  <2>1. ~ in_flight
    BY DEF StartProbe
  <2>2. gave_up' = gave_up /\ pending' = pending /\ wire' = wire /\ asked' = asked
    BY <1>4 DEF terminal, app
  <2>3. ASSUME ~ gave_up
        PROVE  /\ \A j \in DOMAIN pending : pending[j].kind # "reply"
               /\ \A j \in DOMAIN wire : wire[j].kind # "reply"
               /\ DOMAIN asked = {}
    BY <2>1, <2>3 DEF IInv, RepliesAreAwaited, in_flight
  <2>4. own_replies'
    BY <1>5, <1>6, <1>10 DEF own_replies
  <2> QED
    BY <1>10, <2>2, <2>3, <2>4 DEF RepliesAreAwaited, in_order
<1> QED
  BY <1>11, <1>12, <1>13, <1>14, <1>15 DEF IInv

(***************************************************************************)
(* Keys and resizes flow through a call or next_event unchanged.           *)
(***************************************************************************)
LEMMA Flow ==
  ASSUME NEW q \in Seq(Event), NEW k \in Seq(Event), NEW e \in Seq(Event), NEW w \in Seq(Event),
         Sifted(k, e, Len(e)), NEW kind, kind # "reply"
  PROVE  /\ numbers((q \o k) \o w, kind) = numbers(q \o (e \o w), kind)
         /\ in_order(q \o (e \o w), kind) => in_order((q \o k) \o w, kind)
<1>1. q \o k \in Seq(Event) /\ e \o w \in Seq(Event)
  BY ConcatProperties
<1>2. numbers(k, kind) = numbers(e, kind)
  BY SiftedNumbers
<1>3. numbers(q \o k, kind) = numbers(q, kind) \cup numbers(e, kind)
  BY <1>2, NumbersJoined
<1>4. numbers(e \o w, kind) = numbers(e, kind) \cup numbers(w, kind)
  BY NumbersJoined
<1>5. numbers((q \o k) \o w, kind) = numbers(q, kind) \cup numbers(e, kind) \cup numbers(w, kind)
  <2> DEFINE c == q \o k
  <2>1. c \in Seq(Event) /\ numbers(c, kind) = numbers(q, kind) \cup numbers(e, kind)
    BY <1>1, <1>3
  <2> HIDE DEF c
  <2>2. numbers(c \o w, kind) = numbers(c, kind) \cup numbers(w, kind)
    BY <2>1, NumbersJoined
  <2>3. numbers(c \o w, kind) = numbers(q, kind) \cup numbers(e, kind) \cup numbers(w, kind)
    BY <2>1, <2>2
  <2> QED  BY <2>3 DEF c
<1>6. numbers(q \o (e \o w), kind) = numbers(q, kind) \cup numbers(e, kind) \cup numbers(w, kind)
  <2>1. numbers(q \o (e \o w), kind) = numbers(q, kind) \cup numbers(e \o w, kind)
    <3> DEFINE c == e \o w
    <3>1. c \in Seq(Event)
      BY <1>1
    <3> HIDE DEF c
    <3>2. numbers(q \o c, kind) = numbers(q, kind) \cup numbers(c, kind)
      BY <3>1, NumbersJoined
    <3> QED  BY <3>2 DEF c
  <2> QED  BY <1>4, <2>1
<1>7. ASSUME in_order(q \o (e \o w), kind) PROVE in_order((q \o k) \o w, kind)
  <2>1. /\ in_order(q, kind) /\ in_order(e \o w, kind)
        /\ \A x \in numbers(q, kind), y \in numbers(e \o w, kind) : x < y
    BY <1>1, <1>7, OrderJoined
  <2>2. /\ in_order(e, kind) /\ in_order(w, kind)
        /\ \A x \in numbers(e, kind), y \in numbers(w, kind) : x < y
    BY <2>1, OrderJoined
  <2>3. in_order(k, kind)
    BY <2>2, SiftedOrder
  <2>4. in_order(q \o k, kind)
    <3>1. \A x \in numbers(q, kind), y \in numbers(k, kind) : x < y
      BY <1>2, <1>4, <2>1
    <3> QED  BY <2>1, <2>3, <3>1, OrderJoined
  <2>5. \A x \in numbers(q \o k, kind), y \in numbers(w, kind) : x < y
    BY <1>3, <1>4, <2>1, <2>2
  <2> QED  BY <1>1, <2>2, <2>4, <2>5, OrderJoined
<1> QED
  BY <1>5, <1>6, <1>7

LEMMA FlowKeeps ==
  ASSUME IInv, NEW q \in Seq(Event), NEW k \in Seq(Event), NEW e \in Seq(Event), NEW w \in Seq(Event),
         Sifted(k, e, Len(e)), undelivered = q \o (e \o w),
         pending' = q \o k, wire' = w, UNCHANGED <<typed, resized, seen_key, seen_size>>
  PROVE  TypeaheadInOrder' /\ LastGeometryArrives'
<1>1. undelivered' = (q \o k) \o w
  BY DEF undelivered
<1>2. /\ numbers(undelivered', "key") = numbers(undelivered, "key")
      /\ in_order(undelivered, "key") => in_order(undelivered', "key")
  BY <1>1, Flow
<1>3. /\ numbers(undelivered', "resize") = numbers(undelivered, "resize")
      /\ in_order(undelivered, "resize") => in_order(undelivered', "resize")
  BY <1>1, Flow
<1>4. TypeaheadInOrder'
  BY <1>2 DEF IInv, TypeaheadInOrder
<1>5. LastGeometryArrives'
  BY <1>3 DEF IInv, LastGeometryArrives
<1> QED
  BY <1>4, <1>5

LEMMA SilentJoined ==
  ASSUME NEW a \in Seq(Event), NEW b \in Seq(Event), Silent(a), Silent(b)
  PROVE  Silent(a \o b)
<1>1. /\ DOMAIN a = 1 .. Len(a) /\ DOMAIN b = 1 .. Len(b) /\ DOMAIN (a \o b) = 1 .. Len(a \o b)
  BY Joined
<1>2. ASSUME NEW i \in DOMAIN (a \o b) PROVE (a \o b)[i].kind # "reply"
  <2>1. CASE i \in DOMAIN a
    <3>1. (a \o b)[i] = a[i]
      BY <2>1, Joined
    <3> QED  BY <1>1, <2>1, <3>1 DEF Silent
  <2>2. CASE \E j \in DOMAIN b : i = Len(a) + j
    <3>1. PICK j \in DOMAIN b : i = Len(a) + j
      BY <2>2
    <3>2. (a \o b)[i] = b[j]
      BY <3>1, Joined
    <3> QED  BY <1>1, <3>2 DEF Silent
  <2> QED  BY <2>1, <2>2, Joined
<1> QED
  BY <1>1, <1>2 DEF Silent

(***************************************************************************)
(* The types of the session after a call has taken a batch.                *)
(***************************************************************************)
LEMMA TakenTypes ==
  ASSUME IInv, NEW queue \in Seq(Event), NEW events \in Seq(Event), Taken(queue, events)
  PROVE  /\ next_id' \in 0 .. MaxIds /\ DOMAIN slots' \subseteq 0 .. next_id' - 1
         /\ slots' \in [DOMAIN slots' -> Slot]
         /\ active_query' \in 0 .. MaxIds - 1 \cup {NoId}
         /\ active_probe' \in Seq(0 .. MaxIds - 1)
         /\ pending' \in Seq(Event)
         /\ call' \in CallType /\ Len(call'.got) = Len(call'.ids)
<1>1. /\ next_id \in 0 .. MaxIds /\ DOMAIN slots \subseteq 0 .. next_id - 1
      /\ active_query \in 0 .. MaxIds - 1 \cup {NoId} /\ active_probe \in Seq(0 .. MaxIds - 1)
  BY DEF IInv, TypeOK
<1>2. pending' \in Seq(Event)
  <2>1. PICK k \in Seq(Event) : pending' = queue \o k
    BY DEF Taken
  <2> QED  BY <2>1, ConcatProperties
<1>3. /\ next_id' = next_id /\ DOMAIN slots' \subseteq DOMAIN slots /\ slots' \in [DOMAIN slots' -> Slot]
      /\ active_query' \in {active_query, NoId} /\ active_probe' \in {active_probe, <<>>}
      /\ call' \in CallType /\ Len(call'.got) = Len(call'.ids)
  BY DEF Taken, Tracked
<1>4. <<>> \in Seq(0 .. MaxIds - 1)
  OBVIOUS
<1> QED
  BY <1>1, <1>2, <1>3, <1>4

(***************************************************************************)
(* The requests of a call that writes: one for each of its slots.          *)
(***************************************************************************)
Request == [to : Expectation, n : 0 .. MaxIds - 1]

LEMMA RequestsAreAwaited ==
  ASSUME IInv, call.at = "write"
  PROVE  /\ requests \in Seq(Request) /\ Len(requests) = Len(call.ids)
         /\ Len(requests) \in Nat /\ DOMAIN requests = 1 .. Len(call.ids)
         /\ \A i \in 1 .. Len(call.ids) : requests[i].n = call.ids[i] /\ awaited(requests[i])
<1> DEFINE N == Len(call.ids)
<1>1. N \in Nat /\ DOMAIN call.ids = 1 .. N /\ \A i \in 1 .. N : call.ids[i] \in 0 .. MaxIds - 1
  BY CallShape
<1>2. \A i \in 1 .. N : call.ids[i] \in DOMAIN slots
  BY <1>1 DEF IInv, SlotsAreOfTheCall, in_flight
<1>3. \A i \in DOMAIN slots : slots[i].expectation \in Expectation
  BY SlotsAreTracked DEF Tracked, Slot
<1>4. /\ DOMAIN requests = 1 .. N
      /\ \A i \in 1 .. N : requests[i] = [to |-> slots[call.ids[i]].expectation, n |-> call.ids[i]]
  BY <1>1 DEF requests
<1>5. \A i \in 1 .. N : requests[i] \in Request /\ requests[i].n = call.ids[i] /\ awaited(requests[i])
  <2>1. SUFFICES ASSUME NEW i \in 1 .. N
                 PROVE  requests[i] \in Request /\ requests[i].n = call.ids[i] /\ awaited(requests[i])
    OBVIOUS
  <2> DEFINE x == slots[call.ids[i]].expectation
             id == call.ids[i]
  <2>2. requests[i] = [to |-> x, n |-> id] /\ x \in Expectation /\ id \in 0 .. MaxIds - 1 /\ id \in DOMAIN slots
    BY <1>1, <1>2, <1>3, <1>4
  <2>3. slots[id].expectation = x
    OBVIOUS
  <2> HIDE DEF x, id
  <2>4. requests[i] \in Request /\ requests[i].n = id /\ requests[i].to = x
    BY <2>2 DEF Request
  <2>5. awaited(requests[i])
    BY <2>2, <2>3, <2>4 DEF awaited
  <2> QED  BY <2>4, <2>5 DEF id
<1>6. requests \in Seq(Request) /\ Len(requests) = N
  <2>1. requests = [i \in 1 .. N |-> requests[i]]
    BY <1>1 DEF requests
  <2> HIDE DEF N
  <2> QED  BY <1>1, <1>5, <2>1
<1> QED
  BY <1>1, <1>4, <1>5, <1>6

AwaitedNext(r) == r.n \in DOMAIN slots' /\ slots'[r.n].expectation = r.to

LEMMA WriteRequestKeeps ==
  ASSUME IInv, WriteRequest
  PROVE  IInv'
<1>1. /\ call.at = "write" /\ in_flight /\ asked' = asked \o requests
      /\ CallTakes(<<>>, pending)
      /\ wire' = wire /\ UNCHANGED <<typed, resized, seen_key, seen_size, gave_up>>
  BY DEF WriteRequest, in_flight, app
<1> DEFINE none == <<>>
<1>2. none \in Seq(Event)
  OBVIOUS
<1>3. Taken(none, pending)
  BY <1>1, <1>2, Queues, BatchTaken
<1>4. PICK k \in Seq(Event) : /\ pending' = none \o k
                              /\ Sifted(k, pending, Len(pending))
                              /\ Expected(slots, pending) => Silent(k)
  BY <1>3 DEF Taken
<1>5. pending' = k /\ none \o (pending \o wire) = undelivered
  BY <1>4, Queues, ConcatEmptySeq, ConcatProperties DEF undelivered
<1> HIDE DEF none
<1>6. asked \in Seq(Request)
  BY DEF IInv, TypeOK, Request
<1>7. TypeOK'
  <2>1. asked' \in Seq(Request)
    BY <1>1, <1>6, RequestsAreAwaited, ConcatProperties
  <2>2. /\ next_id' \in 0 .. MaxIds /\ DOMAIN slots' \subseteq 0 .. next_id' - 1
        /\ slots' \in [DOMAIN slots' -> Slot]
        /\ active_query' \in 0 .. MaxIds - 1 \cup {NoId} /\ active_probe' \in Seq(0 .. MaxIds - 1)
        /\ pending' \in Seq(Event) /\ call' \in CallType /\ Len(call'.got) = Len(call'.ids)
    BY <1>2, <1>3, Queues, TakenTypes
  <2> QED
    BY <1>1, <2>1, <2>2 DEF IInv, TypeOK, CallType, Request
<1>8. TypeaheadInOrder' /\ LastGeometryArrives'
  BY <1>1, <1>2, <1>4, <1>5, Queues, FlowKeeps
<1>9. CallIsRecorded' /\ SlotsAreOfTheCall'
  BY <1>3 DEF Taken
<1>10. PassedOnIsUnclaimed'
  <2>1. Claimed(none, call.got)
    BY DEF Claimed, none
  <2>2. call'.kind = "probe" => Claimed(pending', call'.got)
    BY <1>3, <2>1 DEF Taken
  <2>3. DOMAIN Bundle = 1 .. Len(Bundle) /\ DOMAIN pending' = 1 .. Len(pending')
    BY <1>4, <1>5, BundleAsksOnce, LenProperties
  <2> QED  BY <2>2, <2>3 DEF PassedOnIsUnclaimed, Claimed
<1>11. RepliesAreAwaited'
  <2>1. SUFFICES ASSUME ~ gave_up PROVE RepliesAreAwaited'
    BY <1>1 DEF RepliesAreAwaited
  <2>2. /\ \A j \in DOMAIN pending : pending[j].kind # "reply"
        /\ \A j \in DOMAIN wire : wire[j].kind # "reply"
        /\ DOMAIN asked = {} /\ own_replies
    BY <1>1, <2>1 DEF IInv, RepliesAreAwaited
  <2>3. Expected(slots, pending)
    BY <2>2, Queues DEF Expected, in_order
  <2>4. Silent(k) /\ DOMAIN k = 1 .. Len(k)
    BY <1>4, <2>3, LenProperties
  <2>5. \A x \in DOMAIN slots : StillWaited(pending, x)
    BY <1>3, <2>2, <2>3, Queues DEF Taken
  <2>6. Own(call) /\ Own(call')
    <3>1. Own(call)
      BY <2>2, CallShape DEF Own, own_replies
    <3> QED  BY <1>3, <2>3, <3>1 DEF Taken
  <2>7. own_replies'
    <3>1. DOMAIN call'.ids = 1 .. Len(call'.ids)
      BY <1>3, CallShape DEF Taken
    <3> QED  BY <2>6, <3>1 DEF Own, own_replies
  <2>8. asked = <<>> /\ asked' = requests
    <3>1. asked = <<>>
      BY <1>6, <2>2, EmptySeq
    <3> QED  BY <1>1, <3>1, RequestsAreAwaited, ConcatEmptySeq
  <2>9. ASSUME NEW i \in DOMAIN asked'
        PROVE  call'.at = "read" /\ AwaitedNext(asked'[i])
    <3>1. i \in 1 .. Len(call.ids) /\ requests[i].n = call.ids[i] /\ awaited(requests[i])
      BY <1>1, <2>8, RequestsAreAwaited
    <3>2. StillWaited(pending, requests[i].n)
      BY <2>5, <3>1 DEF awaited
    <3> QED  BY <2>8, <3>1, <3>2 DEF awaited, StillWaited, AwaitedNext
  <2>10. \A i, j \in DOMAIN asked' : i < j => asked'[i].n < asked'[j].n
    BY <1>1, <2>8, RequestsAreAwaited, CallShape
  <2>11. call'.at \in {"idle", "write", "read", "answered", "fenced"}
    BY <1>3 DEF Taken
  <2> QED
    BY <1>1, <1>5, <2>2, <2>4, <2>7, <2>9, <2>10, <2>11
       DEF RepliesAreAwaited, Silent, in_order, awaited, AwaitedNext
<1> QED
  BY <1>7, <1>8, <1>9, <1>10, <1>11 DEF IInv

(***************************************************************************)
(* A batch of the wire is expected as long as every reply is.              *)
(***************************************************************************)
LEMMA BatchIsExpected ==
  ASSUME IInv, ~ gave_up, NEW n \in 1 .. Len(wire)
  PROVE  LET e == SubSeq(wire, 1, n)
             w == SubSeq(wire, n + 1, Len(wire))
         IN  /\ Expected(slots, e)
             /\ in_order(w, "reply")
             /\ \A j \in DOMAIN w : w[j].kind = "reply" =>
                  /\ awaited(w[j])
                  /\ \A m \in 1 .. Len(e) : e[m].kind = "reply" => e[m].n < w[j].n
<1> DEFINE e == SubSeq(wire, 1, n)
           w == SubSeq(wire, n + 1, Len(wire))
           N == Len(wire)
<1>1. /\ e \in Seq(Event) /\ w \in Seq(Event) /\ Len(e) = n /\ Len(w) = N - n
      /\ \A i \in 1 .. n : e[i] = wire[i]
      /\ \A i \in 1 .. N - n : w[i] = wire[n + i]
  BY Queues, Split
<1>2. N \in Nat /\ DOMAIN wire = 1 .. N /\ n \in 1 .. N
  BY Queues
<1>3. DOMAIN e = 1 .. n /\ DOMAIN w = 1 .. N - n
  BY <1>1, LenProperties
<1> HIDE DEF e, w, N
<1>4. \A i \in DOMAIN e : i \in DOMAIN wire /\ e[i] = wire[i]
  BY <1>1, <1>2, <1>3
<1>5. \A i \in DOMAIN w : n + i \in DOMAIN wire /\ w[i] = wire[n + i] /\ i \in Nat
  <2>1. ASSUME NEW i \in 1 .. N - n PROVE n + i \in 1 .. N /\ i \in Nat
    BY <1>2
  <2> QED  BY <1>1, <1>2, <1>3, <2>1
<1>6. /\ \A j \in DOMAIN wire : wire[j].kind = "reply" => awaited(wire[j])
      /\ in_order(wire, "reply")
  BY DEF IInv, RepliesAreAwaited
<1>7. Expected(slots, e)
  <2>1. in_order(e, "reply")
    BY <1>4, <1>6 DEF in_order
  <2> QED  BY <1>1, <1>3, <1>4, <1>6, <2>1 DEF Expected, awaited
<1>8. in_order(w, "reply")
  <2>1. ASSUME NEW i \in DOMAIN w, NEW j \in DOMAIN w, i < j, w[i].kind = "reply", w[j].kind = "reply"
        PROVE  w[i].n < w[j].n
    <3>1. n + i < n + j
      BY <1>2, <1>5, <2>1
    <3> QED  BY <1>5, <1>6, <2>1, <3>1 DEF in_order
  <2> QED  BY <2>1 DEF in_order
<1>9. ASSUME NEW j \in DOMAIN w, w[j].kind = "reply"
      PROVE  awaited(w[j]) /\ \A m \in 1 .. Len(e) : e[m].kind = "reply" => e[m].n < w[j].n
  <2>1. awaited(w[j])
    BY <1>5, <1>6, <1>9
  <2>2. ASSUME NEW m \in 1 .. Len(e), e[m].kind = "reply" PROVE e[m].n < w[j].n
    <3>1. m \in DOMAIN e /\ m < n + j
      <4>1. m \in 1 .. n /\ j \in 1 .. N - n
        BY <1>1, <1>3
      <4> QED  BY <1>2, <1>3, <4>1
    <3> QED  BY <1>4, <1>5, <1>6, <1>9, <2>2, <3>1 DEF in_order
  <2> QED  BY <2>1, <2>2
<1> QED
  BY <1>7, <1>8, <1>9 DEF e, w, N

LEMMA ReadBatchKeeps ==
  ASSUME IInv, NEW n \in 1 .. MaxWire, ReadBatch(n)
  PROVE  IInv'
<1> DEFINE e == SubSeq(wire, 1, n)
           w == SubSeq(wire, n + 1, Len(wire))
<1>1. /\ call.at = "read" /\ in_flight /\ n \in 1 .. Len(wire)
      /\ CallTakes(pending, e) /\ wire' = w /\ asked' = asked
      /\ UNCHANGED <<typed, resized, seen_key, seen_size, gave_up>>
  BY DEF ReadBatch, in_flight, app
<1>2. /\ e \in Seq(Event) /\ w \in Seq(Event) /\ Len(w) = Len(wire) - n /\ wire = e \o w
  BY <1>1, Queues, Split
<1>3. Len(w) <= MaxWire
  BY <1>1, <1>2, Queues, DriverAssumption
<1>4. ~ gave_up =>
        /\ Expected(slots, e)
        /\ in_order(w, "reply")
        /\ \A j \in DOMAIN w : w[j].kind = "reply" =>
             /\ awaited(w[j])
             /\ \A m \in 1 .. Len(e) : e[m].kind = "reply" => e[m].n < w[j].n
  BY <1>1, BatchIsExpected
<1>5. \A m \in 1 .. Len(e) : e[m].kind = "reply" =>
         \E i \in DOMAIN wire : e[m] = wire[i] /\ wire[i].kind = "reply"
  <2>1. Len(e) = n /\ \A m \in 1 .. n : e[m] = wire[m]
    BY <1>1, Queues, Split
  <2>2. \A m \in 1 .. n : m \in DOMAIN wire
    BY <1>1, Queues
  <2> HIDE DEF e
  <2> QED  BY <2>1, <2>2
<1> HIDE DEF e, w
<1>6. Taken(pending, e)
  BY <1>1, <1>2, Queues, BatchTaken
<1>7. PICK k \in Seq(Event) : /\ pending' = pending \o k
                              /\ Sifted(k, e, Len(e))
                              /\ Expected(slots, e) => Silent(k)
  BY <1>6 DEF Taken
<1>8. TypeOK'
  <2>1. /\ next_id' \in 0 .. MaxIds /\ DOMAIN slots' \subseteq 0 .. next_id' - 1
        /\ slots' \in [DOMAIN slots' -> Slot]
        /\ active_query' \in 0 .. MaxIds - 1 \cup {NoId} /\ active_probe' \in Seq(0 .. MaxIds - 1)
        /\ pending' \in Seq(Event) /\ call' \in CallType /\ Len(call'.got) = Len(call'.ids)
    BY <1>2, <1>6, Queues, TakenTypes
  <2> QED
    BY <1>1, <1>2, <1>3, <2>1 DEF IInv, TypeOK, CallType
<1>9. TypeaheadInOrder' /\ LastGeometryArrives'
  BY <1>1, <1>2, <1>7, Queues, FlowKeeps DEF undelivered
<1>10. CallIsRecorded' /\ SlotsAreOfTheCall'
  BY <1>6 DEF Taken
<1>11. PassedOnIsUnclaimed'
  <2>1. DOMAIN Bundle = 1 .. Len(Bundle)
    BY BundleAsksOnce
  <2>2. DOMAIN pending' = 1 .. Len(pending')
    BY <1>2, <1>6, Queues, TakenTypes, LenProperties
  <2>3. call.kind = "probe" => Claimed(pending, call.got)
    BY <1>1, <2>1, Queues DEF IInv, PassedOnIsUnclaimed, Claimed
  <2>4. call'.kind = "probe" => Claimed(pending', call'.got)
    BY <1>6, <2>3 DEF Taken
  <2> QED  BY <2>1, <2>2, <2>4 DEF PassedOnIsUnclaimed, Claimed
<1>12. RepliesAreAwaited'
  <2>1. SUFFICES ASSUME ~ gave_up PROVE RepliesAreAwaited'
    BY <1>1 DEF RepliesAreAwaited
  <2>2. /\ \A j \in DOMAIN pending : pending[j].kind # "reply"
        /\ \A j \in DOMAIN asked : awaited(asked[j])
        /\ \A i, j \in DOMAIN asked : i < j => asked[i].n < asked[j].n
        /\ \A i \in DOMAIN wire, j \in DOMAIN asked :
             wire[i].kind = "reply" => wire[i].n < asked[j].n
        /\ own_replies
    BY <2>1 DEF IInv, RepliesAreAwaited
  <2>3. \A j \in DOMAIN pending' : pending'[j].kind # "reply"
    <3>1. Silent(pending) /\ Silent(k)
      BY <1>4, <1>7, <2>1, <2>2, Queues DEF Silent
    <3>2. Silent(pending \o k) /\ pending \o k \in Seq(Event)
      BY <3>1, Queues, SilentJoined, ConcatProperties
    <3>3. DOMAIN (pending \o k) = 1 .. Len(pending \o k)
      BY <3>2, LenProperties
    <3> QED  BY <1>7, <3>2, <3>3 DEF Silent
  <2>4. \A x \in DOMAIN slots :
          (\A m \in 1 .. Len(e) : e[m].kind = "reply" => e[m].n < x) => StillWaited(e, x)
    BY <1>4, <1>6, <2>1 DEF Taken
  <2>5. ASSUME NEW j \in DOMAIN w, w[j].kind = "reply"
        PROVE  call'.at = "read" /\ AwaitedNext(w[j])
    BY <1>4, <2>1, <2>4, <2>5 DEF awaited, AwaitedNext, StillWaited
  <2>6. ASSUME NEW j \in DOMAIN asked
        PROVE  call'.at = "read" /\ AwaitedNext(asked[j])
    <3>1. \A m \in 1 .. Len(e) : e[m].kind = "reply" => e[m].n < asked[j].n
      BY <1>5, <2>2
    <3> QED  BY <2>2, <2>4, <3>1 DEF awaited, AwaitedNext, StillWaited
  <2>7. \A i \in DOMAIN w : i + n \in DOMAIN wire /\ w[i] = wire[n + i]
    <3>1. DOMAIN w = 1 .. Len(wire) - n
      BY <1>2, LenProperties
    <3> QED  BY <1>1, <3>1, Queues, Split DEF w
  <2>8. \A i \in DOMAIN w, j \in DOMAIN asked : w[i].kind = "reply" => w[i].n < asked[j].n
    <3>1. ASSUME NEW i \in DOMAIN w PROVE \E m \in DOMAIN wire : w[i] = wire[m]
      <4>1. n + i = i + n
        BY <1>2, LenProperties
      <4> QED  BY <2>7, <4>1
    <3> QED  BY <2>2, <3>1
  <2>9. own_replies'
    <3>1. Own(call)
      BY <2>2, CallShape DEF Own, own_replies
    <3>2. Own(call')
      BY <1>4, <1>6, <2>1, <3>1 DEF Taken
    <3>3. DOMAIN call'.ids = 1 .. Len(call'.ids)
      BY <1>6, CallShape DEF Taken
    <3> QED  BY <3>2, <3>3 DEF Own, own_replies
  <2>10. call'.at \in {"idle", "write", "read", "answered", "fenced"}
    BY <1>6 DEF Taken
  <2>11. in_order(w, "reply")
    BY <1>4, <2>1
  <2> QED
    BY <1>1, <2>2, <2>3, <2>5, <2>6, <2>8, <2>9, <2>10, <2>11
       DEF RepliesAreAwaited, in_order, awaited, AwaitedNext
<1> QED
  BY <1>8, <1>9, <1>10, <1>11, <1>12 DEF IInv

(***************************************************************************)
(* A call that ends without its answer: dropped, it leaves its ids for the *)
(* next sweep; ended in a read, it resolves them itself.                   *)
(***************************************************************************)
ends(a) == [call EXCEPT !.at = a]

LEMMA CallEnds ==
  ASSUME IInv, NEW a \in {"timeout", "eof", "failed", "dropped"}
  PROVE  /\ ends(a) \in CallType /\ ends(a).kind = call.kind /\ ends(a).ids = call.ids
         /\ ends(a).at = a /\ ends(a).got = call.got
  BY CallShape DEF CallType, ends

LEMMA DroppedKeeps ==
  ASSUME IInv, in_flight, call' = ends("dropped"), gave_up' = TRUE,
         asked' \in Seq(Request),
         UNCHANGED << slots, next_id, active_query, active_probe, pending,
                      wire, typed, resized, seen_key, seen_size >>
  PROVE  IInv'
<1>1. /\ call' \in CallType /\ call'.kind = call.kind /\ call'.ids = call.ids
      /\ call'.at = "dropped" /\ call'.got = call.got
  BY CallEnds
<1>2. TypeOK'
  BY <1>1 DEF IInv, TypeOK, CallType, Request
<1>3. CallIsRecorded'
  BY <1>1 DEF IInv, CallIsRecorded, in_flight
<1>4. SlotsAreOfTheCall'
  BY <1>1 DEF IInv, SlotsAreOfTheCall, in_flight
<1>5. TypeaheadInOrder' /\ LastGeometryArrives' /\ PassedOnIsUnclaimed' /\ RepliesAreAwaited'
  BY <1>1 DEF IInv, TypeaheadInOrder, LastGeometryArrives, PassedOnIsUnclaimed,
              RepliesAreAwaited, undelivered
<1> QED
  BY <1>2, <1>3, <1>4, <1>5 DEF IInv

LEMMA InterruptWriteKeeps ==
  ASSUME IInv, NEW sent \in 0 .. Len(Optional), InterruptWrite(sent)
  PROVE  IInv'
<1>1. /\ call.at = "write" /\ in_flight /\ sent < Len(requests) /\ call' = ends("dropped")
      /\ asked' = asked \o SubSeq(requests, 1, sent) /\ gave_up' = TRUE
      /\ UNCHANGED << slots, next_id, active_query, active_probe, pending,
                      wire, typed, resized, seen_key, seen_size >>
  BY DEF InterruptWrite, in_flight, ends
<1>2. requests \in Seq(Request) /\ Len(requests) \in Nat /\ asked \in Seq(Request)
  BY <1>1, RequestsAreAwaited DEF IInv, TypeOK, Request
<1>3. SubSeq(requests, 1, sent) \in Seq(Request)
  <2>1. \A i \in 1 .. sent : requests[i] \in Request
    BY <1>1, <1>2, BundleAsksOnce, ElementOfSeq
  <2> QED  BY <2>1, BundleAsksOnce, SubSeqProperties
<1>4. asked' \in Seq(Request)
  BY <1>1, <1>2, <1>3, ConcatProperties
<1> QED
  BY <1>1, <1>4, DroppedKeeps

LEMMA CancelReadKeeps ==
  ASSUME IInv, CancelRead
  PROVE  IInv'
<1>1. /\ in_flight /\ call' = ends("dropped") /\ gave_up' = TRUE /\ asked' = asked
      /\ UNCHANGED << slots, next_id, active_query, active_probe, pending,
                      wire, typed, resized, seen_key, seen_size >>
  BY DEF CancelRead, in_flight, ends, terminal
<1>2. asked' \in Seq(Request)
  BY <1>1 DEF IInv, TypeOK, Request
<1> QED
  BY <1>1, <1>2, DroppedKeeps

LEMMA EndReadKeeps ==
  ASSUME IInv, NEW how \in {"timeout", "eof", "failed"}, EndRead(how)
  PROVE  IInv'
<1>1. /\ slots' = resolve_all(slots, call.ids) /\ active_query' = NoId /\ active_probe' = <<>>
      /\ call' = ends(how) /\ gave_up' = TRUE
      /\ UNCHANGED << next_id, pending, asked, wire, typed, resized, seen_key, seen_size >>
  BY DEF EndRead, ends, terminal
<1>0. call.at = "read"
  BY DEF EndRead, awaits_read
<1>2. /\ call' \in CallType /\ call'.kind = call.kind /\ call'.ids = call.ids
      /\ call'.at = how /\ call'.got = call.got
  BY <1>1, CallEnds
<1>3. DOMAIN slots' = {} /\ slots' \in [DOMAIN slots' -> Slot]
  BY <1>1, NothingElseTracked DEF Tracked
<1>4. <<>> \in Seq(0 .. MaxIds - 1)
  OBVIOUS
<1>5. TypeOK'
  BY <1>1, <1>2, <1>3, <1>4 DEF IInv, TypeOK, CallType
<1>6. CallIsRecorded'
  BY <1>0, <1>1, <1>2, <1>3 DEF IInv, CallIsRecorded
<1>7. SlotsAreOfTheCall'
  BY <1>2, <1>3 DEF SlotsAreOfTheCall, in_flight
<1>8. TypeaheadInOrder' /\ LastGeometryArrives' /\ PassedOnIsUnclaimed' /\ RepliesAreAwaited'
  BY <1>1, <1>2 DEF IInv, TypeaheadInOrder, LastGeometryArrives, PassedOnIsUnclaimed,
                    RepliesAreAwaited, undelivered
<1> QED
  BY <1>5, <1>6, <1>7, <1>8 DEF IInv

-----------------------------------------------------------------------------
(***************************************************************************)
(* next_event returns the first event that no later resize supersedes.     *)
(***************************************************************************)
Superseded(q, i) == is_resize(q[i]) /\ \E j \in i + 1 .. Len(q) : is_resize(q[j])

LEMMA CoalescedIsFirst ==
  ASSUME NEW q \in Seq(Event), q # <<>>
  PROVE  /\ take_coalesced_event(q) \in 1 .. Len(q)
         /\ ~ Superseded(q, take_coalesced_event(q))
         /\ \A j \in 1 .. take_coalesced_event(q) - 1 : Superseded(q, j)
<1> DEFINE N == Len(q)
           S == {i \in 1 .. N : ~ Superseded(q, i)}
           First(i) == i \in 1 .. N /\ ~ Superseded(q, i) /\ \A j \in 1 .. i - 1 : Superseded(q, j)
<1>1. N \in Nat \ {0} /\ DOMAIN q = 1 .. N
  BY EmptySeq, LenProperties
<1>2. N \in S
  BY <1>1 DEF Superseded
<1>3. \E i : First(i)
  <2>1. S \in SUBSET Nat /\ S # {}
    BY <1>2
  <2>2. PICK i \in S : \A m \in S : i <= m
    <3> HIDE DEF S
    <3> QED  BY <2>1, LeastElement
  <2>3. ASSUME NEW j \in 1 .. i - 1 PROVE Superseded(q, j)
    BY <1>1, <2>2
  <2>4. First(i)
    BY <2>2, <2>3
  <2> QED  BY <2>4
<1>4. take_coalesced_event(q) = CHOOSE i \in 1 .. N : First(i)
  BY <1>1 DEF take_coalesced_event, Superseded
<1>5. First(take_coalesced_event(q))
  <2>1. \E i \in 1 .. N : First(i)
    BY <1>3
  <2> HIDE DEF First
  <2> QED  BY <1>4, <2>1
<1> QED
  BY <1>5

LEMMA TakeEventKeeps ==
  ASSUME IInv, TakeEvent
  PROVE  IInv'
<1> DEFINE i == take_coalesced_event(pending)
           ev == pending[i]
           a == SubSeq(pending, 1, i)
           rest == SubSeq(pending, i + 1, Len(pending))
           u == rest \o wire
<1>1. /\ ~ in_flight /\ pending # <<>> /\ pending' = rest
      /\ seen_key' = IF ev.kind = "key" THEN ev.n ELSE seen_key
      /\ seen_size' = IF ev.kind = "resize" THEN ev.n ELSE seen_size
      /\ UNCHANGED <<slots, next_id, active_query, active_probe, call, asked, wire, typed, resized, gave_up>>
  BY DEF TakeEvent, terminal, is_resize
<1>2. /\ i \in 1 .. Len(pending) /\ ~ Superseded(pending, i)
      /\ \A j \in 1 .. i - 1 : Superseded(pending, j)
  BY <1>1, Queues, CoalescedIsFirst
<1>3. ev \in Event
  BY <1>2, Queues
<1> HIDE DEF i, ev
<1>4. /\ a \in Seq(Event) /\ rest \in Seq(Event) /\ Len(a) = i /\ pending = a \o rest
      /\ \A j \in 1 .. i : a[j] = pending[j]
      /\ Len(rest) = Len(pending) - i
      /\ \A j \in 1 .. Len(pending) - i : rest[j] = pending[i + j]
  <2>1. pending \in Seq(Event) /\ i \in 1 .. Len(pending)
    BY <1>2, Queues
  <2> QED  BY <2>1, Split
<1> HIDE DEF a, rest
<1>5. DOMAIN a = 1 .. i /\ a[i] = ev /\ i \in Nat \ {0} /\ DOMAIN rest = 1 .. Len(rest)
  BY <1>2, <1>4, LenProperties DEF ev
<1>6. u \in Seq(Event) /\ undelivered = a \o u /\ undelivered' = u
  <2>1. wire \in Seq(Event)
    BY Queues
  <2>2. u \in Seq(Event) /\ (a \o rest) \o wire = a \o u
    BY <1>4, <2>1, ConcatProperties, ConcatAssociative
  <2> QED  BY <1>1, <1>4, <2>2 DEF undelivered
<1> HIDE DEF u
<1>7. ASSUME NEW kind
      PROVE  /\ numbers(undelivered, kind) = numbers(a, kind) \cup numbers(u, kind)
             /\ in_order(undelivered, kind) =>
                  /\ in_order(u, kind)
                  /\ \A x \in numbers(a, kind), y \in numbers(u, kind) : x < y
  BY <1>4, <1>6, NumbersJoined, OrderJoined
<1>8. \A j \in 1 .. i - 1 : is_resize(pending[j]) /\ \E l \in j + 1 .. Len(pending) : is_resize(pending[l])
  BY <1>2 DEF Superseded
<1>9. \A j \in DOMAIN a : j = i \/ (j \in 1 .. i - 1 /\ a[j].kind = "resize")
  BY <1>4, <1>5, <1>8 DEF is_resize
\* Typeahead.
<1>10. TypeaheadInOrder' /\ seen_key' \in 0 .. typed
  <2>1. /\ in_order(undelivered, "key")
        /\ numbers(undelivered, "key") = seen_key + 1 .. typed
    BY DEF IInv, TypeaheadInOrder
  <2>2. in_order(undelivered', "key")
    BY <1>6, <1>7, <2>1
  <2>3. CASE ev.kind = "key"
    <3>1. numbers(a, "key") = {ev.n}
      BY <1>5, <1>9, <2>3 DEF numbers
    <3>2. \A y \in numbers(u, "key") : ev.n < y
      BY <1>7, <2>1, <3>1
    <3>3. {ev.n} \cup numbers(u, "key") = seen_key + 1 .. typed
      BY <1>7, <2>1, <3>1
    <3>4. ev.n \in seen_key + 1 .. typed
      BY <3>3
    <3>5. ev.n = seen_key + 1
      <4>1. seen_key + 1 \in seen_key + 1 .. typed
        BY <3>4, Queues
      <4>2. seen_key + 1 = ev.n \/ ev.n < seen_key + 1
        BY <3>2, <3>3, <4>1
      <4> QED  BY <3>4, <4>2, Queues
    <3>6. numbers(u, "key") = ev.n + 1 .. typed
      <4>1. ASSUME NEW y \in numbers(u, "key") PROVE y \in ev.n + 1 .. typed
        <5>1. y \in seen_key + 1 .. typed /\ ev.n < y
          BY <3>2, <3>3
        <5> QED  BY <3>5, <5>1, Queues
      <4>2. ASSUME NEW y \in ev.n + 1 .. typed PROVE y \in numbers(u, "key")
        <5>1. y \in seen_key + 1 .. typed /\ y # ev.n
          BY <3>5, <4>2, Queues
        <5> QED  BY <3>3, <5>1
      <4> QED  BY <4>1, <4>2
    <3>7. seen_key' = ev.n /\ typed' = typed
      BY <1>1, <2>3
    <3>8. ev.n \in 0 .. typed
      BY <3>4, Queues
    <3> QED  BY <1>6, <2>2, <3>6, <3>7, <3>8 DEF TypeaheadInOrder
  <2>4. CASE ev.kind # "key"
    <3>1. numbers(a, "key") = {}
      BY <1>5, <1>9, <2>4 DEF numbers
    <3>2. seen_key' = seen_key /\ typed' = typed
      BY <1>1, <2>4
    <3>3. seen_key \in 0 .. typed
      BY Queues
    <3> QED  BY <1>6, <1>7, <2>1, <2>2, <3>1, <3>2, <3>3 DEF TypeaheadInOrder
  <2> QED  BY <2>3, <2>4
\* Geometry.
<1>11. LastGeometryArrives' /\ seen_size' \in 0 .. resized
  <2>1. /\ in_order(undelivered, "resize")
        /\ numbers(undelivered, "resize") \subseteq seen_size + 1 .. resized
        /\ resized \in numbers(undelivered, "resize") \cup {seen_size}
    BY DEF IInv, LastGeometryArrives
  <2>2. in_order(undelivered', "resize") /\ resized' = resized
    BY <1>1, <1>6, <1>7, <2>1
  <2>3. /\ numbers(u, "resize") \subseteq seen_size + 1 .. resized
        /\ \A x \in numbers(a, "resize"), y \in numbers(u, "resize") : x < y
    BY <1>7, <2>1
  \* A resize that is passed over has a newer one behind it.
  <2>4. ASSUME NEW j \in 1 .. i - 1, a[j].kind = "resize" PROVE a[j].n # resized
    <3>1. PICK l \in j + 1 .. Len(pending) : is_resize(pending[l])
      BY <1>8
    <3>2. j \in DOMAIN pending /\ l \in DOMAIN pending /\ j < l /\ a[j] = pending[j]
      BY <1>2, <1>4, <1>5, Queues
    <3>3. /\ j \in DOMAIN undelivered /\ l \in DOMAIN undelivered
          /\ undelivered[j] = pending[j] /\ undelivered[l] = pending[l]
      BY <3>2, Queues, Joined DEF undelivered
    <3>4. pending[j].n < pending[l].n
      BY <2>1, <2>4, <3>1, <3>2, <3>3 DEF in_order, is_resize
    <3>5. pending[l].n \in numbers(undelivered, "resize") /\ pending[j].n \in numbers(undelivered, "resize")
      BY <2>4, <3>1, <3>2, <3>3 DEF numbers, is_resize
    <3>6. pending[l].n \in seen_size + 1 .. resized /\ pending[j].n \in seen_size + 1 .. resized
      BY <2>1, <3>5
    <3> QED  BY <3>2, <3>4, <3>6, Queues
  <2>5. resized \in numbers(a, "resize") => ev.kind = "resize" /\ ev.n = resized
    <3>1. SUFFICES ASSUME NEW j \in DOMAIN a, a[j].kind = "resize", a[j].n = resized
                   PROVE  ev.kind = "resize" /\ ev.n = resized
      BY DEF numbers
    <3>2. j = i
      BY <1>9, <2>4, <3>1
    <3> QED  BY <1>5, <3>1, <3>2
  <2>6. CASE ev.kind = "resize"
    <3>1. ev.n \in numbers(a, "resize")
      BY <1>5, <2>6 DEF numbers
    <3>2. ev.n \in seen_size + 1 .. resized
      BY <1>7, <2>1, <3>1
    <3>3. seen_size' = ev.n
      BY <1>1, <2>6
    <3>4. numbers(u, "resize") \subseteq ev.n + 1 .. resized
      <4>1. ASSUME NEW y \in numbers(u, "resize") PROVE y \in ev.n + 1 .. resized
        <5>1. y \in seen_size + 1 .. resized /\ ev.n < y
          BY <2>3, <3>1
        <5> QED  BY <3>2, <5>1, Queues
      <4> QED  BY <4>1
    <3>5. resized \in numbers(u, "resize") \cup {ev.n}
      <4>1. resized # seen_size
        BY <3>2, Queues
      <4> QED  BY <1>7, <2>1, <2>5, <4>1
    <3>6. ev.n \in 0 .. resized
      BY <3>2, Queues
    <3> QED  BY <1>6, <2>2, <3>3, <3>4, <3>5, <3>6 DEF LastGeometryArrives
  <2>7. CASE ev.kind # "resize"
    <3>1. seen_size' = seen_size /\ seen_size \in 0 .. resized
      BY <1>1, <2>7, Queues
    <3>2. resized \in numbers(u, "resize") \cup {seen_size}
      BY <1>7, <2>1, <2>5, <2>7
    <3> QED  BY <1>6, <2>2, <2>3, <3>1, <3>2 DEF LastGeometryArrives
  <2> QED  BY <2>6, <2>7
<1>12. TypeOK'
  BY <1>1, <1>4, <1>10, <1>11 DEF IInv, TypeOK
<1>13. CallIsRecorded' /\ SlotsAreOfTheCall'
  BY <1>1 DEF IInv, CallIsRecorded, SlotsAreOfTheCall, in_flight
<1>14. PassedOnIsUnclaimed'
  BY <1>1 DEF PassedOnIsUnclaimed, in_flight
<1>15. RepliesAreAwaited'
  <2>1. ASSUME NEW j \in DOMAIN rest PROVE i + j \in DOMAIN pending /\ rest[j] = pending[i + j]
    <3>1. j \in 1 .. Len(pending) - i
      BY <1>4, <1>5, <2>1
    <3>2. i + j \in 1 .. Len(pending)
      BY <1>2, <3>1, Queues
    <3> QED  BY <1>4, <3>1, <3>2, Queues
  <2>2. ASSUME \A j \in DOMAIN pending : pending[j].kind # "reply"
        PROVE  \A j \in DOMAIN rest : rest[j].kind # "reply"
    BY <2>1, <2>2
  <2> QED  BY <1>1, <2>2 DEF IInv, RepliesAreAwaited, awaited, own_replies
<1> QED
  BY <1>10, <1>11, <1>12, <1>13, <1>14, <1>15 DEF IInv

LEMMA BufferBatchKeeps ==
  ASSUME IInv, NEW n \in 1 .. MaxWire, BufferBatch(n)
  PROVE  IInv'
<1> DEFINE e == SubSeq(wire, 1, n)
           w == SubSeq(wire, n + 1, Len(wire))
           none == <<>>
<1>1. /\ ~ in_flight /\ pending = none /\ n \in 1 .. Len(wire) /\ wire' = w
      /\ UNCHANGED << next_id, active_query, active_probe, call, asked, typed, resized,
                      seen_key, seen_size, gave_up >>
  BY DEF BufferBatch, app
<1>2. /\ e \in Seq(Event) /\ w \in Seq(Event) /\ Len(w) = Len(wire) - n /\ wire = e \o w
      /\ Len(e) = n /\ \A m \in 1 .. n : e[m] = wire[m]
      /\ \A m \in 1 .. Len(wire) - n : w[m] = wire[n + m]
  BY <1>1, Queues, Split
<1>3. Len(w) <= MaxWire
  BY <1>1, <1>2, Queues, DriverAssumption
<1>4. Tracked(slots)
  BY SlotsAreTracked
<1>5. PICK s, k : /\ buffer_events(slots, e) = [slots |-> s, kept |-> k]
                  /\ BufferSoFar(slots, e, Len(e), s, k)
  <2> HIDE DEF e
  <2> QED  BY <1>2, <1>4, BufferFeeds
<1>6. slots' = s /\ pending' = k
  BY <1>5 DEF BufferBatch
<1>7. /\ k \in Seq(Event) /\ Sifted(k, e, Len(e)) /\ Tracked(s) /\ DOMAIN s = DOMAIN slots
      /\ \A x \in DOMAIN slots : s[x].expectation = slots[x].expectation
  BY <1>5 DEF BufferSoFar
<1> HIDE DEF e, w
<1>8. none \in Seq(Event) /\ none \o k = k /\ undelivered = none \o (e \o w)
  BY <1>1, <1>2, <1>7, Queues, ConcatEmptySeq DEF undelivered
<1> HIDE DEF none
<1>9. TypeaheadInOrder' /\ LastGeometryArrives'
  BY <1>1, <1>2, <1>6, <1>7, <1>8, FlowKeeps
<1>10. TypeOK'
  BY <1>1, <1>2, <1>3, <1>6, <1>7 DEF IInv, TypeOK, Tracked
<1>11. CallIsRecorded'
  BY <1>1, <1>6, <1>7 DEF IInv, CallIsRecorded
<1>12. SlotsAreOfTheCall'
  <2>1. \A x \in DOMAIN s : s[x].outstanding = 1
    BY <1>7 DEF Tracked
  <2>2. call.at # "write"
    BY <1>1 DEF in_flight
  <2> QED  BY <1>1, <1>6, <1>7, <2>1, <2>2 DEF IInv, SlotsAreOfTheCall, in_flight
<1>13. PassedOnIsUnclaimed'
  BY <1>1 DEF PassedOnIsUnclaimed, in_flight
<1>14. RepliesAreAwaited'
  <2>1. SUFFICES ASSUME ~ gave_up PROVE RepliesAreAwaited'
    BY <1>1 DEF RepliesAreAwaited
  <2>2. /\ \A j \in DOMAIN wire : wire[j].kind # "reply"
        /\ DOMAIN asked = {} /\ own_replies
        /\ call.at \in {"idle", "write", "read", "answered", "fenced"}
    BY <1>1, <2>1 DEF IInv, RepliesAreAwaited, in_flight
  <2>3. ASSUME NEW j \in DOMAIN k PROVE k[j].kind # "reply"
    <3>1. j \in 1 .. Len(k)
      BY <1>7, LenProperties
    <3>2. PICK m \in 1 .. Len(e) : k[j] = e[m]
      BY <1>7, <3>1, SiftedElements
    <3>3. m \in DOMAIN wire /\ e[m] = wire[m]
      BY <1>1, <1>2, Queues
    <3> QED  BY <2>2, <3>2, <3>3
  <2>4. ASSUME NEW j \in DOMAIN w PROVE w[j].kind # "reply"
    <3>1. j \in 1 .. Len(wire) - n
      BY <1>2, LenProperties
    <3>2. n + j \in DOMAIN wire /\ w[j] = wire[n + j]
      BY <1>1, <1>2, <3>1, Queues
    <3> QED  BY <2>2, <3>2
  <2> QED  BY <1>1, <1>6, <2>2, <2>3, <2>4 DEF RepliesAreAwaited, in_order, own_replies
<1> QED
  BY <1>9, <1>10, <1>11, <1>12, <1>13, <1>14 DEF IInv

(***************************************************************************)
(* The terminal puts one more event on the wire.                           *)
(***************************************************************************)
LEMMA OneMore ==
  ASSUME NEW w \in Seq(Event), NEW ev \in Event
  PROVE  /\ Append(w, ev) \in Seq(Event) /\ Append(w, ev) = w \o <<ev>>
         /\ <<ev>> \in Seq(Event)
         /\ \A kind : /\ in_order(<<ev>>, kind)
                      /\ numbers(<<ev>>, kind) = IF ev.kind = kind THEN {ev.n} ELSE {}
<1>1. Append(w, ev) \in Seq(Event) /\ <<ev>> \in Seq(Event)
  OBVIOUS
<1>2. Append(w, ev) = w \o <<ev>>
  OBVIOUS
<1> DEFINE o == <<ev>>
<1>3. DOMAIN o = {1} /\ o[1] = ev
  OBVIOUS
<1> HIDE DEF o
<1>4. \A kind : in_order(o, kind)
  BY <1>3 DEF in_order
<1>5. \A kind : numbers(o, kind) = IF ev.kind = kind THEN {ev.n} ELSE {}
  BY <1>3 DEF numbers
<1> QED
  BY <1>1, <1>2, <1>4, <1>5 DEF o

LEMMA SentFlow ==
  ASSUME IInv, NEW ev \in Event, wire' = Append(wire, ev), pending' = pending
  PROVE  \A kind :
           /\ numbers(undelivered', kind)
                = numbers(undelivered, kind) \cup (IF ev.kind = kind THEN {ev.n} ELSE {})
           /\ in_order(undelivered, kind)
                /\ (ev.kind = kind => \A x \in numbers(undelivered, kind) : x < ev.n)
              => in_order(undelivered', kind)
<1> DEFINE c == undelivered
           o == <<ev>>
<1>1. wire \in Seq(Event) /\ pending \in Seq(Event)
  BY Queues
<1>2. c \in Seq(Event)
  BY <1>1, ConcatProperties DEF undelivered
<1>3. /\ wire' = wire \o o /\ o \in Seq(Event)
      /\ \A kind : in_order(o, kind) /\ numbers(o, kind) = IF ev.kind = kind THEN {ev.n} ELSE {}
  BY <1>1, OneMore
<1> HIDE DEF o
<1>4. undelivered' = c \o o
  <2>1. undelivered' = pending \o (wire \o o)
    BY <1>3 DEF undelivered
  <2> QED  BY <1>1, <1>3, <2>1, ConcatAssociative DEF undelivered
<1> HIDE DEF c
<1>5. ASSUME NEW kind
      PROVE  /\ numbers(c \o o, kind) = numbers(c, kind) \cup (IF ev.kind = kind THEN {ev.n} ELSE {})
             /\ in_order(c, kind) /\ (ev.kind = kind => \A x \in numbers(c, kind) : x < ev.n)
                  => in_order(c \o o, kind)
  <2>1. numbers(c \o o, kind) = numbers(c, kind) \cup numbers(o, kind)
    BY <1>2, <1>3, NumbersJoined
  <2>2. in_order(c \o o, kind) <=>
           /\ in_order(c, kind) /\ in_order(o, kind)
           /\ \A x \in numbers(c, kind), y \in numbers(o, kind) : x < y
    BY <1>2, <1>3, OrderJoined
  <2> QED  BY <1>3, <2>1, <2>2
<1> QED
  BY <1>4, <1>5 DEF c

LEMMA SentTypes ==
  ASSUME IInv, NEW ev \in Event, Send(ev)
  PROVE  /\ wire' = Append(wire, ev) /\ wire' \in Seq(Event) /\ Len(wire') <= MaxWire
         /\ Len(wire') = Len(wire) + 1 /\ DOMAIN wire' = 1 .. Len(wire) + 1
         /\ \A i \in 1 .. Len(wire) : wire'[i] = wire[i]
         /\ wire'[Len(wire) + 1] = ev
<1>1. wire \in Seq(Event) /\ Len(wire) \in Nat /\ Len(wire) < MaxWire /\ wire' = Append(wire, ev)
  BY Queues DEF Send
<1>2. /\ wire' \in Seq(Event) /\ Len(wire') = Len(wire) + 1
      /\ \A i \in 1 .. Len(wire) : wire'[i] = wire[i]
      /\ wire'[Len(wire) + 1] = ev
  BY <1>1, AppendProperties
<1>3. DOMAIN wire' = 1 .. Len(wire) + 1
  BY <1>2, LenProperties
<1>4. Len(wire') <= MaxWire
  BY <1>1, <1>2, DriverAssumption
<1> QED
  BY <1>1, <1>2, <1>3, <1>4

\* A key or a resize on the wire is no reply.
LEMMA NoReplySent ==
  ASSUME IInv, NEW ev \in Event, ev.kind # "reply", Send(ev),
         UNCHANGED <<slots, pending, call, asked, gave_up>>
  PROVE  RepliesAreAwaited'
<1>1. SUFFICES ASSUME ~ gave_up PROVE RepliesAreAwaited'
  BY DEF RepliesAreAwaited
<1>2. /\ DOMAIN wire = 1 .. Len(wire) /\ Len(wire) \in Nat
      /\ DOMAIN wire' = 1 .. Len(wire) + 1
      /\ \A i \in 1 .. Len(wire) : wire'[i] = wire[i]
      /\ wire'[Len(wire) + 1] = ev
  BY Queues, SentTypes
<1>3. \A i \in DOMAIN wire' : wire'[i].kind = "reply" => i \in DOMAIN wire /\ wire'[i] = wire[i]
  BY <1>2
<1>4. RepliesAreAwaited
  BY DEF IInv
<1> QED
  BY <1>1, <1>3, <1>4 DEF RepliesAreAwaited, in_order, awaited, own_replies

LEMMA AnswerKeeps ==
  ASSUME IInv, Answer
  PROVE  IInv'
<1> DEFINE h == Head(asked)
           ev == [kind |-> "reply", to |-> h.to, n |-> h.n]
<1>1. /\ asked # <<>> /\ Send(ev) /\ asked' = Tail(asked)
      /\ UNCHANGED << slots, next_id, active_query, active_probe, pending, call, typed, resized,
                      seen_key, seen_size, gave_up >>
  BY DEF Answer, session, app
<1>2. asked \in Seq(Request)
  BY DEF IInv, TypeOK, Request
<1>3. /\ h \in Request /\ h = asked[1] /\ asked' \in Seq(Request)
      /\ Len(asked) \in Nat \ {0} /\ Len(asked') = Len(asked) - 1
      /\ \A i \in 1 .. Len(asked') : asked'[i] = asked[i + 1]
      /\ DOMAIN asked = 1 .. Len(asked) /\ DOMAIN asked' = 1 .. Len(asked')
  BY <1>1, <1>2, HeadTailProperties, EmptySeq, LenProperties
<1> HIDE DEF h
<1>4. ev \in Event /\ ev.kind = "reply" /\ ev.to = h.to /\ ev.n = h.n
  BY <1>3 DEF Event, Reply, Request
<1> HIDE DEF ev
<1>5. /\ wire' = Append(wire, ev) /\ wire' \in Seq(Event) /\ Len(wire') <= MaxWire
      /\ DOMAIN wire' = 1 .. Len(wire) + 1
      /\ \A i \in 1 .. Len(wire) : wire'[i] = wire[i]
      /\ wire'[Len(wire) + 1] = ev
  BY <1>1, <1>4, SentTypes
<1>6. \A kind : kind # "reply" =>
        /\ numbers(undelivered', kind) = numbers(undelivered, kind)
        /\ in_order(undelivered, kind) => in_order(undelivered', kind)
  BY <1>1, <1>4, <1>5, SentFlow
<1>7. TypeaheadInOrder' /\ LastGeometryArrives'
  <2>1. TypeaheadInOrder'
    BY <1>1, <1>6 DEF IInv, TypeaheadInOrder
  <2>2. LastGeometryArrives'
    BY <1>1, <1>6 DEF IInv, LastGeometryArrives
  <2> QED  BY <2>1, <2>2
<1>8. TypeOK'
  BY <1>1, <1>3, <1>5 DEF IInv, TypeOK, Request
<1>9. CallIsRecorded' /\ SlotsAreOfTheCall' /\ PassedOnIsUnclaimed'
  BY <1>1 DEF IInv, CallIsRecorded, SlotsAreOfTheCall, PassedOnIsUnclaimed, in_flight
<1>10. RepliesAreAwaited'
  <2>1. SUFFICES ASSUME ~ gave_up PROVE RepliesAreAwaited'
    BY <1>1 DEF RepliesAreAwaited
  <2>2. RepliesAreAwaited
    BY DEF IInv
  <2>3. /\ \A j \in DOMAIN asked : call.at = "read" /\ awaited(asked[j])
        /\ \A i, j \in DOMAIN asked : i < j => asked[i].n < asked[j].n
        /\ \A i \in DOMAIN wire, j \in DOMAIN asked :
             wire[i].kind = "reply" => wire[i].n < asked[j].n
        /\ \A j \in DOMAIN wire : wire[j].kind = "reply" => call.at = "read" /\ awaited(wire[j])
        /\ in_order(wire, "reply")
    BY <2>1, <2>2 DEF RepliesAreAwaited
  <2>4. 1 \in DOMAIN asked /\ \A i \in DOMAIN asked' : i + 1 \in DOMAIN asked /\ asked'[i] = asked[i + 1] /\ 1 < i + 1
    BY <1>3
  <2>5. DOMAIN wire = 1 .. Len(wire) /\ Len(wire) \in Nat
    BY Queues
  <2>6. \A i \in DOMAIN wire' : \/ i \in DOMAIN wire /\ wire'[i] = wire[i]
                                \/ i = Len(wire) + 1 /\ wire'[i] = ev
    BY <1>5, <2>5
  <2>7. call.at = "read" /\ awaited(ev)
    BY <1>3, <1>4, <2>3, <2>4 DEF awaited
  <2>8. \A i \in DOMAIN wire : wire[i].kind = "reply" => wire[i].n < ev.n
    BY <1>3, <1>4, <2>3, <2>4
  <2>9. \A j \in DOMAIN asked' : ev.n < asked'[j].n
    BY <1>3, <1>4, <2>3, <2>4
  <2>10. in_order(wire', "reply")
    <3>1. ASSUME NEW i \in DOMAIN wire', NEW j \in DOMAIN wire', i < j,
                 wire'[i].kind = "reply", wire'[j].kind = "reply"
          PROVE  wire'[i].n < wire'[j].n
      <4>1. i \in DOMAIN wire /\ wire'[i] = wire[i]
        BY <1>5, <2>5, <2>6, <3>1
      <4> QED  BY <2>3, <2>6, <2>8, <3>1, <4>1 DEF in_order
    <3> QED  BY <3>1 DEF in_order
  <2>11. \A i, j \in DOMAIN asked' : i < j => asked'[i].n < asked'[j].n
    <3>1. ASSUME NEW i \in DOMAIN asked', NEW j \in DOMAIN asked', i < j
          PROVE  asked'[i].n < asked'[j].n
      <4>1. i + 1 < j + 1
        BY <1>3, <3>1
      <4> QED  BY <2>3, <2>4, <4>1
    <3> QED  BY <3>1
  <2>12. \A i \in DOMAIN wire', j \in DOMAIN asked' :
           wire'[i].kind = "reply" => wire'[i].n < asked'[j].n
    BY <2>3, <2>4, <2>6, <2>9
  <2>13. \A j \in DOMAIN wire' : wire'[j].kind = "reply" => call'.at = "read" /\ AwaitedNext(wire'[j])
    BY <1>1, <2>3, <2>6, <2>7 DEF awaited, AwaitedNext
  <2>14. \A j \in DOMAIN asked' : call'.at = "read" /\ AwaitedNext(asked'[j])
    BY <1>1, <2>3, <2>4 DEF awaited, AwaitedNext
  <2>15. /\ call'.at \in {"idle", "write", "read", "answered", "fenced"}
         /\ \A j \in DOMAIN pending' : pending'[j].kind # "reply"
         /\ own_replies'
    BY <1>1, <2>1, <2>2 DEF RepliesAreAwaited, own_replies
  <2> QED
    BY <2>10, <2>11, <2>12, <2>13, <2>14, <2>15 DEF RepliesAreAwaited, awaited, AwaitedNext
<1> QED
  BY <1>7, <1>8, <1>9, <1>10 DEF IInv

LEMMA IgnoreKeeps ==
  ASSUME IInv, Ignore
  PROVE  IInv'
<1>1. /\ asked # <<>> /\ asked' = Tail(asked)
      /\ UNCHANGED << slots, next_id, active_query, active_probe, pending, call, wire, typed, resized,
                      seen_key, seen_size, gave_up >>
  BY DEF Ignore, session, app
<1>2. asked \in Seq(Request)
  BY DEF IInv, TypeOK, Request
<1>3. /\ asked' \in Seq(Request)
      /\ \A i \in 1 .. Len(asked') : asked'[i] = asked[i + 1]
      /\ Len(asked) \in Nat \ {0} /\ Len(asked') = Len(asked) - 1
      /\ DOMAIN asked = 1 .. Len(asked) /\ DOMAIN asked' = 1 .. Len(asked')
  BY <1>1, <1>2, HeadTailProperties, EmptySeq, LenProperties
<1>4. \A i \in DOMAIN asked' : i + 1 \in DOMAIN asked /\ asked'[i] = asked[i + 1] /\ i \in Nat
  BY <1>3
<1>5. TypeOK'
  BY <1>1, <1>3 DEF IInv, TypeOK, Request
<1>6. CallIsRecorded' /\ SlotsAreOfTheCall' /\ PassedOnIsUnclaimed'
  BY <1>1 DEF IInv, CallIsRecorded, SlotsAreOfTheCall, PassedOnIsUnclaimed, in_flight
<1>7. TypeaheadInOrder' /\ LastGeometryArrives'
  BY <1>1 DEF IInv, TypeaheadInOrder, LastGeometryArrives, undelivered
<1>8. RepliesAreAwaited'
  <2>1. \A i, j \in DOMAIN asked' : i < j => i + 1 < j + 1
    BY <1>4
  <2>2. RepliesAreAwaited
    BY DEF IInv
  <2>3. SUFFICES ASSUME ~ gave_up PROVE RepliesAreAwaited'
    BY <1>1 DEF RepliesAreAwaited
  <2>4. \A j \in DOMAIN asked' : call'.at = "read" /\ AwaitedNext(asked'[j])
    BY <1>1, <1>4, <2>2, <2>3 DEF RepliesAreAwaited, awaited, AwaitedNext
  <2>5. /\ \A i, j \in DOMAIN asked' : i < j => asked'[i].n < asked'[j].n
        /\ \A i \in DOMAIN wire, j \in DOMAIN asked' : wire[i].kind = "reply" => wire[i].n < asked'[j].n
    BY <1>4, <2>1, <2>2, <2>3 DEF RepliesAreAwaited
  <2> QED
    BY <1>1, <2>2, <2>3, <2>4, <2>5 DEF RepliesAreAwaited, awaited, AwaitedNext, own_replies, in_order
<1> QED
  BY <1>5, <1>6, <1>7, <1>8 DEF IInv

LEMMA TypeKeyKeeps ==
  ASSUME IInv, TypeKey
  PROVE  IInv'
<1> DEFINE ev == [kind |-> "key", n |-> typed + 1]
<1>1. /\ typed < MaxKeys /\ Send(ev) /\ typed' = typed + 1
      /\ UNCHANGED << slots, next_id, active_query, active_probe, pending, call, asked, resized,
                      seen_key, seen_size, gave_up >>
  BY DEF TypeKey, session, app
<1>2. ev \in Event /\ ev.kind = "key" /\ ev.n = typed + 1
  BY <1>1, Queues, DriverAssumption DEF Event, Key
<1> HIDE DEF ev
<1>3. wire' = Append(wire, ev) /\ wire' \in Seq(Event) /\ Len(wire') <= MaxWire
  BY <1>1, <1>2, SentTypes
<1>4. TypeOK'
  <2>1. typed' \in 0 .. MaxKeys /\ seen_key' \in 0 .. typed'
    BY <1>1, Queues, DriverAssumption
  <2> QED  BY <1>1, <1>3, <2>1 DEF IInv, TypeOK
<1>5. TypeaheadInOrder'
  <2>1. in_order(undelivered, "key") /\ numbers(undelivered, "key") = seen_key + 1 .. typed
    BY DEF IInv, TypeaheadInOrder
  <2>2. \A x \in numbers(undelivered, "key") : x < ev.n
    BY <1>2, <2>1, Queues
  <2>3. numbers(undelivered', "key") = (seen_key + 1 .. typed) \cup {typed + 1}
    BY <1>1, <1>2, <1>3, <2>1, SentFlow
  <2>4. in_order(undelivered', "key")
    BY <1>1, <1>2, <1>3, <2>1, <2>2, SentFlow
  <2>5. (seen_key + 1 .. typed) \cup {typed + 1} = seen_key + 1 .. typed + 1
    BY Queues
  <2> QED  BY <1>1, <2>3, <2>4, <2>5 DEF TypeaheadInOrder
<1>6. LastGeometryArrives'
  BY <1>1, <1>2, <1>3, SentFlow DEF IInv, LastGeometryArrives
<1>7. CallIsRecorded' /\ SlotsAreOfTheCall' /\ PassedOnIsUnclaimed'
  BY <1>1 DEF IInv, CallIsRecorded, SlotsAreOfTheCall, PassedOnIsUnclaimed, in_flight
<1>8. RepliesAreAwaited'
  BY <1>1, <1>2, NoReplySent
<1> QED
  BY <1>4, <1>5, <1>6, <1>7, <1>8 DEF IInv

LEMMA ResizeWindowKeeps ==
  ASSUME IInv, ResizeWindow
  PROVE  IInv'
<1> DEFINE ev == [kind |-> "resize", n |-> resized + 1]
<1>1. /\ resized < MaxResizes /\ Send(ev) /\ resized' = resized + 1
      /\ UNCHANGED << slots, next_id, active_query, active_probe, pending, call, asked, typed,
                      seen_key, seen_size, gave_up >>
  BY DEF ResizeWindow, session, app
<1>2. ev \in Event /\ ev.kind = "resize" /\ ev.n = resized + 1
  BY <1>1, Queues, DriverAssumption DEF Event, Resize
<1> HIDE DEF ev
<1>3. wire' = Append(wire, ev) /\ wire' \in Seq(Event) /\ Len(wire') <= MaxWire
  BY <1>1, <1>2, SentTypes
<1>4. TypeOK'
  <2>1. resized' \in 0 .. MaxResizes /\ seen_size' \in 0 .. resized'
    BY <1>1, Queues, DriverAssumption
  <2> QED  BY <1>1, <1>3, <2>1 DEF IInv, TypeOK
<1>5. LastGeometryArrives'
  <2>1. in_order(undelivered, "resize") /\ numbers(undelivered, "resize") \subseteq seen_size + 1 .. resized
    BY DEF IInv, LastGeometryArrives
  <2>2. \A x \in numbers(undelivered, "resize") : x < ev.n
    BY <1>2, <2>1, Queues
  <2>3. numbers(undelivered', "resize") = numbers(undelivered, "resize") \cup {resized + 1}
    BY <1>1, <1>2, <1>3, SentFlow
  <2>4. in_order(undelivered', "resize")
    BY <1>1, <1>2, <1>3, <2>1, <2>2, SentFlow
  <2>5. (seen_size + 1 .. resized) \cup {resized + 1} = seen_size + 1 .. resized + 1
    BY Queues
  <2> QED  BY <1>1, <2>1, <2>3, <2>4, <2>5 DEF LastGeometryArrives
<1>6. TypeaheadInOrder'
  BY <1>1, <1>2, <1>3, SentFlow DEF IInv, TypeaheadInOrder
<1>7. CallIsRecorded' /\ SlotsAreOfTheCall' /\ PassedOnIsUnclaimed'
  BY <1>1 DEF IInv, CallIsRecorded, SlotsAreOfTheCall, PassedOnIsUnclaimed, in_flight
<1>8. RepliesAreAwaited'
  BY <1>1, <1>2, NoReplySent
<1> QED
  BY <1>4, <1>5, <1>6, <1>7, <1>8 DEF IInv

-----------------------------------------------------------------------------
(***************************************************************************)
(* The invariant holds initially, and every step keeps it.                 *)
(***************************************************************************)
LEMMA InvInit ==
  ASSUME Init
  PROVE  IInv
<1> DEFINE none == <<>>
<1>1. /\ pending = none /\ wire = none /\ asked = none /\ active_probe = none
      /\ call = [kind |-> "none", at |-> "idle", ids |-> none, got |-> none]
      /\ next_id = 0 /\ active_query = NoId /\ typed = 0 /\ resized = 0
      /\ seen_key = 0 /\ seen_size = 0 /\ gave_up = FALSE
  BY DEF Init
<1>2. DOMAIN slots = {} /\ slots \in [DOMAIN slots -> Slot]
  BY DEF Init
<1>3. /\ \A S : none \in Seq(S)
      /\ Len(none) = 0 /\ DOMAIN none = {} /\ none \o none = none
  OBVIOUS
<1> HIDE DEF none
<1>4. TypeOK
  <2>1. call \in CallType /\ Len(call.got) = Len(call.ids)
    BY <1>1, <1>3 DEF CallType
  <2>2. next_id \in 0 .. MaxIds /\ typed \in 0 .. MaxKeys /\ seen_key \in 0 .. typed
    BY <1>1, DriverAssumption
  <2>3. resized \in 0 .. MaxResizes /\ seen_size \in 0 .. resized /\ Len(wire) <= MaxWire
    BY <1>1, <1>3, DriverAssumption
  <2>4. gave_up \in BOOLEAN
    BY <1>1
  <2>5. DOMAIN slots \subseteq 0 .. next_id - 1 /\ slots \in [DOMAIN slots -> Slot]
    BY <1>2
  <2>6. /\ active_query \in 0 .. MaxIds - 1 \cup {NoId}
        /\ active_probe \in Seq(0 .. MaxIds - 1)
        /\ pending \in Seq(Event) /\ wire \in Seq(Event)
        /\ asked \in Seq([to : Expectation, n : 0 .. MaxIds - 1])
    BY <1>1, <1>3
  <2> QED  BY <2>1, <2>2, <2>3, <2>4, <2>5, <2>6 DEF TypeOK, CallType
<1>5. CallIsRecorded
  BY <1>1, <1>2, <1>3 DEF CallIsRecorded, none
<1>6. SlotsAreOfTheCall
  BY <1>1, <1>2, <1>3 DEF SlotsAreOfTheCall, in_flight
<1>7. TypeaheadInOrder /\ LastGeometryArrives
  <2>1. undelivered = none
    BY <1>1, <1>3 DEF undelivered
  <2>2. \A kind : in_order(none, kind) /\ numbers(none, kind) = {}
    BY <1>3 DEF in_order, numbers
  <2> QED  BY <1>1, <2>1, <2>2 DEF TypeaheadInOrder, LastGeometryArrives
<1>8. PassedOnIsUnclaimed /\ RepliesAreAwaited
  BY <1>1, <1>3 DEF PassedOnIsUnclaimed, RepliesAreAwaited, in_order, own_replies
<1> QED
  BY <1>4, <1>5, <1>6, <1>7, <1>8 DEF IInv

LEMMA InvStays ==
  ASSUME IInv, UNCHANGED vars
  PROVE  IInv'
<1>1. TypeOK' /\ CallIsRecorded' /\ SlotsAreOfTheCall'
  BY DEF IInv, vars, session, terminal, app, TypeOK, CallIsRecorded, SlotsAreOfTheCall, in_flight
<1>2. TypeaheadInOrder' /\ LastGeometryArrives' /\ PassedOnIsUnclaimed'
  BY DEF IInv, vars, session, terminal, app, TypeaheadInOrder, LastGeometryArrives,
         undelivered, PassedOnIsUnclaimed
<1>3. RepliesAreAwaited'
  BY DEF IInv, vars, session, terminal, app, RepliesAreAwaited, awaited, own_replies
<1> QED
  BY <1>1, <1>2, <1>3 DEF IInv

LEMMA InvNext ==
  ASSUME IInv, Next
  PROVE  IInv'
<1>1. ASSUME NEW e \in Query, StartQuery(e) PROVE IInv'
  BY <1>1, StartQueryKeeps
<1>2. ASSUME StartProbe PROVE IInv'
  BY <1>2, StartProbeKeeps
<1>3. ASSUME WriteRequest PROVE IInv'
  BY <1>3, WriteRequestKeeps
<1>4. ASSUME NEW sent \in 0 .. Len(Optional), InterruptWrite(sent) PROVE IInv'
  BY <1>4, InterruptWriteKeeps
<1>5. ASSUME NEW n \in 1 .. MaxWire, ReadBatch(n) PROVE IInv'
  BY <1>5, ReadBatchKeeps
<1>6. ASSUME NEW how \in {"timeout", "eof", "failed"}, EndRead(how) PROVE IInv'
  BY <1>6, EndReadKeeps
<1>7. ASSUME CancelRead PROVE IInv'
  BY <1>7, CancelReadKeeps
<1>8. ASSUME TakeEvent PROVE IInv'
  BY <1>8, TakeEventKeeps
<1>9. ASSUME NEW n \in 1 .. MaxWire, BufferBatch(n) PROVE IInv'
  BY <1>9, BufferBatchKeeps
<1>10. ASSUME Answer PROVE IInv'
  BY <1>10, AnswerKeeps
<1>11. ASSUME Ignore PROVE IInv'
  BY <1>11, IgnoreKeeps
<1>12. ASSUME TypeKey PROVE IInv'
  BY <1>12, TypeKeyKeeps
<1>13. ASSUME ResizeWindow PROVE IInv'
  BY <1>13, ResizeWindowKeeps
<1> QED
  BY <1>1, <1>2, <1>3, <1>4, <1>5, <1>6, <1>7, <1>8, <1>9, <1>10, <1>11, <1>12, <1>13 DEF Next

(***************************************************************************)
(* What holds of every state of TokioTerminalSession's query side: the     *)
(* session's fields have their types, the last call alone owns what is     *)
(* tracked, typeahead and geometry are in order, and replies are awaited   *)
(* as long as every call ended by its answer (IInv).                       *)
(***************************************************************************)
THEOREM InductiveInvariant == Spec => []IInv
<1>1. Init => IInv
  BY InvInit
<1>2. IInv /\ [Next]_vars => IInv'
  BY InvNext, InvStays
<1> QED
  BY <1>1, <1>2, PTL DEF Spec

(***************************************************************************)
(* The fields of the session and the terminal's queues have their types,   *)
(* and nothing that next_event returned was not sent before.               *)
(***************************************************************************)
THEOREM TypeCorrect == Spec => []TypeOK
<1>1. IInv => TypeOK
  BY DEF IInv
<1> QED
  BY <1>1, InductiveInvariant, PTL

(***************************************************************************)
(* Every expectation the correlator tracks is recorded in active_query or  *)
(* active_probe, where the next call's sweep finds it, has one waiter, and *)
(* while a call is in flight is that call's own and has no reply waiting.  *)
(***************************************************************************)
THEOREM SlotsAlwaysOwned == Spec => []SlotsAreOwned
<1>1. ASSUME IInv PROVE SlotsAreOwned
  <2>1. ToSet(<<>>) = {}
    BY DEF ToSet
  <2>2. CASE call.at \in {"write", "read", "dropped"}
    <3>1. recorded = ToSet(call.ids)
      <4>1. CASE call.kind = "query" /\ active_query = call.ids[1] /\ active_probe = <<>>
        <5>1. Len(call.ids) = 1
          BY <1>1, <4>1 DEF IInv, CallIsRecorded
        <5>2. DOMAIN call.ids = {1} /\ call.ids[1] \in Nat
          BY <1>1, <5>1, CallShape
        <5>3. ToSet(call.ids) = {call.ids[1]} /\ call.ids[1] # NoId
          BY <5>2, DriverAssumption DEF ToSet
        <5> QED  BY <2>1, <4>1, <5>3 DEF recorded
      <4>2. CASE call.kind = "probe" /\ active_query = NoId /\ active_probe = call.ids
        BY <4>2 DEF recorded
      <4> QED  BY <1>1, <2>2, <4>1, <4>2 DEF IInv, CallIsRecorded
    <3> QED  BY <1>1, <3>1 DEF IInv, SlotsAreOfTheCall, SlotsAreOwned
  <2>3. CASE call.at \notin {"write", "read", "dropped"}
    <3>1. DOMAIN slots = {} /\ ~ in_flight
      BY <1>1, <2>3 DEF IInv, CallIsRecorded, in_flight
    <3> QED  BY <3>1 DEF SlotsAreOwned
  <2> QED  BY <2>2, <2>3
<1>2. IInv => SlotsAreOwned
  BY <1>1
<1> QED
  BY <1>2, InductiveInvariant, PTL

(***************************************************************************)
(* Typed keys are neither lost nor duplicated nor reordered, whatever      *)
(* queries, probes, drops, deadlines and next_event calls come between.    *)
(***************************************************************************)
THEOREM TypeaheadSurvives == Spec => []TypeaheadInOrder
<1>1. IInv => TypeaheadInOrder
  BY DEF IInv
<1> QED
  BY <1>1, InductiveInvariant, PTL

(***************************************************************************)
(* Coalescing never tells the application an older geometry after a newer  *)
(* one, and the newest is told or still to come.                           *)
(***************************************************************************)
THEOREM LastGeometrySurvives == Spec => []LastGeometryArrives
<1>1. IInv => LastGeometryArrives
  BY DEF IInv
<1> QED
  BY <1>1, InductiveInvariant, PTL

(***************************************************************************)
(* As long as no call ended without its reply or its fence, a reply goes   *)
(* to the request that asked for it.                                       *)
(***************************************************************************)
THEOREM RepliesFindTheirRequest == Spec => []OwnReplyUnlessGaveUp
<1>1. IInv => OwnReplyUnlessGaveUp
  BY DEF IInv, RepliesAreAwaited, OwnReplyUnlessGaveUp
<1> QED
  BY <1>1, InductiveInvariant, PTL

(***************************************************************************)
(* A probe that ends in a read has taken its whole batch first: no event   *)
(* it passes on answers a query it reports unanswered.                     *)
(***************************************************************************)
THEOREM FenceTakesItsBatch == Spec => FenceWaitsForBatch
<1> DEFINE Ends == call.kind = "probe" /\ in_flight /\ call'.at \in {"fenced", "timeout", "eof"}
           Answered == \A i \in DOMAIN Bundle, j \in DOMAIN pending' :
                         match_event(Bundle[i], pending'[j]) => call'.got[i] # NoReply
<1>1. ASSUME IInv, Next, Ends PROVE Answered
  <2>0. DOMAIN Bundle = 1 .. Len(Bundle)
    BY BundleAsksOnce
  <2>1. ASSUME NEW queue \in Seq(Event), NEW events \in Seq(Event), CallTakes(queue, events),
               Claimed(queue, call.got)
        PROVE  Answered
    <3>1. Taken(queue, events)
      BY <1>1, <2>1, BatchTaken
    <3>2. Claimed(pending', call'.got)
      BY <1>1, <2>1, <3>1 DEF Taken
    <3>3. DOMAIN pending' = 1 .. Len(pending')
      BY <1>1, <3>1, TakenTypes, LenProperties
    <3> QED  BY <2>0, <3>2, <3>3 DEF Claimed
  <2>2. CASE WriteRequest
    <3> DEFINE none == <<>>
    <3>1. none \in Seq(Event) /\ Claimed(none, call.got) /\ CallTakes(none, pending)
      BY <2>2 DEF WriteRequest, Claimed
    <3> HIDE DEF none
    <3> QED  BY <1>1, <2>1, <3>1, Queues
  <2>3. ASSUME call.at = "read" PROVE Claimed(pending, call.got)
    BY <1>1, <2>0, <2>3, Queues DEF IInv, PassedOnIsUnclaimed, Claimed
  <2>4. ASSUME NEW n \in 1 .. MaxWire, ReadBatch(n) PROVE Answered
    <3> DEFINE e == SubSeq(wire, 1, n)
    <3>1. call.at = "read" /\ n \in 1 .. Len(wire) /\ CallTakes(pending, e)
      BY <2>4 DEF ReadBatch
    <3>2. e \in Seq(Event)
      BY <1>1, <3>1, Queues, Split
    <3> HIDE DEF e
    <3> QED  BY <1>1, <2>1, <2>3, <3>1, <3>2, Queues
  <2>5. ASSUME NEW how \in {"timeout", "eof", "failed"}, EndRead(how) PROVE Answered
    <3>1. call.at = "read" /\ pending' = pending /\ call' = ends(how)
      BY <2>5 DEF EndRead, awaits_read, ends
    <3>2. call'.got = call.got
      BY <1>1, <3>1, CallEnds
    <3> QED  BY <1>1, <2>0, <2>3, <3>1, <3>2, Queues DEF Claimed
  <2>6. ASSUME CancelRead \/ \E sent \in 0 .. Len(Optional) : InterruptWrite(sent) PROVE FALSE
    <3>1. call' = ends("dropped")
      BY <2>6 DEF CancelRead, InterruptWrite, ends
    <3> QED  BY <1>1, <3>1, CallEnds
  <2>7. ASSUME call' = call PROVE FALSE
    BY <1>1, <2>7 DEF in_flight
  <2>8. ASSUME Answer \/ Ignore \/ TypeKey \/ ResizeWindow PROVE FALSE
    BY <2>7, <2>8 DEF Answer, Ignore, TypeKey, ResizeWindow, session
  <2>9. ASSUME StartProbe \/ (\E e \in Query : StartQuery(e)) \/ TakeEvent
               \/ (\E n \in 1 .. MaxWire : BufferBatch(n))
        PROVE  FALSE
    BY <1>1, <2>9 DEF StartProbe, StartQuery, TakeEvent, BufferBatch
  <2> QED
    BY <1>1, <2>2, <2>4, <2>5, <2>6, <2>8, <2>9 DEF Next
<1>2. ASSUME IInv, [Next]_vars PROVE [Ends => Answered]_vars
  BY <1>1, <1>2
<1>3. IInv /\ [Next]_vars => [Ends => Answered]_vars
  BY <1>2
<1>4. []IInv /\ [][Next]_vars => [][Ends => Answered]_vars
  BY <1>3, PTL
<1> QED
  BY <1>4, InductiveInvariant, PTL DEF Spec, FenceWaitsForBatch
=============================================================================
