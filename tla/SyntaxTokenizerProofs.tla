------------------------ MODULE SyntaxTokenizerProofs ------------------------
(***************************************************************************)
(* Proofs about SyntaxTokenizer, for every input, every chunking and every *)
(* limit: its state keeps its types, what it retains is bounded, each byte *)
(* is accounted for once and in order, the tokens do not depend on how the *)
(* reads cut the input, and a paste ends at its first end bracket.         *)
(***************************************************************************)
EXTENDS SyntaxTokenizer, SequenceTheorems, WellFoundedInduction, TLAPS

(***************************************************************************)
(* A non-empty set of naturals has a least element, and a greatest when it *)
(* is bounded.                                                             *)
(***************************************************************************)
LEMMA LeastElement ==
  ASSUME NEW S \in SUBSET Nat, S # {}
  PROVE  \E n \in S : \A m \in S : n <= m
<1>1. \E n \in S : \A m \in S : ~ (<<m, n>> \in OpToRel(<, Nat))
  BY NatLessThanWellFounded, WFMin
<1>2. \A m, n \in Nat : <<m, n>> \in OpToRel(<, Nat) <=> m < n
  BY DEF OpToRel
<1>3. PICK n \in S : \A m \in S : ~ (<<m, n>> \in OpToRel(<, Nat))
  BY <1>1
<1>4. \A m \in S : ~ (m < n)
  BY <1>2, <1>3
<1>5. \A m \in S : n <= m
  BY <1>4
<1> QED  BY <1>5

LEMMA GreatestElement ==
  ASSUME NEW N \in Nat, NEW S \in SUBSET (0 .. N), S # {}
  PROVE  \E n \in S : \A m \in S : m <= n
<1> DEFINE T == { N - n : n \in S }
<1>1. T \in SUBSET Nat /\ T # {}
  <2>1. \A n \in S : n \in Nat /\ n <= N
    OBVIOUS
  <2>2. \A n \in S : N - n \in Nat
    BY <2>1
  <2>3. PICK n \in S : TRUE
    OBVIOUS
  <2>4. N - n \in T
    BY <2>3
  <2> QED  BY <2>2, <2>4
<1>2. PICK t \in T : \A u \in T : t <= u
  <2> HIDE DEF T
  <2> QED  BY <1>1, LeastElement
<1>3. PICK n \in S : t = N - n
  BY <1>2
<1>4. \A m \in S : m <= n
  BY <1>2, <1>3
<1> QED  BY <1>4

LEMMA TakeAndCut ==
  ASSUME NEW s \in Seq(Byte), NEW n \in 0 .. Len(s)
  PROVE  /\ Take(s, n) \in Seq(Byte) /\ Len(Take(s, n)) = n
         /\ Cut(s, n) \in Seq(Byte) /\ Len(Cut(s, n)) = Len(s) - n
<1>1. \A i \in 1 .. Len(s) : s[i] \in Byte
  BY ElementOfSeq
<1>2. Len(s) \in Nat
  BY LenProperties
<1>3. Take(s, n) \in Seq(Byte) /\ Len(Take(s, n)) = n
  <2>1. \A i \in 1 .. n : s[i] \in Byte
    BY <1>1, <1>2
  <2> QED  BY <2>1, <1>2, SubSeqProperties DEF Take
<1>4. Cut(s, n) \in Seq(Byte) /\ Len(Cut(s, n)) = Len(s) - n
  <2>1. \A i \in n + 1 .. Len(s) : s[i] \in Byte
    BY <1>1, <1>2
  <2> QED  BY <2>1, <1>2, SubSeqProperties DEF Cut
<1> QED  BY <1>3, <1>4

(***************************************************************************)
(* A run ends inside the buffer or at its end, and a control prefix that   *)
(* ends does so inside the buffer, with no more than the limit before it.  *)
(***************************************************************************)
LEMMA RunStops ==
  ASSUME NEW s \in Seq(Byte), NEW from \in 1 .. Len(s) + 1, NEW class,
         NEW end, end = AfterRun(class, s, from)
  PROVE  /\ end \in from .. Len(s) + 1
         /\ \A i \in from .. end - 1 : s[i] \in class
         /\ end <= Len(s) => s[end] \notin class
<1> DEFINE P(e) == /\ \A i \in from .. e - 1 : s[i] \in class
                   /\ e <= Len(s) => s[e] \notin class
           S == { e \in from .. Len(s) + 1 : e <= Len(s) => s[e] \notin class }
<1>1. Len(s) \in Nat
  BY LenProperties
<1>2. S \in SUBSET Nat /\ S # {}
  <2>1. Len(s) + 1 \in S
    BY <1>1
  <2> QED  BY <2>1, <1>1
<1>3. PICK e \in S : \A m \in S : e <= m
  <2> HIDE DEF S
  <2> QED  BY <1>2, LeastElement
<1>4. \A i \in from .. e - 1 : s[i] \in class
  BY <1>1, <1>3
<1>5. e \in from .. Len(s) + 1 /\ P(e)
  BY <1>3, <1>4
<1>6. end = CHOOSE x \in from .. Len(s) + 1 : P(x)
  BY DEF AfterRun
<1>7. end \in from .. Len(s) + 1 /\ P(end)
  <2> HIDE DEF P, S
  <2> QED  BY <1>5, <1>6
<1> QED  BY <1>7

LEMMA RunsEnd ==
  ASSUME NEW s \in Seq(Byte), NEW from \in 1 .. Len(s) + 1, NEW class
  PROVE  AfterRun(class, s, from) \in from .. Len(s) + 1
BY RunStops

LEMMA PrefixesEnd ==
  ASSUME NEW s \in Seq(Byte), NEW from \in 1 .. Len(s) + 1, NEW limit \in Nat,
         NEW prefix, prefix = scan_control_prefix(s, from, limit)
  PROVE  /\ prefix.ends \in {"NeedMore", "Complete", "Aborted", "Overflow"}
         /\ prefix.ends = "NeedMore" => Len(s) + 1 - from <= limit
         /\ prefix.ends # "NeedMore" => prefix.at \in from .. Len(s) + 1
         /\ prefix.ends = "Complete" => prefix.at - from <= limit + 1
<1> DEFINE m == AfterRun(Marker, s, from)
           q == AfterRun(Param, s, m)
           end == AfterRun(Intermediate, s, q)
<1>1. Len(s) \in Nat
  BY LenProperties
<1>2. m \in from .. Len(s) + 1
  BY RunsEnd
<1>3. m \in 1 .. Len(s) + 1
  BY <1>1, <1>2
<1> HIDE DEF m
<1>4. q \in m .. Len(s) + 1
  BY <1>3, RunsEnd DEF q
<1>5. q \in 1 .. Len(s) + 1
  BY <1>1, <1>3, <1>4
<1> HIDE DEF q
<1>6. end \in q .. Len(s) + 1
  BY <1>5, RunsEnd DEF end
<1>7. end \in from .. Len(s) + 1
  BY <1>1, <1>2, <1>4, <1>6
<1> HIDE DEF end
<1>8. prefix = IF end - from > limit THEN [ends |-> "Overflow", at |-> from + limit]
               ELSE IF end > Len(s) THEN [ends |-> "NeedMore", at |-> end]
               ELSE IF s[end] \in Final THEN [ends |-> "Complete", at |-> end + 1]
               ELSE [ends |-> "Aborted", at |-> IF s[end] = "CAN" THEN end + 1 ELSE end]
  BY DEF scan_control_prefix, m, q, end
<1> QED  BY <1>1, <1>7, <1>8

(***************************************************************************)
(* What a step makes of a parser of the right type: one that is bounded,   *)
(* and tokens.                                                             *)
(***************************************************************************)
Shape(p) ==
  /\ p.mode = "InString" => p.kind # "none"
  /\ p.mode = "Partial" => p.rest = <<>>

Good(o) ==
  /\ o.parser \in Parser
  /\ Bounded(o.parser)
  /\ Shape(o.parser)
  /\ o.tokens \in Seq(Tokens)

(***************************************************************************)
(* Where the bytes of a parser lie: those it keeps, those it holds and     *)
(* those it has not read follow each other in the input, from position at  *)
(* to position to, but for the ones it has dropped between kept and held.  *)
(***************************************************************************)
Reads(s, at) == \A i \in 1 .. Len(s) : s[i] = input[at + i]

Lies(p, at, to) ==
  LET held_at == at + Len(p.kept) + p.dropped
      rest_at == held_at + Len(p.held)
  IN  /\ Reads(p.kept, at) /\ Reads(p.held, held_at) /\ Reads(p.rest, rest_at)
      /\ rest_at + Len(p.rest) = to

\* Only a string drops bytes, and only when it has no room left; what it
\* holds is an ESC.
Layout(p) ==
  /\ p.mode # "InString" => p.dropped = 0
  /\ p.mode = "Partial" => p.held = <<>>
  /\ p.mode = "InString" => p.held \in {<<>>, <<"ESC">>}
  /\ p.dropped > 0 => Len(p.kept) - p.intro >= p.limit

\* A token is the bytes behind position at, and lost some at its limit only.
Covers(t, at, limit) ==
  LET body == Len(t.raw) - Len(t.tail)
  IN  /\ body \in Nat
      /\ \A i \in 1 .. body : t.raw[i] = input[at + i]
      /\ \A i \in 1 .. Len(t.tail) : t.raw[body + i] = t.tail[i]
      /\ Reads(t.tail, at + body + t.dropped)
      /\ t.dropped > 0 => t.type \in {"Osc", "Dcs", "Apc"} /\ body >= limit

\* An outcome accounts for the bytes from at to to.
Accounts(o, limit, at, to) ==
  /\ o.parser.limit = limit
  /\ Layout(o.parser)
  /\ \/ o.tokens = <<>> /\ Lies(o.parser, at, to)
     \/ \E t \in Tokens :
          /\ o.tokens = <<t>> /\ Covers(t, at, limit)
          /\ Lies(o.parser, at + Len(t.raw) + t.dropped, to)

\* A step at a token boundary has a good outcome that accounts for its bytes.
Fresh(p, at, to) ==
  /\ p.kept = <<>> /\ p.held = <<>> /\ p.dropped = 0
  /\ Reads(p.rest, at) /\ at + Len(p.rest) = to

Steps(p, o) ==
  /\ Good(o)
  /\ \A at, to \in Nat : Fresh(p, at, to) => Accounts(o, p.limit, at, to)

LEMMA ReadsSplit ==
  ASSUME NEW s \in Seq(Byte), NEW at \in Nat, Reads(s, at), NEW n \in 0 .. Len(s)
  PROVE  Reads(Take(s, n), at) /\ Reads(Cut(s, n), at + n)
<1>1. Len(s) \in Nat /\ \A i \in 1 .. Len(s) : s[i] \in Byte
  BY LenProperties, ElementOfSeq
<1>2. Len(Take(s, n)) = n /\ \A i \in 1 .. n : Take(s, n)[i] = s[i]
  BY <1>1, SubSeqProperties DEF Take
<1>3. Len(Cut(s, n)) = Len(s) - n /\ \A i \in 1 .. Len(s) - n : Cut(s, n)[i] = s[n + i]
  <2>1. \A i \in n + 1 .. Len(s) : s[i] \in Byte
    BY <1>1
  <2>2. Cut(s, n) = SubSeq(s, n + 1, Len(s))
    BY DEF Cut
  <2>3. Len(Cut(s, n)) = Len(s) - n
    BY TakeAndCut
  <2>4. \A i \in 1 .. Len(s) - n : SubSeq(s, n + 1, Len(s))[i] = s[n + i]
    BY <1>1
  <2> QED  BY <2>2, <2>3, <2>4
<1>4. Reads(Take(s, n), at)
  <2>1. ASSUME NEW i \in 1 .. n PROVE Take(s, n)[i] = input[at + i]
    <3>1. i \in 1 .. Len(s)
      BY <1>1
    <3> QED  BY <1>2, <3>1 DEF Reads
  <2> QED  BY <1>2, <2>1 DEF Reads
<1>5. Reads(Cut(s, n), at + n)
  <2>1. ASSUME NEW i \in 1 .. Len(s) - n PROVE s[n + i] = input[at + n + i]
    <3>1. n + i \in 1 .. Len(s) /\ at + (n + i) = at + n + i
      BY <1>1
    <3> QED  BY <3>1 DEF Reads
  <2> QED  BY <1>3, <2>1 DEF Reads
<1> QED  BY <1>4, <1>5

LEMMA ReadsJoin ==
  ASSUME NEW s \in Seq(Byte), NEW t \in Seq(Byte), NEW at \in Nat,
         Reads(s, at), Reads(t, at + Len(s))
  PROVE  Reads(s \o t, at) /\ Len(s \o t) = Len(s) + Len(t)
<1>1. Len(s) \in Nat /\ Len(t) \in Nat /\ Len(s \o t) = Len(s) + Len(t)
  BY LenProperties, ConcatProperties
<1>2. ASSUME NEW i \in 1 .. Len(s \o t) PROVE (s \o t)[i] = input[at + i]
  <2>1. CASE i <= Len(s)
    <3>1. i \in 1 .. Len(s) /\ (s \o t)[i] = s[i]
      BY <1>1, <2>1
    <3> QED  BY <3>1 DEF Reads
  <2>2. CASE ~ (i <= Len(s))
    <3>1. /\ i - Len(s) \in 1 .. Len(t) /\ at + Len(s) + (i - Len(s)) = at + i
          /\ (s \o t)[i] = t[i - Len(s)]
      BY <1>1, <2>2
    <3> QED  BY <3>1 DEF Reads
  <2> QED  BY <2>1, <2>2
<1> QED  BY <1>1, <1>2 DEF Reads

LEMMA EmptyReads == \A at : Reads(<<>>, at) /\ Len(<<>>) = 0
BY DEF Reads

LEMMA EmitAccounts ==
  ASSUME NEW p \in Parser, NEW t \in Tokens, NEW rest \in Seq(Byte),
         NEW at \in Nat, NEW to \in Nat, Covers(t, at, p.limit),
         Reads(rest, at + Len(t.raw) + t.dropped),
         at + Len(t.raw) + t.dropped + Len(rest) = to
  PROVE  Accounts(Emit(p, t, rest), p.limit, at, to)
<1> DEFINE next == Ground(p.limit, rest)
           from == at + Len(t.raw) + t.dropped
<1>1. /\ next.limit = p.limit /\ next.mode = "Ground" /\ next.kept = <<>> /\ next.held = <<>>
      /\ next.dropped = 0 /\ next.rest = rest
  BY DEF Ground
<1>2. from \in Nat /\ Len(rest) \in Nat
  BY LenProperties DEF Tokens
<1> HIDE DEF next
<1>3. Layout(next)
  BY <1>1 DEF Layout
<1>4. Lies(next, from, to)
  <2>1. from + 0 + 0 = from /\ from + 0 = from
    BY <1>2
  <2> HIDE DEF from
  <2>2. next.rest = rest /\ Reads(rest, from) /\ from + Len(rest) = to
    BY <1>1 DEF from
  <2> QED  BY <1>1, <2>1, <2>2, EmptyReads DEF Lies
<1>5. Emit(p, t, rest).parser = next /\ Emit(p, t, rest).tokens = <<t>>
  BY DEF Emit, Outcome, next
<1> QED  BY <1>1, <1>3, <1>4, <1>5 DEF Accounts

LEMMA PlainTokensCover ==
  ASSUME NEW type, NEW raw \in Seq(Byte), NEW at \in Nat, Reads(raw, at), NEW limit
  PROVE  /\ Covers(Token(type, raw), at, limit)
         /\ Token(type, raw).raw = raw /\ Token(type, raw).dropped = 0
<1> DEFINE t == Token(type, raw)
<1>1. t.raw = raw /\ t.tail = <<>> /\ t.dropped = 0
  BY DEF Token
<1>2. Len(raw) \in Nat /\ Len(t.tail) = 0
  BY <1>1, LenProperties, EmptyReads
<1> HIDE DEF t
<1>3. Len(t.raw) - Len(t.tail) = Len(raw)
  BY <1>1, <1>2
<1>4. Covers(t, at, limit)
  BY <1>1, <1>2, <1>3, EmptyReads DEF Covers, Reads
<1> QED  BY <1>1, <1>4 DEF t

LEMMA LeastBound ==
  /\ \A n \in Nat : AtLeastOne(n) \in Nat /\ 0 < AtLeastOne(n) /\ n <= AtLeastOne(n)
  /\ \A n, limit \in Nat :
       n <= 2 + limit \/ n <= 3 => n <= 2 + AtLeastOne(limit)
BY DEF AtLeastOne

LEMMA EmitIsGood ==
  ASSUME NEW p \in Parser, NEW token \in Tokens, NEW rest \in Seq(Byte)
  PROVE  Good(Emit(p, token, rest))
<1>1. Ground(p.limit, rest) \in Parser
  <2>1. <<>> \in Seq(Byte)
    BY EmptySeq
  <2>2. p.limit \in Limits
    BY DEF Parser
  <2> QED  BY <2>1, <2>2 DEF Ground, Parser, Mode
<1>2. Bounded(Ground(p.limit, rest)) /\ Shape(Ground(p.limit, rest))
  BY DEF Bounded, Ground, Shape
<1>3. <<token>> \in Seq(Tokens)
  OBVIOUS
<1> QED  BY <1>1, <1>2, <1>3 DEF Good, Emit, Outcome

LEMMA TokensHaveTheirType ==
  ASSUME NEW type \in TokenType, NEW raw \in Seq(Byte)
  PROVE  Token(type, raw) \in Tokens
<1>1. <<>> \in Seq(Byte)
  BY EmptySeq
<1> QED  BY <1>1 DEF Token, Tokens

LEMMA StepEmitIsGood ==
  ASSUME NEW p \in Parser, NEW type \in TokenType, NEW n \in 0 .. Len(p.rest)
  PROVE  Steps(p, Step_Emit(p, type, n))
<1> DEFINE raw == Take(p.rest, n)
           rest == Cut(p.rest, n)
           t == Token(type, raw)
<1>1. p.rest \in Seq(Byte) /\ Len(p.rest) \in Nat
  BY LenProperties DEF Parser
<1>2. /\ raw \in Seq(Byte) /\ rest \in Seq(Byte)
      /\ Len(raw) = n /\ Len(rest) = Len(p.rest) - n
  BY <1>1, TakeAndCut
<1>3. t \in Tokens
  BY <1>2, TokensHaveTheirType
<1>4. Step_Emit(p, type, n) = Emit(p, t, rest)
  BY DEF Step_Emit
<1>5. ASSUME NEW at \in Nat, NEW to \in Nat, Fresh(p, at, to)
      PROVE  Accounts(Emit(p, t, rest), p.limit, at, to)
  <2>1. Reads(raw, at) /\ Reads(rest, at + n)
    BY <1>1, <1>5, ReadsSplit DEF Fresh
  <2> HIDE DEF raw, rest
  <2>2. Covers(t, at, p.limit) /\ t.raw = raw /\ t.dropped = 0
    BY <1>2, <2>1, PlainTokensCover
  <2> HIDE DEF t
  <2>3. at + Len(t.raw) + t.dropped = at + n
    BY <1>2, <2>2
  <2>4. at + n + Len(rest) = to
    <3>1. \A m \in Nat : n \in 0 .. m => at + n + (m - n) = at + m
      OBVIOUS
    <3> QED  BY <1>1, <1>2, <1>5, <3>1 DEF Fresh
  <2> QED  BY <1>2, <1>3, <2>1, <2>2, <2>3, <2>4, EmitAccounts
<1> QED  BY <1>2, <1>3, <1>4, <1>5, EmitIsGood DEF Steps

LEMMA NeedMoreIsGood ==
  ASSUME NEW p \in Parser, Len(p.rest) <= 2 + p.limit \/ Len(p.rest) <= 3
  PROVE  Steps(p, NeedMore(p))
<1> DEFINE next == [p EXCEPT !.mode = "Partial", !.kept = p.rest, !.rest = <<>>]
<1>1. next \in Parser
  <2>1. <<>> \in Seq(Byte)
    BY EmptySeq
  <2> QED  BY <2>1 DEF Parser, Mode
<1>2. Bounded(next) /\ Shape(next)
  <2>1. /\ next.mode = "Partial" /\ next.kept = p.rest /\ next.limit = p.limit
        /\ next.rest = <<>>
    BY DEF Parser
  <2>2. p.rest \in Seq(Byte) /\ Len(p.rest) \in Nat /\ p.limit \in Nat
    BY LenProperties, LimitsAssumption DEF Parser
  <2>3. Len(p.rest) <= 2 + AtLeastOne(p.limit)
    BY <2>2, LeastBound
  <2> HIDE DEF next
  <2> QED  BY <2>1, <2>3 DEF Bounded, Shape
<1>3. <<>> \in Seq(Tokens)
  BY EmptySeq
<1>4. ASSUME NEW at \in Nat, NEW to \in Nat, Fresh(p, at, to)
      PROVE  Accounts(Outcome(next, <<>>), p.limit, at, to)
  <2>1. /\ next.mode = "Partial" /\ next.kept = p.rest /\ next.limit = p.limit
        /\ next.rest = <<>> /\ next.held = <<>> /\ next.dropped = 0
    BY <1>4 DEF Parser, Fresh
  <2>2. Len(p.rest) \in Nat
    BY LenProperties DEF Parser
  <2> HIDE DEF next
  <2>3. Lies(next, at, to)
    BY <1>4, <2>1, <2>2, EmptyReads DEF Lies, Fresh
  <2>4. Layout(next)
    BY <2>1 DEF Layout
  <2> QED  BY <2>1, <2>3, <2>4 DEF Accounts, Outcome
<1>5. Good(Outcome(next, <<>>))
  BY <1>1, <1>2, <1>3 DEF Good, Outcome
<1>6. NeedMore(p) = Outcome(next, <<>>)
  BY DEF NeedMore
<1> HIDE DEF next
<1> QED  BY <1>4, <1>5, <1>6 DEF Steps

LEMMA StringParsers ==
  ASSUME NEW p \in Parser, NEW kind \in {"none", "Osc", "Dcs", "Apc"},
         NEW intro \in 0 .. 2, NEW kept \in Seq(Byte), NEW rest \in Seq(Byte),
         NEW start \in Nat
  PROVE  [p EXCEPT !.mode = "InString", !.kind = kind, !.intro = intro,
                   !.kept = kept, !.start = start, !.rest = rest] \in Parser
BY DEF Parser, Mode

LEMMA EnterStringIsGood ==
  ASSUME NEW p \in Parser, NEW kind \in {"Osc", "Dcs", "Apc"}, NEW intro \in 1 .. 2,
         NEW end \in 1 .. Len(p.rest) + 1, end - 1 <= intro + p.limit + 1,
         p.held = <<>>
  PROVE  Steps(p, EnterString(p, kind, intro, end))
<1> DEFINE next == [p EXCEPT !.mode = "InString", !.kind = kind, !.intro = intro,
                             !.kept = Take(p.rest, end - 1), !.start = end - 1,
                             !.rest = Cut(p.rest, end - 1)]
<1>1. p.rest \in Seq(Byte) /\ Len(p.rest) \in Nat /\ p.limit \in Nat
  BY LenProperties, LimitsAssumption DEF Parser
<1>2. end - 1 \in 0 .. Len(p.rest) /\ end - 1 \in Nat
  BY <1>1
<1>3. /\ Take(p.rest, end - 1) \in Seq(Byte) /\ Len(Take(p.rest, end - 1)) = end - 1
      /\ Cut(p.rest, end - 1) \in Seq(Byte)
  BY <1>1, <1>2, TakeAndCut
<1>4. next \in Parser
  <2>1. \A kept, rest \in Seq(Byte), start \in Nat :
          [p EXCEPT !.mode = "InString", !.kind = kind, !.intro = intro,
                    !.kept = kept, !.start = start, !.rest = rest] \in Parser
    <3>1. kind \in {"none", "Osc", "Dcs", "Apc"} /\ intro \in 0 .. 2
      OBVIOUS
    <3> QED  BY <3>1, StringParsers
  <2> QED  BY <1>2, <1>3, <2>1
<1>5. Bounded(next) /\ Shape(next)
  <2>1. /\ next.mode = "InString" /\ next.kind = kind /\ next.kept = Take(p.rest, end - 1)
        /\ next.limit = p.limit /\ next.intro = intro /\ next.held = <<>>
    BY DEF Parser
  <2> HIDE DEF next
  <2> QED  BY <1>3, <2>1 DEF Bounded, Shape
<1>6. <<>> \in Seq(Tokens)
  BY EmptySeq
<1>7. ASSUME NEW at \in Nat, NEW to \in Nat, Fresh(p, at, to)
      PROVE  Accounts(Outcome(next, <<>>), p.limit, at, to)
  <2>1. /\ next.mode = "InString" /\ next.kept = Take(p.rest, end - 1) /\ next.limit = p.limit
        /\ next.rest = Cut(p.rest, end - 1) /\ next.held = <<>> /\ next.dropped = 0
    BY <1>7 DEF Parser, Fresh
  <2>2. /\ Reads(Take(p.rest, end - 1), at) /\ Reads(Cut(p.rest, end - 1), at + (end - 1))
        /\ Len(Cut(p.rest, end - 1)) = Len(p.rest) - (end - 1)
    BY <1>1, <1>2, <1>7, ReadsSplit, TakeAndCut DEF Fresh
  <2> HIDE DEF next
  <2>3. at + Len(next.kept) + next.dropped = at + (end - 1)
    BY <1>2, <1>3, <2>1
  <2>4. at + (end - 1) + Len(next.held) = at + (end - 1)
    BY <1>2, <2>1, EmptyReads
  <2>5. at + (end - 1) + Len(next.rest) = to
    <3>1. \A m \in Nat : \A k \in 0 .. m : at + k + (m - k) = at + m
      OBVIOUS
    <3>2. at + (end - 1) + (Len(p.rest) - (end - 1)) = at + Len(p.rest)
      BY <1>1, <1>2, <3>1
    <3> QED  BY <1>7, <2>1, <2>2, <3>2 DEF Fresh
  <2>6. Lies(next, at, to)
    BY <2>1, <2>2, <2>3, <2>4, <2>5, EmptyReads DEF Lies
  <2>7. Layout(next)
    BY <2>1 DEF Layout
  <2> QED  BY <2>1, <2>6, <2>7 DEF Accounts, Outcome
<1>8. Good(Outcome(next, <<>>))
  BY <1>4, <1>5, <1>6 DEF Good, Outcome
<1>9. EnterString(p, kind, intro, end) = Outcome(next, <<>>)
  BY DEF EnterString
<1> HIDE DEF next
<1> QED  BY <1>7, <1>8, <1>9 DEF Steps

LEMMA EnterPasteIsGood ==
  ASSUME NEW p \in Parser, NEW end \in 1 .. 7, end <= Len(p.rest) + 1, p.held = <<>>
  PROVE  Steps(p, EnterPaste(p, end))
<1> DEFINE next == [p EXCEPT !.mode = "InPaste", !.kept = Take(p.rest, end - 1),
                             !.start = end - 1, !.first = TRUE,
                             !.rest = Cut(p.rest, end - 1)]
<1>1. p.rest \in Seq(Byte) /\ Len(p.rest) \in Nat /\ p.limit \in Nat
  BY LenProperties, LimitsAssumption DEF Parser
<1>2. end - 1 \in 0 .. Len(p.rest) /\ end - 1 \in Nat
  BY <1>1
<1>3. /\ Take(p.rest, end - 1) \in Seq(Byte) /\ Len(Take(p.rest, end - 1)) = end - 1
      /\ Cut(p.rest, end - 1) \in Seq(Byte)
  BY <1>1, <1>2, TakeAndCut
<1>4. next \in Parser
  BY <1>2, <1>3 DEF Parser, Mode
<1>5. Bounded(next) /\ Shape(next)
  <2>1. /\ next.mode = "InPaste" /\ next.kept = Take(p.rest, end - 1)
        /\ next.limit = p.limit /\ next.start = end - 1 /\ next.held = <<>>
    BY DEF Parser
  <2> HIDE DEF next
  <2>2. segment_payload_len(next) < AtLeastOne(next.limit)
    <3>1. segment_payload_len(next) = 0
      BY <1>2, <1>3, <2>1 DEF segment_payload_len
    <3> QED  BY <1>1, <2>1, <3>1, LeastBound
  <2>3. next.start <= 6 /\ Len(next.held) <= 5
    BY <2>1
  <2> QED  BY <2>1, <2>2, <2>3 DEF Bounded, Shape
<1>6. <<>> \in Seq(Tokens)
  BY EmptySeq
<1>7. ASSUME NEW at \in Nat, NEW to \in Nat, Fresh(p, at, to)
      PROVE  Accounts(Outcome(next, <<>>), p.limit, at, to)
  <2>1. /\ next.mode = "InPaste" /\ next.kept = Take(p.rest, end - 1) /\ next.limit = p.limit
        /\ next.rest = Cut(p.rest, end - 1) /\ next.held = <<>> /\ next.dropped = 0
    BY <1>7 DEF Parser, Fresh
  <2>2. /\ Reads(Take(p.rest, end - 1), at) /\ Reads(Cut(p.rest, end - 1), at + (end - 1))
        /\ Len(Cut(p.rest, end - 1)) = Len(p.rest) - (end - 1)
    BY <1>1, <1>2, <1>7, ReadsSplit, TakeAndCut DEF Fresh
  <2> HIDE DEF next
  <2>3. at + Len(next.kept) + next.dropped = at + (end - 1)
    BY <1>2, <1>3, <2>1
  <2>4. at + (end - 1) + Len(next.held) = at + (end - 1)
    BY <1>2, <2>1, EmptyReads
  <2>5. at + (end - 1) + Len(next.rest) = to
    <3>1. \A m \in Nat : \A k \in 0 .. m : at + k + (m - k) = at + m
      OBVIOUS
    <3>2. at + (end - 1) + (Len(p.rest) - (end - 1)) = at + Len(p.rest)
      BY <1>1, <1>2, <3>1
    <3> QED  BY <1>7, <2>1, <2>2, <3>2 DEF Fresh
  <2>6. Lies(next, at, to)
    BY <2>1, <2>2, <2>3, <2>4, <2>5, EmptyReads DEF Lies
  <2>7. Layout(next)
    BY <2>1 DEF Layout
  <2> QED  BY <2>1, <2>6, <2>7 DEF Accounts, Outcome
<1>8. Good(Outcome(next, <<>>))
  BY <1>4, <1>5, <1>6 DEF Good, Outcome
<1>9. EnterPaste(p, end) = Outcome(next, <<>>)
  BY DEF EnterPaste
<1> HIDE DEF next
<1> QED  BY <1>7, <1>8, <1>9 DEF Steps

-----------------------------------------------------------------------------
(***************************************************************************)
(* The steps at a token boundary.                                          *)
(***************************************************************************)
LEMMA CsiIsGood ==
  ASSUME NEW p \in Parser, p.held = <<>>, NEW intro \in 1 .. 2, intro <= Len(p.rest)
  PROVE  Steps(p, parse_csi(p, intro))
<1> DEFINE prefix == scan_control_prefix(p.rest, intro + 1, p.limit)
<1>1. p.rest \in Seq(Byte) /\ Len(p.rest) \in Nat /\ p.limit \in Nat
  BY LenProperties, LimitsAssumption DEF Parser
<1>2. intro + 1 \in 1 .. Len(p.rest) + 1
  BY <1>1
<1>3. /\ prefix.ends \in {"NeedMore", "Complete", "Aborted", "Overflow"}
      /\ prefix.ends = "NeedMore" => Len(p.rest) + 1 - (intro + 1) <= p.limit
      /\ prefix.ends # "NeedMore" => prefix.at \in intro + 1 .. Len(p.rest) + 1
  BY <1>1, <1>2, PrefixesEnd
<1> HIDE DEF prefix
<1>4. CASE prefix.ends = "NeedMore"
  <2>1. Len(p.rest) <= 2 + p.limit
    <3>1. \A n, limit \in Nat, i \in 1 .. 2 : n + 1 - (i + 1) <= limit => n <= 2 + limit
      OBVIOUS
    <3> QED  BY <1>1, <1>3, <1>4, <3>1
  <2>2. parse_csi(p, intro) = NeedMore(p)
    BY <1>4 DEF parse_csi, prefix
  <2> QED  BY <2>1, <2>2, NeedMoreIsGood
<1>5. CASE prefix.ends # "NeedMore"
  <2>1. prefix.at - 1 \in 0 .. Len(p.rest) /\ prefix.at \in 1 .. Len(p.rest) + 1
    BY <1>1, <1>3, <1>5
  <2>2. Steps(p, Step_Emit(p, "Csi", prefix.at - 1))
    BY <2>1, StepEmitIsGood DEF TokenType
  <2>3. Steps(p, Step_Emit(p, "Malformed", prefix.at - 1))
    BY <2>1, StepEmitIsGood DEF TokenType
  <2>4. ASSUME SubSeq(p.rest, intro + 1, prefix.at - 1) = PasteStart
        PROVE  Steps(p, EnterPaste(p, prefix.at))
    <3>1. Len(SubSeq(p.rest, intro + 1, prefix.at - 1)) = 4
      <4>1. Len(PasteStart) = 4
        BY DEF PasteStart
      <4> QED  BY <2>4, <4>1
    <3>2. \A i \in intro + 1 .. prefix.at - 1 : p.rest[i] \in Byte
      BY <1>1, <2>1, ElementOfSeq
    <3>3. Len(SubSeq(p.rest, intro + 1, prefix.at - 1)) =
            IF intro + 1 <= prefix.at - 1 THEN prefix.at - 1 - (intro + 1) + 1 ELSE 0
      BY <3>2, <2>1, SubSeqProperties
    <3>4. prefix.at \in 1 .. 7
      BY <2>1, <3>1, <3>3
    <3> QED  BY <2>1, <3>4, <1>1, EnterPasteIsGood
  <2>5. parse_csi(p, intro) \in
          { EnterPaste(p, prefix.at), Step_Emit(p, "Csi", prefix.at - 1),
            Step_Emit(p, "Malformed", prefix.at - 1) }
    BY <1>3, <1>5 DEF parse_csi, prefix
  <2>6. parse_csi(p, intro) = EnterPaste(p, prefix.at) =>
          \/ SubSeq(p.rest, intro + 1, prefix.at - 1) = PasteStart
          \/ Steps(p, parse_csi(p, intro))
    BY <1>3, <1>5, <2>2, <2>3 DEF parse_csi, prefix
  <2> QED  BY <2>2, <2>3, <2>4, <2>5, <2>6
<1> QED  BY <1>4, <1>5

LEMMA StringIsGood ==
  ASSUME NEW p \in Parser, p.held = <<>>, NEW intro \in 1 .. 2, intro <= Len(p.rest),
         NEW kind \in {"Osc", "Dcs", "Apc"}
  PROVE  Steps(p, parse_string(p, kind, intro))
<1> DEFINE prefix == scan_control_prefix(p.rest, intro + 1, p.limit)
<1>1. p.rest \in Seq(Byte) /\ Len(p.rest) \in Nat /\ p.limit \in Nat
  BY LenProperties, LimitsAssumption DEF Parser
<1>2. intro + 1 \in 1 .. Len(p.rest) + 1
  BY <1>1
<1>3. /\ prefix.ends \in {"NeedMore", "Complete", "Aborted", "Overflow"}
      /\ prefix.ends = "NeedMore" => Len(p.rest) + 1 - (intro + 1) <= p.limit
      /\ prefix.ends # "NeedMore" => prefix.at \in intro + 1 .. Len(p.rest) + 1
      /\ prefix.ends = "Complete" => prefix.at - (intro + 1) <= p.limit + 1
  BY <1>1, <1>2, PrefixesEnd
<1> HIDE DEF prefix
<1>4. CASE kind # "Dcs"
  <2>1. (intro + 1) - 1 <= intro + p.limit + 1
    BY <1>1
  <2>2. Steps(p, EnterString(p, kind, intro, intro + 1))
    BY <1>2, <2>1, EnterStringIsGood
  <2> QED  BY <1>4, <2>2 DEF parse_string
<1>5. CASE kind = "Dcs" /\ prefix.ends = "NeedMore"
  <2>1. Len(p.rest) <= 2 + p.limit
    <3>1. \A n, limit \in Nat, i \in 1 .. 2 : n + 1 - (i + 1) <= limit => n <= 2 + limit
      OBVIOUS
    <3> QED  BY <1>1, <1>3, <1>5, <3>1
  <2>2. parse_string(p, kind, intro) = NeedMore(p)
    BY <1>5 DEF parse_string, prefix
  <2> QED  BY <2>1, <2>2, NeedMoreIsGood
<1>6. CASE kind = "Dcs" /\ prefix.ends = "Complete"
  <2>1. prefix.at \in 1 .. Len(p.rest) + 1 /\ prefix.at - 1 <= intro + p.limit + 1
    BY <1>1, <1>3, <1>6
  <2>2. Steps(p, EnterString(p, kind, intro, prefix.at))
    BY <2>1, EnterStringIsGood
  <2> QED  BY <1>6, <2>2 DEF parse_string, prefix
<1>7. CASE kind = "Dcs" /\ prefix.ends \in {"Aborted", "Overflow"}
  <2>1. prefix.at - 1 \in 0 .. Len(p.rest)
    BY <1>1, <1>3, <1>7
  <2>2. Steps(p, Step_Emit(p, "Malformed", prefix.at - 1))
    BY <2>1, StepEmitIsGood DEF TokenType
  <2> QED  BY <1>7, <2>2 DEF parse_string, prefix
<1> QED  BY <1>3, <1>4, <1>5, <1>6, <1>7

LEMMA PlainEscapeIsGood ==
  ASSUME NEW p \in Parser, 2 <= Len(p.rest)
  PROVE  Steps(p, parse_plain_escape(p))
<1> DEFINE end == AfterRun(Intermediate, p.rest, 2)
<1>1. p.rest \in Seq(Byte) /\ Len(p.rest) \in Nat /\ p.limit \in Nat
  BY LenProperties, LimitsAssumption DEF Parser
<1>2. 2 \in 1 .. Len(p.rest) + 1
  BY <1>1
<1>3. end \in 2 .. Len(p.rest) + 1
  BY <1>1, <1>2, RunsEnd
<1> HIDE DEF end
<1>4. parse_plain_escape(p) =
        IF end - 2 > p.limit THEN Step_Emit(p, "Malformed", 1 + p.limit)
        ELSE IF end > Len(p.rest) THEN NeedMore(p)
        ELSE IF p.rest[end] \in EscapeFinal THEN Step_Emit(p, "Esc", end)
        ELSE Step_Emit(p, "Malformed", IF p.rest[end] = "CAN" THEN end ELSE end - 1)
  BY DEF parse_plain_escape, end
<1>5. CASE end - 2 > p.limit
  <2>1. 1 + p.limit \in 0 .. Len(p.rest)
    BY <1>1, <1>3, <1>5
  <2> QED  BY <1>4, <1>5, <2>1, StepEmitIsGood DEF TokenType
<1>6. CASE ~ (end - 2 > p.limit) /\ end > Len(p.rest)
  <2>1. Len(p.rest) <= 2 + p.limit
    BY <1>1, <1>3, <1>6
  <2>2. parse_plain_escape(p) = NeedMore(p)
    BY <1>4, <1>6
  <2> QED  BY <2>1, <2>2, NeedMoreIsGood
<1>7. CASE ~ (end - 2 > p.limit) /\ ~ (end > Len(p.rest))
  <2>1. end \in 0 .. Len(p.rest) /\ end - 1 \in 0 .. Len(p.rest)
    BY <1>1, <1>3, <1>7
  <2>2. /\ Steps(p, Step_Emit(p, "Esc", end)) /\ Steps(p, Step_Emit(p, "Malformed", end))
        /\ Steps(p, Step_Emit(p, "Malformed", end - 1))
    BY <2>1, StepEmitIsGood DEF TokenType
  <2> QED  BY <1>4, <1>7, <2>2
<1> QED  BY <1>5, <1>6, <1>7

LEMMA EscapeIsGood ==
  ASSUME NEW p \in Parser, p.held = <<>>, p.rest # <<>>
  PROVE  Steps(p, parse_escape(p))
<1>1. p.rest \in Seq(Byte) /\ Len(p.rest) \in Nat /\ p.limit \in Nat
  BY LenProperties, LimitsAssumption DEF Parser
<1>2. Len(p.rest) >= 1
  BY <1>1, EmptySeq
<1>3. CASE Len(p.rest) = 1
  <2>1. Len(p.rest) <= 3
    BY <1>3
  <2> QED  BY <1>3, <2>1, NeedMoreIsGood DEF parse_escape
<1>4. CASE Len(p.rest) # 1
  <2>1. 2 <= Len(p.rest)
    <3>1. \A n \in Nat : n >= 1 /\ n # 1 => 2 <= n
      OBVIOUS
    <3> QED  BY <1>1, <1>2, <1>4, <3>1
  <2>2. Steps(p, parse_csi(p, 2))
    BY <2>1, CsiIsGood
  <2>3. \A kind \in {"Osc", "Dcs", "Apc"} : Steps(p, parse_string(p, kind, 2))
    BY <2>1, StringIsGood
  <2>4. Steps(p, Step_Emit(p, "Malformed", 2))
    <3>1. 2 \in 0 .. Len(p.rest)
      BY <1>1, <2>1
    <3> QED  BY <3>1, StepEmitIsGood DEF TokenType
  <2>5. Steps(p, parse_plain_escape(p))
    BY <2>1, PlainEscapeIsGood
  <2> QED  BY <1>4, <2>2, <2>3, <2>4, <2>5 DEF parse_escape
<1> QED  BY <1>3, <1>4

LEMMA TextRunsEnd ==
  ASSUME NEW s \in Seq(Byte), NEW limit \in Nat
  PROVE  TextRun(s, limit) \in 0 .. Len(s)
<1> DEFINE run == { n \in 0 .. Len(s) :
                      /\ from_utf8(s, n)
                      /\ \A m \in 1 .. n - 1 : from_utf8(s, m) => m < limit }
<1>1. Len(s) \in Nat
  BY LenProperties
<1>2. run \in SUBSET (0 .. Len(s)) /\ run # {}
  <2>1. from_utf8(s, 0)
    BY DEF from_utf8
  <2>2. 0 \in run
    BY <1>1, <2>1
  <2> QED  BY <2>2
<1>3. TextRun(s, limit) = CHOOSE n \in run : \A m \in run : m <= n
  BY DEF TextRun
<1> HIDE DEF run
<1>4. \E n \in run : \A m \in run : m <= n
  BY <1>1, <1>2, GreatestElement
<1> QED  BY <1>2, <1>3, <1>4

LEMMA TextIsGood ==
  ASSUME NEW p \in Parser, p.rest # <<>>
  PROVE  Steps(p, parse_text(p))
<1> DEFINE run == TextRun(p.rest, p.limit)
           width == utf8_width(p.rest[run + 1])
<1>1. p.rest \in Seq(Byte) /\ Len(p.rest) \in Nat /\ p.limit \in Nat
  BY LenProperties, LimitsAssumption DEF Parser
<1>2. Len(p.rest) >= 1
  BY <1>1, EmptySeq
<1>3. run \in 0 .. Len(p.rest)
  BY <1>1, TextRunsEnd
<1>4. width \in 0 .. 3
  BY DEF utf8_width
<1>5. parse_text(p) =
        IF run > 0 /\ run >= p.limit THEN Step_Emit(p, "Text", run)
        ELSE IF run = Len(p.rest) THEN NeedMore(p)
        ELSE IF p.rest[run + 1] \in Boundary \/ width = 0
        THEN IF run > 0 THEN Step_Emit(p, "Text", run) ELSE Step_Emit(p, "Malformed", 1)
        ELSE IF run + width > Len(p.rest) THEN NeedMore(p)
        ELSE IF run > 0 THEN Step_Emit(p, "Text", run)
        ELSE Step_Emit(p, "Malformed", width)
  BY DEF parse_text
<1> HIDE DEF run, width
<1>6. Steps(p, Step_Emit(p, "Text", run))
  BY <1>3, StepEmitIsGood DEF TokenType
<1>7. Steps(p, Step_Emit(p, "Malformed", 1))
  <2>1. 1 \in 0 .. Len(p.rest)
    BY <1>1, <1>2
  <2> QED  BY <2>1, StepEmitIsGood DEF TokenType
<1>8. ASSUME ~ (run > 0 /\ run >= p.limit), run = Len(p.rest) \/ run + width > Len(p.rest)
      PROVE  Steps(p, NeedMore(p))
  <2>1. \A n, r, l \in Nat, w \in 0 .. 3 :
          /\ r <= n /\ ~ (r > 0 /\ r >= l)
          /\ r = n \/ r + w > n
          => n <= 2 + l \/ n <= 3
    OBVIOUS
  <2>2. run \in Nat /\ run <= Len(p.rest)
    BY <1>3
  <2>3. Len(p.rest) <= 2 + p.limit \/ Len(p.rest) <= 3
    BY <1>1, <1>4, <1>8, <2>1, <2>2
  <2> QED  BY <2>3, NeedMoreIsGood
<1>9. ASSUME ~ (run > 0), ~ (run + width > Len(p.rest))
      PROVE  Steps(p, Step_Emit(p, "Malformed", width))
  <2>1. \A n, r \in Nat, w \in 0 .. 3 : ~ (r > 0) /\ ~ (r + w > n) => w \in 0 .. n
    OBVIOUS
  <2>2. run \in Nat
    BY <1>3
  <2>3. width \in 0 .. Len(p.rest)
    BY <1>1, <1>4, <1>9, <2>1, <2>2
  <2> QED  BY <2>3, StepEmitIsGood DEF TokenType
<1> QED  BY <1>5, <1>6, <1>7, <1>8, <1>9

LEMMA StepIsGood ==
  ASSUME NEW p \in Parser, p.held = <<>>, p.rest # <<>>
  PROVE  Steps(p, step(p))
<1>1. p.rest \in Seq(Byte) /\ Len(p.rest) \in Nat
  BY LenProperties DEF Parser
<1>2. 1 <= Len(p.rest)
  BY <1>1, EmptySeq
<1>3. Steps(p, parse_escape(p)) /\ Steps(p, parse_text(p))
  BY EscapeIsGood, TextIsGood
<1>4. Steps(p, parse_csi(p, 1))
  BY <1>2, CsiIsGood
<1>5. \A kind \in {"Osc", "Dcs", "Apc"} : Steps(p, parse_string(p, kind, 1))
  BY <1>2, StringIsGood
<1>6. Steps(p, Step_Emit(p, "Malformed", 1)) /\ Steps(p, Step_Emit(p, "Control", 1))
  <2>1. 1 \in 0 .. Len(p.rest)
    BY <1>1, <1>2
  <2> QED  BY <2>1, StepEmitIsGood DEF TokenType
<1> QED  BY <1>3, <1>4, <1>5, <1>6 DEF step

-----------------------------------------------------------------------------
(***************************************************************************)
(* The steps inside a string.                                              *)
(***************************************************************************)
LEMMA StringTokens ==
  ASSUME NEW p \in Parser, p.kind # "none", NEW terminator \in Seq(Byte)
  PROVE  string_token(p, terminator) \in Tokens
<1>1. p.kept \in Seq(Byte) /\ p.dropped \in Nat /\ p.kind \in {"Osc", "Dcs", "Apc"}
  BY DEF Parser
<1>2. p.kept \o terminator \in Seq(Byte)
  BY <1>1, ConcatProperties
<1>3. p.kind \in TokenType
  BY <1>1 DEF TokenType
<1> QED  BY <1>1, <1>2, <1>3 DEF string_token, Tokens

LEMMA EndedStringsAreGood ==
  ASSUME NEW p \in Parser, p.kind # "none",
         NEW terminator \in Seq(Byte), NEW rest \in Seq(Byte)
  PROVE  Good(emit_string_token(p, terminator, rest))
BY StringTokens, EmitIsGood DEF emit_string_token

LEMMA AbortedStringsAreGood ==
  ASSUME NEW p \in Parser, p.kind # "none",
         NEW aborting \in Seq(Byte), NEW again \in Seq(Byte)
  PROVE  Good(abort_string(p, aborting, again))
<1>1. p.kept \in Seq(Byte)
  BY DEF Parser
<1>2. p.kept \o aborting \in Seq(Byte) /\ aborting \o again \in Seq(Byte)
  BY <1>1, ConcatProperties
<1>3. Token("Malformed", p.kept \o aborting) \in Tokens
  BY <1>2, TokensHaveTheirType DEF TokenType
<1>4. Good(Emit(p, Token("Malformed", p.kept \o aborting), again))
  BY <1>3, EmitIsGood
<1>5. Good(emit_string_token(p, <<>>, aborting \o again))
  BY <1>2, EmptySeq, EndedStringsAreGood
<1> QED  BY <1>4, <1>5 DEF abort_string

\* What a string retains grows up to the limit past its introducer.
LEMMA PushedBytesAreBounded ==
  ASSUME NEW p \in Parser, p.mode = "InString", Bounded(p), NEW b \in Byte
  PROVE  /\ push_payload_byte(p, b) \in Parser
         /\ Bounded(push_payload_byte(p, b))
         /\ push_payload_byte(p, b).mode = "InString"
         /\ push_payload_byte(p, b).kind = p.kind
<1>1. /\ p.kept \in Seq(Byte) /\ Len(p.kept) \in Nat /\ p.limit \in Nat
      /\ p.intro \in 0 .. 2 /\ p.dropped \in Nat
  BY LenProperties, LimitsAssumption DEF Parser
<1>2. Len(p.kept) <= p.intro + p.limit + 1 /\ Len(p.held) <= 1
  BY DEF Bounded
<1>3. CASE Len(p.kept) - p.intro < p.limit
  <2> DEFINE next == [p EXCEPT !.kept = Append(p.kept, b)]
  <2>1. Append(p.kept, b) \in Seq(Byte) /\ Len(Append(p.kept, b)) = Len(p.kept) + 1
    BY <1>1, AppendProperties
  <2>2. next \in Parser
    BY <2>1 DEF Parser
  <2>3. /\ next.kept = Append(p.kept, b) /\ next.mode = p.mode /\ next.kind = p.kind
        /\ next.limit = p.limit /\ next.intro = p.intro /\ next.held = p.held
    BY DEF Parser
  <2>4. Len(p.kept) + 1 <= p.intro + p.limit + 1
    BY <1>1, <1>3
  <2>5. push_payload_byte(p, b) = next
    BY <1>3 DEF push_payload_byte
  <2> HIDE DEF next
  <2>6. Bounded(next)
    BY <1>2, <2>1, <2>3, <2>4 DEF Bounded
  <2> QED  BY <2>2, <2>3, <2>5, <2>6
<1>4. CASE ~ (Len(p.kept) - p.intro < p.limit)
  <2> DEFINE next == [p EXCEPT !.dropped = p.dropped + 1]
  <2>1. next \in Parser
    BY <1>1 DEF Parser
  <2>2. /\ next.kept = p.kept /\ next.mode = p.mode /\ next.kind = p.kind
        /\ next.limit = p.limit /\ next.intro = p.intro /\ next.held = p.held
    BY DEF Parser
  <2>3. push_payload_byte(p, b) = next
    BY <1>4 DEF push_payload_byte
  <2> HIDE DEF next
  <2>4. Bounded(next)
    BY <1>2, <2>2 DEF Bounded
  <2> QED  BY <2>1, <2>2, <2>3, <2>4
<1> QED  BY <1>3, <1>4

\* The byte is taken from the chunk, and the string goes on.
LEMMA StringsGoOn ==
  ASSUME NEW p \in Parser, p.mode = "InString", p.kind # "none", Bounded(p),
         NEW held \in Seq(Byte), Len(held) <= 1, NEW rest \in Seq(Byte)
  PROVE  Good(Outcome([p EXCEPT !.held = held, !.rest = rest], <<>>))
<1> DEFINE next == [p EXCEPT !.held = held, !.rest = rest]
<1>1. next \in Parser
  BY DEF Parser
<1>2. /\ next.kept = p.kept /\ next.mode = p.mode /\ next.kind = p.kind
      /\ next.limit = p.limit /\ next.intro = p.intro /\ next.held = held
  BY DEF Parser
<1> HIDE DEF next
<1>3. Bounded(next) /\ Shape(next)
  BY <1>2 DEF Bounded, Shape
<1>4. <<>> \in Seq(Tokens)
  BY EmptySeq
<1>5. Good(Outcome(next, <<>>))
  BY <1>1, <1>3, <1>4 DEF Good, Outcome
<1> QED  BY <1>5 DEF next

LEMMA StringStepIsGood ==
  ASSUME NEW p \in Parser, p.mode = "InString", p.kind # "none", Bounded(p),
         p.rest # <<>>
  PROVE  Good(consume_string(p))
<1> DEFINE b == Head(p.rest)
           rest == Tail(p.rest)
<1>1. /\ p.rest \in Seq(Byte) /\ p.held \in Seq(Byte)
      /\ b \in Byte /\ rest \in Seq(Byte)
  BY HeadTailProperties DEF Parser
<1>2. /\ <<>> \in Seq(Byte) /\ <<"ESC", "\\">> \in Seq(Byte)
      /\ <<"BEL">> \in Seq(Byte) /\ <<"ST">> \in Seq(Byte) /\ <<"CAN">> \in Seq(Byte)
      /\ <<"ESC">> \in Seq(Byte) /\ <<"ESC", "CAN">> \in Seq(Byte)
  <2>1. {"ESC", "\\", "BEL", "ST", "CAN"} \subseteq Byte
    BY DEF Byte, Printable, EscapeFinal, Final, Boundary, Control, C0
  <2> QED  BY <2>1
<1>3. held_esc_buffer(p) \in Seq(Byte)
  BY <1>1, ConcatProperties DEF held_esc_buffer
<1>4. CASE p.held # <<>>
  <2>1. Good(emit_string_token(p, <<"ESC", "\\">>, rest))
    BY <1>1, <1>2, EndedStringsAreGood
  <2>2. Good(abort_string(p, <<"ESC", "CAN">>, rest))
    BY <1>1, <1>2, AbortedStringsAreGood
  <2>3. Good(abort_string(p, <<>>, held_esc_buffer(p)))
    BY <1>2, <1>3, AbortedStringsAreGood
  <2> QED  BY <1>4, <2>1, <2>2, <2>3 DEF consume_string
<1>5. CASE p.held = <<>>
  <2>1. Good(emit_string_token(p, <<"BEL">>, rest))
    BY <1>1, <1>2, EndedStringsAreGood
  <2>2. Good(emit_string_token(p, <<"ST">>, rest))
    BY <1>1, <1>2, EndedStringsAreGood
  <2>3. Good(abort_string(p, <<"CAN">>, rest))
    BY <1>1, <1>2, AbortedStringsAreGood
  <2>4. Good(Outcome([p EXCEPT !.held = <<"ESC">>, !.rest = rest], <<>>))
    <3>1. Len(<<"ESC">>) <= 1
      OBVIOUS
    <3> QED  BY <1>1, <1>2, <3>1, StringsGoOn
  <2>5. Good(Outcome([push_payload_byte(p, b) EXCEPT !.rest = rest], <<>>))
    <3>1. PICK q \in Parser : /\ q = push_payload_byte(p, b) /\ Bounded(q)
                              /\ q.mode = "InString" /\ q.kind # "none"
      BY <1>1, PushedBytesAreBounded
    <3>2. q.held \in Seq(Byte) /\ Len(q.held) <= 1
      BY <3>1 DEF Parser, Bounded
    <3>3. Good(Outcome([q EXCEPT !.held = q.held, !.rest = rest], <<>>))
      BY <1>1, <3>1, <3>2, StringsGoOn
    <3>4. [q EXCEPT !.held = q.held, !.rest = rest] = [q EXCEPT !.rest = rest]
      BY DEF Parser
    <3> QED  BY <3>1, <3>3, <3>4
  <2> QED  BY <1>5, <2>1, <2>2, <2>3, <2>4, <2>5 DEF consume_string
<1> QED  BY <1>4, <1>5

-----------------------------------------------------------------------------
(***************************************************************************)
(* The steps inside a paste.  What is held after a break is a proper       *)
(* prefix of an end bracket.                                               *)
(***************************************************************************)
LEMMA ShiftsLeaveAPrefix ==
  ASSUME NEW c \in Seq(Byte), Len(c) <= 6, c \notin PasteEnds
  PROVE  /\ advance_after_break(c) \in 0 .. Len(c)
         /\ Len(Cut(c, advance_after_break(c))) <= 5
<1> DEFINE P(n) == is_paste_end_prefix(Cut(c, n))
           S == { n \in 0 .. Len(c) : P(n) }
           shift == advance_after_break(c)
<1>1. Len(c) \in Nat
  BY LenProperties
<1>2. Len(c) \in S
  <2>1. Cut(c, Len(c)) = <<>>
    BY <1>1, SubSeqEmpty DEF Cut
  <2>2. \E end \in PasteEnds : Len(<<>>) <= Len(end) /\ <<>> = Take(end, Len(<<>>))
    <3>1. <<"CSI", "2", "0", "1", "~">> \in PasteEnds
      BY DEF PasteEnds
    <3>2. Take(<<"CSI", "2", "0", "1", "~">>, 0) = <<>>
      BY SubSeqEmpty DEF Take
    <3>3. Len(<<>>) = 0 /\ 0 <= Len(<<"CSI", "2", "0", "1", "~">>)
      OBVIOUS
    <3> QED  BY <3>1, <3>2, <3>3
  <2>3. P(Len(c))
    BY <2>1, <2>2 DEF is_paste_end_prefix
  <2> QED  BY <1>1, <2>3
<1>3. PICK least \in S : \A m \in S : least <= m
  <2>1. S \in SUBSET Nat /\ S # {}
    BY <1>1, <1>2
  <2> HIDE DEF S
  <2> QED  BY <2>1, LeastElement
<1>4. least \in 0 .. Len(c) /\ P(least) /\ \A m \in 0 .. least - 1 : ~ P(m)
  BY <1>1, <1>3
<1>5. shift = CHOOSE n \in 0 .. Len(c) : P(n) /\ \A m \in 0 .. n - 1 : ~ P(m)
  BY DEF advance_after_break
<1> HIDE DEF P, S, shift
<1>6. shift \in 0 .. Len(c) /\ P(shift)
  BY <1>4, <1>5
<1>7. Len(Cut(c, shift)) = Len(c) - shift
  BY <1>6, TakeAndCut
<1>8. CASE shift = 0
  <2>1. Cut(c, 0) = c
    BY <1>1, SubSeqFull DEF Cut
  <2>2. PICK end \in PasteEnds : Len(c) <= Len(end) /\ c = Take(end, Len(c))
    BY <1>6, <1>8, <2>1 DEF P, is_paste_end_prefix
  <2>3. end \in Seq(Byte) /\ Len(end) \in {5, 6}
    <3>1. {"ESC", "[", "2", "0", "1", "~", "CSI"} \subseteq Byte
      BY DEF Byte, Printable, EscapeFinal, Final, Param, Boundary, Control, C0, Introducer8
    <3>2. /\ <<"ESC", "[", "2", "0", "1", "~">> \in Seq(Byte)
          /\ Len(<<"ESC", "[", "2", "0", "1", "~">>) = 6
      BY <3>1
    <3>3. /\ <<"CSI", "2", "0", "1", "~">> \in Seq(Byte)
          /\ Len(<<"CSI", "2", "0", "1", "~">>) = 5
      BY <3>1
    <3>4. \/ end = <<"ESC", "[", "2", "0", "1", "~">>
          \/ end = <<"CSI", "2", "0", "1", "~">>
      BY DEF PasteEnds
    <3>5. CASE end = <<"ESC", "[", "2", "0", "1", "~">>
      BY <3>2, <3>5
    <3>6. CASE end = <<"CSI", "2", "0", "1", "~">>
      BY <3>3, <3>6
    <3> QED  BY <3>4, <3>5, <3>6
  <2>4. Len(c) # Len(end)
    <3>1. Take(end, Len(end)) = end
      BY <2>3, SubSeqFull DEF Take
    <3> QED  BY <2>2, <3>1
  <2>5. Len(c) <= 5
    BY <1>1, <2>2, <2>3, <2>4
  <2> QED  BY <1>6, <1>8, <2>1, <2>5 DEF shift
<1>9. CASE shift # 0
  <2>1. \A n, m \in Nat : n <= 6 /\ m # 0 => n - m <= 5
    OBVIOUS
  <2>2. shift \in Nat
    BY <1>1, <1>6
  <2>3. Len(Cut(c, shift)) <= 5
    BY <1>1, <1>7, <1>9, <2>1, <2>2
  <2> QED  BY <1>6, <2>3 DEF shift
<1> QED  BY <1>8, <1>9

LEMMA PasteTokens ==
  ASSUME NEW p \in Parser, NEW raw \in Seq(Byte), NEW tail \in Seq(Byte),
         NEW flags \in SUBSET {"final", "terminated"}
  PROVE  paste_token(p, raw, tail, flags) \in Tokens
<1>1. raw \o tail \in Seq(Byte)
  BY ConcatProperties
<1>2. flags \cup (IF p.first THEN {"first"} ELSE {})
        \in SUBSET {"first", "final", "terminated"}
  OBVIOUS
<1> QED  BY <1>1, <1>2 DEF paste_token, Tokens, TokenType

\* A segment that has reached the limit is cut, whatever is held.
LEMMA SegmentsAreGood ==
  ASSUME NEW p \in Parser, p.mode = "InPaste", p.start <= 6, Len(p.held) <= 5
  PROVE  Good(emit_segment(p))
<1>1. /\ p.kept \in Seq(Byte) /\ Len(p.kept) \in Nat /\ p.limit \in Nat
      /\ p.start \in Nat
  BY LenProperties, LimitsAssumption DEF Parser
<1>2. CASE segment_payload_len(p) >= p.limit
  <2> DEFINE next == [p EXCEPT !.kept = <<>>, !.start = 0, !.first = FALSE]
  <2>1. next \in Parser
    <3>1. <<>> \in Seq(Byte)
      BY EmptySeq
    <3> QED  BY <3>1 DEF Parser
  <2>2. /\ next.kept = <<>> /\ next.start = 0 /\ next.mode = p.mode
        /\ next.limit = p.limit /\ next.held = p.held
    BY DEF Parser
  <2>3. emit_segment(p) = Outcome(next, <<paste_token(p, p.kept, <<>>, {})>>)
    BY <1>2 DEF emit_segment
  <2>4. paste_token(p, p.kept, <<>>, {}) \in Tokens
    <3>1. <<>> \in Seq(Byte)
      BY EmptySeq
    <3> QED  BY <1>1, <3>1, PasteTokens
  <2> HIDE DEF next
  <2>5. segment_payload_len(next) < AtLeastOne(next.limit)
    <3>1. segment_payload_len(next) = 0
      BY <2>2 DEF segment_payload_len
    <3> QED  BY <1>1, <2>2, <3>1, LeastBound
  <2>6. Bounded(next) /\ Shape(next)
    BY <2>2, <2>5 DEF Bounded, Shape
  <2> QED  BY <2>1, <2>3, <2>4, <2>6 DEF Good, Outcome
<1>3. CASE ~ (segment_payload_len(p) >= p.limit)
  <2>1. \A n, l \in Nat, k \in Nat : ~ (n - k >= l) => n - k < AtLeastOne(l)
    BY DEF AtLeastOne
  <2>2. segment_payload_len(p) < AtLeastOne(p.limit)
    BY <1>1, <1>3, <2>1 DEF segment_payload_len
  <2>3. Bounded(p) /\ Shape(p)
    BY <2>2 DEF Bounded, Shape
  <2>4. <<>> \in Seq(Tokens)
    BY EmptySeq
  <2> QED  BY <1>3, <2>3, <2>4 DEF Good, emit_segment, Outcome
<1> QED  BY <1>2, <1>3

LEMMA PasteStepIsGood ==
  ASSUME NEW p \in Parser, p.mode = "InPaste", Bounded(p), p.rest # <<>>
  PROVE  Good(consume_paste(p))
<1> DEFINE candidate == Append(p.held, Head(p.rest))
           rest == Tail(p.rest)
           n == advance_after_break(candidate)
<1>1. /\ p.rest \in Seq(Byte) /\ p.held \in Seq(Byte) /\ p.kept \in Seq(Byte)
      /\ Head(p.rest) \in Byte /\ rest \in Seq(Byte)
  BY HeadTailProperties DEF Parser
<1>2. p.start <= 6 /\ Len(p.held) <= 5
  BY DEF Bounded
<1>3. candidate \in Seq(Byte) /\ Len(candidate) <= 6
  <2>1. Len(p.held) \in Nat
    BY <1>1, LenProperties
  <2>2. candidate \in Seq(Byte) /\ Len(candidate) = Len(p.held) + 1
    BY <1>1, AppendProperties
  <2> QED  BY <1>2, <2>1, <2>2
<1> HIDE DEF candidate
<1>4. CASE candidate \in PasteEnds
  <2>1. paste_token(p, p.kept, candidate, {"final", "terminated"}) \in Tokens
    BY <1>1, <1>3, PasteTokens
  <2>2. Good(Emit(p, paste_token(p, p.kept, candidate, {"final", "terminated"}), rest))
    BY <1>1, <2>1, EmitIsGood
  <2> QED  BY <1>4, <2>2 DEF consume_paste, candidate
<1>5. CASE candidate \notin PasteEnds
  <2> DEFINE q == [p EXCEPT !.kept = p.kept \o Take(candidate, n),
                            !.held = Cut(candidate, n), !.rest = rest]
  <2>1. n \in 0 .. Len(candidate) /\ Len(Cut(candidate, n)) <= 5
    BY <1>3, <1>5, ShiftsLeaveAPrefix
  <2>2. Take(candidate, n) \in Seq(Byte) /\ Cut(candidate, n) \in Seq(Byte)
    BY <1>3, <2>1, TakeAndCut
  <2>3. p.kept \o Take(candidate, n) \in Seq(Byte)
    BY <1>1, <2>2, ConcatProperties
  <2>4. q \in Parser
    BY <1>1, <2>2, <2>3 DEF Parser
  <2>5. q.mode = "InPaste" /\ q.start = p.start /\ q.held = Cut(candidate, n)
    BY DEF Parser
  <2>6. consume_paste(p) = emit_segment(q)
    BY <1>5 DEF consume_paste, candidate
  <2> HIDE DEF q
  <2> QED  BY <1>2, <2>1, <2>4, <2>5, <2>6, SegmentsAreGood
<1> QED  BY <1>4, <1>5

-----------------------------------------------------------------------------
(***************************************************************************)
(* The calls.                                                              *)
(***************************************************************************)
LEMMA TurnIsGood ==
  ASSUME NEW p \in Parser, Bounded(p), Shape(p), p.rest # <<>>
  PROVE  Good(Turn(p))
<1>1. p.mode \in {"Ground", "InString", "InPaste"}
  BY DEF Parser, Mode, Shape
<1>2. CASE p.mode = "Ground"
  <2>1. p.held = <<>>
    BY <1>2 DEF Bounded
  <2>2. Good(step(p))
    BY <2>1, StepIsGood DEF Steps
  <2> QED  BY <1>2, <2>2 DEF Turn
<1>3. CASE p.mode = "InString"
  <2>1. Good(consume_string(p))
    BY <1>3, StringStepIsGood DEF Shape
  <2> QED  BY <1>3, <2>1 DEF Turn
<1>4. CASE p.mode = "InPaste"
  <2>1. Good(consume_paste(p))
    BY <1>4, PasteStepIsGood
  <2> QED  BY <1>4, <2>1 DEF Turn
<1> QED  BY <1>1, <1>2, <1>3, <1>4

LEMMA FlushIsGood ==
  ASSUME NEW p \in Parser, Bounded(p), Shape(p)
  PROVE  Good(flushed(p))
<1>1. /\ p.kept \in Seq(Byte) /\ p.held \in Seq(Byte) /\ p.rest \in Seq(Byte)
      /\ p.mode \in Mode
  BY DEF Parser
<1>2. <<>> \in Seq(Byte) /\ <<>> \in Seq(Tokens)
  BY EmptySeq
<1>3. CASE p.mode = "Ground"
  BY <1>2, <1>3 DEF flushed, Good, Outcome
<1>4. CASE p.mode = "Partial"
  <2>1. finish_pending(p) \in
          {Token("Text", p.kept), Token("Malformed", p.kept), Token("Esc", p.kept)}
    BY DEF finish_pending
  <2>2. \A type \in {"Text", "Malformed", "Esc"} : Token(type, p.kept) \in Tokens
    BY <1>1, TokensHaveTheirType DEF TokenType
  <2>3. Good(Emit(p, finish_pending(p), <<>>))
    BY <1>2, <2>1, <2>2, EmitIsGood
  <2> QED  BY <1>4, <2>3 DEF flushed
<1>5. CASE p.mode = "InString"
  <2>1. p.kind # "none" /\ "ESC" \in Byte
    BY <1>5 DEF Shape, Byte, Boundary, Control
  <2>2. Good(emit_string_token(p, <<>>, <<>>))
    BY <1>2, <2>1, EndedStringsAreGood
  <2>3. /\ push_payload_byte(p, "ESC") \in Parser
        /\ push_payload_byte(p, "ESC").kind # "none"
    BY <1>5, <2>1, PushedBytesAreBounded
  <2>4. Good(emit_string_token(push_payload_byte(p, "ESC"), <<>>, <<>>))
    BY <1>2, <2>3, EndedStringsAreGood
  <2> QED  BY <1>5, <2>2, <2>4 DEF flushed
<1>6. CASE p.mode = "InPaste"
  <2>1. p.kept \o p.held \in Seq(Byte)
    BY <1>1, ConcatProperties
  <2>2. paste_token(p, p.kept \o p.held, <<>>, {"final"}) \in Tokens
    BY <1>2, <2>1, PasteTokens
  <2>3. Good(Emit(p, paste_token(p, p.kept \o p.held, <<>>, {"final"}), <<>>))
    BY <1>2, <2>2, EmitIsGood
  <2> QED  BY <1>6, <2>3 DEF flushed
<1> QED  BY <1>1, <1>3, <1>4, <1>5, <1>6 DEF Mode

LEMMA GroundIsGood ==
  ASSUME NEW limit \in Limits, NEW rest \in Seq(Byte)
  PROVE  Good(Outcome(Ground(limit, rest), <<>>))
<1>1. <<>> \in Seq(Byte) /\ <<>> \in Seq(Tokens)
  BY EmptySeq
<1>2. Ground(limit, rest) \in Parser
  BY <1>1 DEF Ground, Parser, Mode
<1>3. Bounded(Ground(limit, rest)) /\ Shape(Ground(limit, rest))
  BY DEF Ground, Bounded, Shape
<1> QED  BY <1>1, <1>2, <1>3 DEF Good, Outcome

\* What feed does first: the bytes of a prefix are read again with the chunk.
LEMMA FedIsGood ==
  ASSUME NEW p \in Parser, Bounded(p), Shape(p), NEW chunk \in Seq(Byte)
  PROVE  /\ fed_with(p, chunk) \in Parser
         /\ Bounded(fed_with(p, chunk)) /\ Shape(fed_with(p, chunk))
<1>1. p.limit \in Limits /\ p.kept \in Seq(Byte) /\ p.mode \in Mode
  BY DEF Parser
<1>2. CASE p.mode = "Partial"
  <2>1. p.kept \o chunk \in Seq(Byte)
    BY <1>1, ConcatProperties
  <2>2. Good(Outcome(Ground(p.limit, p.kept \o chunk), <<>>))
    BY <1>1, <2>1, GroundIsGood, EmptySeq
  <2> QED  BY <1>2, <2>2 DEF fed_with, Good, Outcome
<1>3. CASE p.mode # "Partial"
  <2>1. fed_with(p, chunk) = [p EXCEPT !.rest = chunk]
    BY <1>3 DEF fed_with
  <2>2. [p EXCEPT !.rest = chunk] \in Parser
    BY DEF Parser
  <2>3. Bounded([p EXCEPT !.rest = chunk])
    BY DEF Bounded, segment_payload_len, Parser
  <2>4. Shape([p EXCEPT !.rest = chunk])
    BY <1>3 DEF Shape, Parser
  <2> QED  BY <2>1, <2>2, <2>3, <2>4
<1> QED  BY <1>2, <1>3

-----------------------------------------------------------------------------
(***************************************************************************)
(* Where the bytes of a string, a paste and a flush go.                    *)
(***************************************************************************)
LEMMA HeadsRead ==
  ASSUME NEW s \in Seq(Byte), s # <<>>, NEW at \in Nat, Reads(s, at)
  PROVE  /\ Head(s) \in Byte /\ Tail(s) \in Seq(Byte) /\ <<Head(s)>> \in Seq(Byte)
         /\ Reads(<<Head(s)>>, at) /\ Reads(Tail(s), at + 1)
         /\ Len(Tail(s)) = Len(s) - 1 /\ Len(s) \in Nat \ {0}
<1>1. /\ Head(s) \in Byte /\ Tail(s) \in Seq(Byte) /\ Len(Tail(s)) = Len(s) - 1
      /\ \A i \in 1 .. Len(Tail(s)) : Tail(s)[i] = s[i + 1]
  BY HeadTailProperties
<1>2. Len(s) \in Nat \ {0} /\ Head(s) = s[1]
  BY LenProperties, EmptySeq
<1>3. s[1] = input[at + 1]
  BY <1>2 DEF Reads
<1>4. Reads(<<Head(s)>>, at)
  BY <1>2, <1>3 DEF Reads
<1>5. Reads(Tail(s), at + 1)
  <2>1. ASSUME NEW i \in 1 .. Len(Tail(s)) PROVE Tail(s)[i] = input[at + 1 + i]
    <3>1. i + 1 \in 1 .. Len(s) /\ at + (i + 1) = at + 1 + i
      BY <1>1, <1>2
    <3> QED  BY <1>1, <3>1 DEF Reads
  <2> QED  BY <2>1 DEF Reads
<1> QED  BY <1>1, <1>2, <1>4, <1>5

LEMMA ParserParts ==
  ASSUME NEW p \in Parser
  PROVE  /\ p.kept \in Seq(Byte) /\ p.held \in Seq(Byte) /\ p.rest \in Seq(Byte)
         /\ Len(p.kept) \in Nat /\ Len(p.held) \in Nat /\ Len(p.rest) \in Nat
         /\ p.dropped \in Nat /\ p.limit \in Nat /\ p.intro \in 0 .. 2
         /\ p.limit \in Limits /\ p.mode \in Mode
BY LenProperties, LimitsAssumption DEF Parser

\* What a string kept, what it dropped and what ended it.
LEMMA StringTokensCover ==
  ASSUME NEW p \in Parser, p.kind # "none", Layout(p), NEW terminator \in Seq(Byte),
         NEW at \in Nat, Reads(p.kept, at),
         Reads(terminator, at + Len(p.kept) + p.dropped)
  PROVE  /\ Covers(string_token(p, terminator), at, p.limit)
         /\ Len(string_token(p, terminator).raw) = Len(p.kept) + Len(terminator)
         /\ string_token(p, terminator).dropped = p.dropped
         /\ string_token(p, terminator) \in Tokens
<1> DEFINE t == string_token(p, terminator)
<1>1. /\ t.raw = p.kept \o terminator /\ t.tail = terminator /\ t.dropped = p.dropped
      /\ t.type = p.kind
  BY DEF string_token
<1>2. t \in Tokens
  BY StringTokens
<1> HIDE DEF t
<1>3. /\ Len(p.kept) \in Nat /\ Len(terminator) \in Nat
      /\ Len(t.raw) = Len(p.kept) + Len(terminator)
      /\ \A i \in 1 .. Len(p.kept) + Len(terminator) :
           t.raw[i] = IF i <= Len(p.kept) THEN p.kept[i] ELSE terminator[i - Len(p.kept)]
  BY <1>1, ParserParts, LenProperties, ConcatProperties
<1>4. Len(t.raw) - Len(t.tail) = Len(p.kept)
  BY <1>1, <1>3
<1>5. ASSUME NEW i \in 1 .. Len(p.kept) PROVE t.raw[i] = input[at + i]
  <2>1. \A k, n \in Nat : \A j \in 1 .. k : j \in 1 .. k + n /\ j <= k
    OBVIOUS
  <2>2. t.raw[i] = p.kept[i]
    BY <1>3, <2>1
  <2> QED  BY <2>2 DEF Reads
<1>6. \A i \in 1 .. Len(t.tail) : t.raw[Len(p.kept) + i] = t.tail[i]
  BY <1>1, <1>3
<1>7. t.dropped > 0 => t.type \in {"Osc", "Dcs", "Apc"} /\ Len(p.kept) >= p.limit
  <2>1. p.kind \in {"Osc", "Dcs", "Apc"}
    BY DEF Parser
  <2>2. \A k, l \in Nat, i \in 0 .. 2 : k - i >= l => k >= l
    OBVIOUS
  <2> QED  BY <1>1, <2>1, <2>2, ParserParts DEF Layout
<1> QED
  BY <1>1, <1>2, <1>3, <1>4, <1>5, <1>6, <1>7 DEF Covers, t

LEMMA EndedStringsAccount ==
  ASSUME NEW p \in Parser, p.kind # "none", Layout(p), NEW terminator \in Seq(Byte),
         NEW rest \in Seq(Byte), NEW at \in Nat, NEW to \in Nat, Reads(p.kept, at),
         Reads(terminator, at + Len(p.kept) + p.dropped),
         Reads(rest, at + Len(p.kept) + p.dropped + Len(terminator)),
         at + Len(p.kept) + p.dropped + Len(terminator) + Len(rest) = to
  PROVE  Accounts(emit_string_token(p, terminator, rest), p.limit, at, to)
<1> DEFINE t == string_token(p, terminator)
<1>1. /\ Covers(t, at, p.limit) /\ t \in Tokens
      /\ Len(t.raw) = Len(p.kept) + Len(terminator) /\ t.dropped = p.dropped
  BY StringTokensCover
<1>2. emit_string_token(p, terminator, rest) = Emit(p, t, rest)
  BY DEF emit_string_token
<1> HIDE DEF t
<1>3. at + Len(t.raw) + t.dropped = at + Len(p.kept) + p.dropped + Len(terminator)
  <2>1. \A k, n, d \in Nat : at + (k + n) + d = at + k + d + n
    OBVIOUS
  <2> QED  BY <1>1, <2>1, ParserParts, LenProperties
<1> QED  BY <1>1, <1>2, <1>3, EmitAccounts

LEMMA AbortedStringsAccount ==
  ASSUME NEW p \in Parser, p.kind # "none", Layout(p), NEW aborting \in Seq(Byte),
         NEW again \in Seq(Byte), NEW at \in Nat, NEW to \in Nat, Reads(p.kept, at),
         Reads(aborting, at + Len(p.kept) + p.dropped),
         Reads(again, at + Len(p.kept) + p.dropped + Len(aborting)),
         at + Len(p.kept) + p.dropped + Len(aborting) + Len(again) = to
  PROVE  Accounts(abort_string(p, aborting, again), p.limit, at, to)
<1>0. Len(aborting) \in Nat /\ Len(again) \in Nat
  BY LenProperties
<1>1. CASE p.dropped = 0
  <2> DEFINE raw == p.kept \o aborting
             t == Token("Malformed", raw)
  <2>1. Len(p.kept) + p.dropped = Len(p.kept) /\ at + Len(p.kept) + p.dropped = at + Len(p.kept)
    BY <1>1, ParserParts
  <2>2. /\ raw \in Seq(Byte) /\ Reads(raw, at) /\ Len(raw) = Len(p.kept) + Len(aborting)
    BY <2>1, ParserParts, ReadsJoin, ConcatProperties
  <2> HIDE DEF raw
  <2>3. /\ Covers(t, at, p.limit) /\ t.raw = raw /\ t.dropped = 0 /\ t \in Tokens
    BY <2>2, PlainTokensCover, TokensHaveTheirType DEF TokenType
  <2>4. abort_string(p, aborting, again) = Emit(p, t, again)
    BY <1>1 DEF abort_string, raw
  <2> HIDE DEF t
  <2>5. at + Len(t.raw) + t.dropped = at + Len(p.kept) + p.dropped + Len(aborting)
    <3>1. \A k, n \in Nat : at + (k + n) + 0 = at + k + 0 + n
      OBVIOUS
    <3>2. Len(p.kept) \in Nat
      BY ParserParts
    <3> QED  BY <1>0, <1>1, <2>2, <2>3, <3>1, <3>2
  <2> QED  BY <2>3, <2>4, <2>5, EmitAccounts
<1>2. CASE p.dropped # 0
  <2> DEFINE rest == aborting \o again
             empty == <<>>
  <2>1. /\ rest \in Seq(Byte) /\ Len(rest) = Len(aborting) + Len(again)
        /\ Reads(rest, at + Len(p.kept) + p.dropped)
    BY ParserParts, ReadsJoin, ConcatProperties
  <2>2. abort_string(p, aborting, again) = emit_string_token(p, empty, rest)
    BY <1>2 DEF abort_string
  <2>3. empty \in Seq(Byte) /\ Len(empty) = 0 /\ \A n : Reads(empty, n)
    BY EmptySeq, EmptyReads
  <2> HIDE DEF rest, empty
  <2>4. /\ at + Len(p.kept) + p.dropped + Len(empty) = at + Len(p.kept) + p.dropped
        /\ at + Len(p.kept) + p.dropped + Len(rest) = to
    BY <1>0, <2>1, <2>3, ParserParts
  <2> QED  BY <2>1, <2>2, <2>3, <2>4, EndedStringsAccount
<1> QED  BY <1>1, <1>2

\* A byte is kept or dropped, and stays what the input has next.
LEMMA PushedBytesLie ==
  ASSUME NEW p \in Parser, p.mode = "InString", Layout(p), NEW b \in Byte,
         NEW at \in Nat, Reads(p.kept, at), b = input[at + Len(p.kept) + p.dropped + 1],
         NEW q, q = push_payload_byte(p, b)
  PROVE  /\ Reads(q.kept, at)
         /\ Len(q.kept) + q.dropped = Len(p.kept) + p.dropped + 1
         /\ q.limit = p.limit /\ q.intro = p.intro /\ q.mode = p.mode /\ q.held = p.held
         /\ q.dropped > 0 => Len(q.kept) - q.intro >= q.limit
<1>1. CASE Len(p.kept) - p.intro < p.limit
  <2>1. q = [p EXCEPT !.kept = Append(p.kept, b)]
    BY <1>1 DEF push_payload_byte
  <2>2. /\ q.kept = Append(p.kept, b) /\ q.dropped = p.dropped /\ q.limit = p.limit
        /\ q.intro = p.intro /\ q.mode = p.mode /\ q.held = p.held
    BY <2>1 DEF Parser
  <2>3. p.dropped = 0
    BY <1>1, ParserParts DEF Layout
  <2>4. /\ Len(q.kept) = Len(p.kept) + 1 /\ q.kept[Len(p.kept) + 1] = b
        /\ \A i \in 1 .. Len(p.kept) : q.kept[i] = p.kept[i]
    BY <2>2, ParserParts, AppendProperties
  <2>5. at + Len(p.kept) + p.dropped + 1 = at + (Len(p.kept) + 1)
    BY <2>3, ParserParts
  <2>6. Reads(q.kept, at)
    <3>1. ASSUME NEW i \in 1 .. Len(p.kept) + 1 PROVE q.kept[i] = input[at + i]
      <4>1. i \in 1 .. Len(p.kept) \/ i = Len(p.kept) + 1
        BY ParserParts
      <4> QED  BY <2>4, <2>5, <4>1 DEF Reads
    <3> QED  BY <2>4, <3>1 DEF Reads
  <2> QED  BY <2>2, <2>3, <2>4, <2>6, ParserParts
<1>2. CASE ~ (Len(p.kept) - p.intro < p.limit)
  <2>1. q = [p EXCEPT !.dropped = p.dropped + 1]
    BY <1>2 DEF push_payload_byte
  <2>2. /\ q.kept = p.kept /\ q.dropped = p.dropped + 1 /\ q.limit = p.limit
        /\ q.intro = p.intro /\ q.mode = p.mode /\ q.held = p.held
    BY <2>1 DEF Parser
  <2>3. Len(p.kept) \in Nat /\ p.dropped \in Nat /\ p.limit \in Nat /\ p.intro \in Nat
    BY ParserParts
  <2>4. Len(q.kept) - q.intro >= q.limit
    BY <1>2, <2>2, <2>3
  <2>5. Len(q.kept) + q.dropped = Len(p.kept) + p.dropped + 1
    <3> DEFINE m == Len(p.kept)
               n == p.dropped
    <3>1. m \in Nat /\ n \in Nat /\ Len(q.kept) = m /\ q.dropped = n + 1
      BY <2>2, <2>3
    <3> HIDE DEF m, n
    <3>2. Len(q.kept) + q.dropped = m + n + 1
      BY <3>1
    <3> QED  BY <3>2 DEF m, n
  <2> QED  BY <2>2, <2>4, <2>5
<1> QED  BY <1>1, <1>2

LEMMA StringStepAccounts ==
  ASSUME NEW p \in Parser, p.mode = "InString", p.kind # "none", Bounded(p), Layout(p),
         p.rest # <<>>, NEW at \in Nat, NEW to \in Nat, Lies(p, at, to)
  PROVE  Accounts(consume_string(p), p.limit, at, to)
<1> DEFINE b == Head(p.rest)
           rest == Tail(p.rest)
           h == at + Len(p.kept) + p.dropped
<1>1. h \in Nat /\ Reads(p.kept, at) /\ Reads(p.held, h)
  BY ParserParts DEF Lies
<1>2. h + Len(p.held) \in Nat /\ Reads(p.rest, h + Len(p.held)) /\ h + Len(p.held) + Len(p.rest) = to
  BY ParserParts DEF Lies
<1> HIDE DEF h
<1>3. /\ b \in Byte /\ rest \in Seq(Byte) /\ <<b>> \in Seq(Byte)
      /\ Reads(<<b>>, h + Len(p.held)) /\ Reads(rest, h + Len(p.held) + 1)
      /\ Len(rest) = Len(p.rest) - 1 /\ Len(p.rest) \in Nat \ {0}
  BY <1>2, ParserParts, HeadsRead
<1>4. h + Len(p.held) + 1 + Len(rest) = to
  <2>1. \A x \in Nat, n \in Nat \ {0} : x + 1 + (n - 1) = x + n
    OBVIOUS
  <2> QED  BY <1>2, <1>3, <2>1
<1> HIDE DEF b, rest
<1>5. CASE p.held # <<>>
  <2> DEFINE esc == <<"ESC">>
             empty == <<>>
  <2>1. p.held = esc /\ esc \in Seq(Byte) /\ Len(esc) = 1
    <3>1. "ESC" \in Byte
      BY DEF Byte, Boundary, Control
    <3> QED  BY <1>5, <3>1 DEF Layout
  <2>2. \A x : <<"ESC", x>> = esc \o <<x>>
    OBVIOUS
  <2> HIDE DEF esc
  <2>3. Reads(esc \o <<b>>, h) /\ Len(esc \o <<b>>) = 2 /\ esc \o <<b>> \in Seq(Byte)
    <3> DEFINE one == <<b>>
    <3>1. Len(one) = 1 /\ one \in Seq(Byte)
      BY <1>3
    <3>2. Reads(esc, h) /\ Reads(one, h + Len(esc))
      BY <1>1, <1>3, <2>1
    <3> HIDE DEF one
    <3>3. Reads(esc \o one, h) /\ Len(esc \o one) = Len(esc) + Len(one)
      BY <1>1, <2>1, <3>1, <3>2, ReadsJoin
    <3>4. esc \o one \in Seq(Byte)
      BY <2>1, <3>1, ConcatProperties
    <3>5. Len(esc) + Len(one) = 2
      BY <2>1, <3>1
    <3> QED  BY <3>3, <3>4, <3>5 DEF one
  <2>4. Reads(rest, h + 2) /\ h + 2 + Len(rest) = to
    <3>1. Len(p.held) = 1 /\ h + 1 + 1 = h + 2
      BY <1>1, <2>1
    <3> QED  BY <1>3, <1>4, <3>1
  <2>5. ASSUME b = "\\" PROVE Accounts(emit_string_token(p, <<"ESC", "\\">>, rest), p.limit, at, to)
    <3> DEFINE terminator == esc \o <<b>>
    <3>1. terminator = <<"ESC", "\\">>
      BY <2>2, <2>5
    <3>2. terminator \in Seq(Byte) /\ Reads(terminator, h) /\ Len(terminator) = 2
      BY <2>3
    <3> HIDE DEF terminator
    <3>3. Accounts(emit_string_token(p, terminator, rest), p.limit, at, to)
      BY <1>1, <1>3, <2>4, <3>2, EndedStringsAccount DEF h
    <3> QED  BY <3>1, <3>3
  <2>6. ASSUME b = "CAN" PROVE Accounts(abort_string(p, <<"ESC", "CAN">>, rest), p.limit, at, to)
    <3> DEFINE aborting == esc \o <<b>>
    <3>1. aborting = <<"ESC", "CAN">>
      BY <2>2, <2>6
    <3>2. aborting \in Seq(Byte) /\ Reads(aborting, h) /\ Len(aborting) = 2
      BY <2>3
    <3> HIDE DEF aborting
    <3>3. Accounts(abort_string(p, aborting, rest), p.limit, at, to)
      BY <1>1, <1>3, <2>4, <3>2, AbortedStringsAccount DEF h
    <3> QED  BY <3>1, <3>3
  <2>7. Accounts(abort_string(p, <<>>, held_esc_buffer(p)), p.limit, at, to)
    <3> DEFINE again == p.held \o p.rest
    <3>1. /\ again \in Seq(Byte) /\ Reads(again, h) /\ Len(again) = Len(p.held) + Len(p.rest)
      BY <1>1, <1>2, ParserParts, ReadsJoin, ConcatProperties
    <3>2. empty \in Seq(Byte) /\ Len(empty) = 0 /\ Reads(empty, h)
      BY EmptySeq, EmptyReads
    <3>3. held_esc_buffer(p) = again
      BY DEF held_esc_buffer
    <3> HIDE DEF again, empty
    <3>4. h + Len(empty) = h /\ h + Len(empty) + Len(again) = to
      <4>1. \A m, n \in Nat : h + 0 = h /\ h + (m + n) = h + m + n
        BY <1>1
      <4>2. Len(p.held) \in Nat /\ Len(p.rest) \in Nat
        BY ParserParts
      <4>3. h + Len(empty) = h
        BY <1>1, <3>2
      <4>4. h + (Len(p.held) + Len(p.rest)) = h + Len(p.held) + Len(p.rest)
        BY <4>1, <4>2
      <4>5. Len(again) = Len(p.held) + Len(p.rest)
        BY <3>1
      <4>6. h + Len(again) = h + Len(p.held) + Len(p.rest)
        BY <4>4, <4>5
      <4> QED  BY <1>2, <4>3, <4>6
    <3>5. Accounts(abort_string(p, empty, again), p.limit, at, to)
      BY <1>1, <3>1, <3>2, <3>4, AbortedStringsAccount DEF h
    <3> QED  BY <3>3, <3>5 DEF empty
  <2> QED  BY <1>5, <2>5, <2>6, <2>7 DEF consume_string, b, rest
<1>6. CASE p.held = <<>>
  <2>0. h + Len(p.held) = h /\ Len(<<b>>) = 1
    BY <1>1, <1>6, EmptyReads
  <2>1. Reads(<<b>>, h) /\ Reads(rest, h + 1) /\ h + 1 + Len(rest) = to
    BY <1>3, <1>4, <2>0
  <2>2. ASSUME NEW x, b = x
        PROVE  /\ Accounts(emit_string_token(p, <<x>>, rest), p.limit, at, to)
               /\ Accounts(abort_string(p, <<x>>, rest), p.limit, at, to)
    <3> DEFINE ending == <<b>>
    <3>1. ending \in Seq(Byte) /\ Reads(ending, h) /\ Len(ending) = 1 /\ ending = <<x>>
      BY <1>3, <2>0, <2>1, <2>2
    <3> HIDE DEF ending
    <3>2. /\ Accounts(emit_string_token(p, ending, rest), p.limit, at, to)
          /\ Accounts(abort_string(p, ending, rest), p.limit, at, to)
      BY <1>1, <1>3, <2>1, <3>1, EndedStringsAccount, AbortedStringsAccount DEF h
    <3> QED  BY <3>1, <3>2
  <2>3. ASSUME b = "ESC"
        PROVE  Accounts(Outcome([p EXCEPT !.held = <<"ESC">>, !.rest = rest], <<>>), p.limit, at, to)
    <3> DEFINE next == [p EXCEPT !.held = <<"ESC">>, !.rest = rest]
    <3>1. /\ next.kept = p.kept /\ next.mode = p.mode /\ next.dropped = p.dropped
          /\ next.limit = p.limit /\ next.intro = p.intro /\ next.held = <<b>> /\ next.rest = rest
      BY <2>3 DEF Parser
    <3> HIDE DEF next
    <3>2. Lies(next, at, to)
      BY <1>1, <2>0, <2>1, <3>1 DEF Lies, h
    <3>3. Layout(next)
      BY <2>3, <3>1 DEF Layout
    <3>4. Accounts(Outcome(next, <<>>), p.limit, at, to)
      BY <3>1, <3>2, <3>3 DEF Accounts, Outcome
    <3> QED  BY <3>4 DEF next
  <2>4. Accounts(Outcome([push_payload_byte(p, b) EXCEPT !.rest = rest], <<>>), p.limit, at, to)
    <3>1. PICK q \in Parser : q = push_payload_byte(p, b)
      BY <1>3, PushedBytesAreBounded
    <3>2. b = input[h + 1]
      BY <2>1 DEF Reads
    <3>3. /\ Reads(q.kept, at) /\ Len(q.kept) + q.dropped = Len(p.kept) + p.dropped + 1
          /\ q.limit = p.limit /\ q.intro = p.intro /\ q.mode = p.mode /\ q.held = p.held
          /\ q.dropped > 0 => Len(q.kept) - q.intro >= q.limit
      BY <1>1, <1>3, <3>1, <3>2, PushedBytesLie DEF h
    <3> DEFINE next == [q EXCEPT !.rest = rest]
    <3>4. /\ next.kept = q.kept /\ next.mode = q.mode /\ next.dropped = q.dropped
          /\ next.limit = q.limit /\ next.intro = q.intro /\ next.held = q.held /\ next.rest = rest
      BY DEF Parser
    <3> HIDE DEF next
    <3>5. at + Len(q.kept) + q.dropped = h + 1
      <4> DEFINE i == Len(q.kept)
                 j == q.dropped
                 m == Len(p.kept)
                 n == p.dropped
      <4>1. i \in Nat /\ j \in Nat /\ m \in Nat /\ n \in Nat /\ i + j = m + n + 1
        BY <3>3, ParserParts
      <4>2. h = at + m + n
        BY DEF h
      <4> HIDE DEF i, j, m, n
      <4>3. at + i + j = at + m + n + 1
        BY <4>1
      <4> QED  BY <4>2, <4>3 DEF i, j
    <3>6. Lies(next, at, to)
      <4>1. h + 1 + 0 = h + 1
        BY <1>1
      <4> QED  BY <1>6, <2>1, <3>3, <3>4, <3>5, <4>1, EmptyReads DEF Lies
    <3>7. Layout(next)
      BY <1>6, <3>3, <3>4 DEF Layout
    <3>8. Accounts(Outcome(next, <<>>), p.limit, at, to)
      BY <3>3, <3>4, <3>6, <3>7 DEF Accounts, Outcome
    <3> QED  BY <3>1, <3>8 DEF next
  <2> QED  BY <1>6, <2>2, <2>3, <2>4 DEF consume_string, b, rest
<1> QED  BY <1>5, <1>6

\* The flags of a paste token but for that of its first segment.
LastFlags == SUBSET {"final", "terminated"}

LEMMA PasteTokensCover ==
  ASSUME NEW p \in Parser, NEW raw \in Seq(Byte), NEW tail \in Seq(Byte),
         NEW flags \in LastFlags, NEW at \in Nat, Reads(raw, at), Reads(tail, at + Len(raw))
  PROVE  /\ Covers(paste_token(p, raw, tail, flags), at, p.limit)
         /\ paste_token(p, raw, tail, flags) \in Tokens
<1> DEFINE t == paste_token(p, raw, tail, flags)
<1>1. t.raw = raw \o tail /\ t.tail = tail /\ t.dropped = 0
  BY DEF paste_token
<1>2. t \in Tokens
  BY PasteTokens DEF LastFlags
<1> HIDE DEF t
<1>3. /\ Len(raw) \in Nat /\ Len(tail) \in Nat
      /\ Len(t.raw) = Len(raw) + Len(tail)
      /\ \A i \in 1 .. Len(raw) + Len(tail) :
           t.raw[i] = IF i <= Len(raw) THEN raw[i] ELSE tail[i - Len(raw)]
  BY <1>1, LenProperties, ConcatProperties
<1>4. Len(t.raw) - Len(t.tail) = Len(raw)
  BY <1>1, <1>3
<1>5. ASSUME NEW i \in 1 .. Len(raw) PROVE t.raw[i] = input[at + i]
  <2>1. \A k, n \in Nat : \A j \in 1 .. k : j \in 1 .. k + n /\ j <= k
    OBVIOUS
  <2>2. t.raw[i] = raw[i]
    BY <1>3, <2>1
  <2> QED  BY <2>2 DEF Reads
<1>6. \A i \in 1 .. Len(t.tail) : t.raw[Len(raw) + i] = t.tail[i]
  BY <1>1, <1>3
<1>7. at + Len(raw) + t.dropped = at + Len(raw)
  BY <1>1, <1>3
<1> QED
  BY <1>1, <1>2, <1>3, <1>4, <1>5, <1>6, <1>7 DEF Covers, t

LEMMA PasteTokensMeasure ==
  ASSUME NEW p, NEW raw \in Seq(Byte), NEW tail \in Seq(Byte), NEW flags
  PROVE  /\ Len(paste_token(p, raw, tail, flags).raw) = Len(raw) + Len(tail)
         /\ paste_token(p, raw, tail, flags).dropped = 0
<1>1. /\ paste_token(p, raw, tail, flags).raw = raw \o tail
      /\ paste_token(p, raw, tail, flags).dropped = 0
  BY DEF paste_token
<1>2. Len(raw \o tail) = Len(raw) + Len(tail)
  BY ConcatProperties
<1> QED  BY <1>1, <1>2

LEMMA SegmentsAccount ==
  ASSUME NEW p \in Parser, p.mode = "InPaste", Layout(p),
         NEW at \in Nat, NEW to \in Nat, Lies(p, at, to)
  PROVE  Accounts(emit_segment(p), p.limit, at, to)
<1>1. CASE segment_payload_len(p) >= p.limit
  <2> DEFINE next == [p EXCEPT !.kept = <<>>, !.start = 0, !.first = FALSE]
             empty == <<>>
             none == {}
             t == paste_token(p, p.kept, empty, none)
             from == at + Len(t.raw) + t.dropped
  <2>1. /\ next.kept = empty /\ next.mode = p.mode /\ next.dropped = p.dropped
        /\ next.limit = p.limit /\ next.held = p.held /\ next.rest = p.rest
    BY DEF Parser
  <2>2. emit_segment(p) = Outcome(next, <<t>>)
    BY <1>1 DEF emit_segment
  <2> HIDE DEF next
  <2>3. empty \in Seq(Byte) /\ Len(empty) = 0 /\ \A n : Reads(empty, n)
    BY EmptySeq, EmptyReads
  <2>4. none \in LastFlags
    BY DEF LastFlags
  <2> HIDE DEF empty, none
  <2>5. p.kept \in Seq(Byte) /\ Len(p.kept) \in Nat /\ p.dropped = 0 /\ Reads(p.kept, at)
    BY ParserParts DEF Lies, Layout
  <2>6. /\ Covers(t, at, p.limit) /\ t \in Tokens
        /\ Len(t.raw) = Len(p.kept) + Len(empty) /\ t.dropped = 0
    <3>1. Reads(empty, at + Len(p.kept)) /\ empty \in Seq(Byte)
      BY <2>3
    <3>2. Covers(t, at, p.limit) /\ t \in Tokens
      BY <2>4, <2>5, <3>1, PasteTokensCover
    <3>3. Len(t.raw) = Len(p.kept) + Len(empty) /\ t.dropped = 0
      BY <2>5, <3>1, PasteTokensMeasure
    <3> QED  BY <3>2, <3>3
  <2> HIDE DEF t
  <2>7. from + Len(next.kept) + next.dropped = at + Len(p.kept) + p.dropped
    BY <2>1, <2>3, <2>5, <2>6
  <2> HIDE DEF from
  <2>8. Lies(next, from, to)
    BY <2>1, <2>3, <2>7 DEF Lies
  <2>9. Layout(next)
    BY <2>1 DEF Layout
  <2> QED  BY <2>1, <2>2, <2>6, <2>8, <2>9 DEF Accounts, Outcome, from
<1>2. CASE ~ (segment_payload_len(p) >= p.limit)
  BY <1>2 DEF emit_segment, Accounts, Outcome
<1> QED  BY <1>1, <1>2

LEMMA PasteStepAccounts ==
  ASSUME NEW p \in Parser, p.mode = "InPaste", Bounded(p), Layout(p),
         p.rest # <<>>, NEW at \in Nat, NEW to \in Nat, Lies(p, at, to)
  PROVE  Accounts(consume_paste(p), p.limit, at, to)
<1> DEFINE b == Head(p.rest)
           rest == Tail(p.rest)
           candidate == Append(p.held, Head(p.rest))
           n == advance_after_break(candidate)
           h == at + Len(p.kept)
           g == Len(p.held)
<1>1. /\ p.dropped = 0 /\ Len(p.kept) \in Nat /\ p.kept \in Seq(Byte)
      /\ p.held \in Seq(Byte) /\ p.rest \in Seq(Byte) /\ g \in Nat
  BY ParserParts DEF Layout
<1>2. at + Len(p.kept) + p.dropped = h /\ h \in Nat
  BY <1>1
<1>3. /\ Reads(p.kept, at) /\ Reads(p.held, h) /\ Reads(p.rest, h + g)
      /\ h + g + Len(p.rest) = to
  BY <1>2 DEF Lies
<1> HIDE DEF h, g
<1>4. h + g \in Nat
  BY <1>1, <1>2
<1>5. /\ b \in Byte /\ rest \in Seq(Byte) /\ <<b>> \in Seq(Byte)
      /\ Reads(<<b>>, h + g) /\ Reads(rest, h + g + 1)
      /\ Len(rest) = Len(p.rest) - 1 /\ Len(p.rest) \in Nat \ {0}
  BY <1>1, <1>3, <1>4, HeadsRead
<1> HIDE DEF b, rest
<1>6. h + g + 1 + Len(rest) = to
  <2>1. \A x \in Nat, m \in Nat \ {0} : x + 1 + (m - 1) = x + m
    OBVIOUS
  <2> QED  BY <1>3, <1>4, <1>5, <2>1
<1>7. /\ candidate \in Seq(Byte) /\ Len(candidate) = g + 1 /\ Reads(candidate, h)
  <2>1. /\ candidate \in Seq(Byte) /\ Len(candidate) = g + 1 /\ candidate[g + 1] = b
        /\ \A i \in 1 .. g : candidate[i] = p.held[i]
    BY <1>1, <1>5, AppendProperties DEF b, g
  <2>2. b = input[h + (g + 1)]
    <3>1. b = input[h + g + 1]
      BY <1>5 DEF Reads
    <3>2. h + g + 1 = h + (g + 1)
      BY <1>1, <1>2
    <3> QED  BY <3>1, <3>2
  <2> HIDE DEF candidate
  <2>3. ASSUME NEW i \in 1 .. g + 1 PROVE candidate[i] = input[h + i]
    <3>1. i \in 1 .. g \/ i = g + 1
      BY <1>1
    <3>2. \A j \in 1 .. g : p.held[j] = input[h + j]
      BY <1>3 DEF Reads, g
    <3> QED  BY <2>1, <2>2, <3>1, <3>2
  <2> QED  BY <2>1, <2>3 DEF Reads
<1> HIDE DEF candidate
<1>8. CASE candidate \in PasteEnds
  <2> DEFINE flags == {"final", "terminated"}
             t == paste_token(p, p.kept, candidate, flags)
  <2>1. consume_paste(p) = Emit(p, t, rest)
    BY <1>8 DEF consume_paste, candidate, rest
  <2>2. flags \in LastFlags
    BY DEF LastFlags
  <2> HIDE DEF flags
  <2>3. /\ Covers(t, at, p.limit) /\ t \in Tokens
        /\ Len(t.raw) = Len(p.kept) + Len(candidate) /\ t.dropped = 0
    <3>1. Reads(candidate, at + Len(p.kept))
      BY <1>7 DEF h
    <3>2. Covers(t, at, p.limit) /\ t \in Tokens
      BY <1>1, <1>3, <1>7, <2>2, <3>1, PasteTokensCover
    <3>3. Len(t.raw) = Len(p.kept) + Len(candidate) /\ t.dropped = 0
      BY <1>1, <1>7, PasteTokensMeasure
    <3> QED  BY <3>2, <3>3
  <2> HIDE DEF t
  <2>4. at + Len(t.raw) + t.dropped = h + g + 1
    <3> DEFINE k == Len(p.kept)
    <3>1. k \in Nat /\ Len(t.raw) = k + (g + 1) /\ t.dropped = 0 /\ h = at + k
      BY <1>1, <1>7, <2>3 DEF h
    <3> HIDE DEF k
    <3>2. Len(t.raw) \in Nat
      BY <1>1, <3>1
    <3> QED  BY <1>1, <3>1, <3>2
  <2> QED  BY <1>5, <1>6, <2>1, <2>3, <2>4, EmitAccounts
<1>9. CASE candidate \notin PasteEnds
  <2> DEFINE more == Take(candidate, n)
             held == Cut(candidate, n)
             q == [p EXCEPT !.kept = p.kept \o more, !.held = held, !.rest = rest]
  <2>1. Len(p.held) <= 5
    BY DEF Bounded
  <2>2. n \in 0 .. Len(candidate)
    <3>1. Len(candidate) <= 6
      BY <1>1, <1>7, <2>1 DEF g
    <3> QED  BY <1>7, <1>9, <3>1, ShiftsLeaveAPrefix
  <2>3. consume_paste(p) = emit_segment(q)
    BY <1>9 DEF consume_paste, candidate, rest
  <2> HIDE DEF n
  <2>4. /\ more \in Seq(Byte) /\ held \in Seq(Byte)
        /\ Len(more) = n /\ Len(held) = g + 1 - n
    <3>1. /\ Take(candidate, n) \in Seq(Byte) /\ Len(Take(candidate, n)) = n
          /\ Cut(candidate, n) \in Seq(Byte)
          /\ Len(Cut(candidate, n)) = Len(candidate) - n
      BY <1>7, <2>2, TakeAndCut
    <3> QED  BY <1>1, <1>7, <2>2, <3>1
  <2>5. Reads(more, h) /\ Reads(held, h + n)
    BY <1>2, <1>7, <2>2, ReadsSplit
  <2> HIDE DEF more, held
  <2>6. /\ p.kept \o more \in Seq(Byte) /\ Reads(p.kept \o more, at)
        /\ Len(p.kept \o more) = Len(p.kept) + n
    BY <1>1, <1>3, <2>4, <2>5, ReadsJoin, ConcatProperties DEF h
  <2>7. q \in Parser
    BY <1>5, <2>4, <2>6 DEF Parser
  <2>8. /\ q.kept = p.kept \o more /\ q.held = held /\ q.rest = rest
        /\ q.mode = p.mode /\ q.limit = p.limit /\ q.dropped = 0
    BY <1>1 DEF Parser
  <2> HIDE DEF q
  <2>9. n \in Nat /\ n <= g + 1
    BY <1>1, <1>7, <2>2
  <2>10. at + Len(q.kept) + q.dropped = h + n
    <3> DEFINE k == Len(p.kept)
    <3>1. k \in Nat /\ Len(q.kept) = k + n /\ q.dropped = 0 /\ h = at + k
      BY <1>1, <2>6, <2>8 DEF h
    <3> HIDE DEF k
    <3> QED  BY <2>9, <3>1
  <2>11. h + n + Len(held) = h + g + 1
    <3>1. \A m \in Nat : n <= m + 1 => h + n + (m + 1 - n) = h + m + 1
      BY <1>2, <2>9
    <3> QED  BY <1>1, <2>4, <2>9, <3>1
  <2>12. Lies(q, at, to)
    BY <1>5, <1>6, <2>5, <2>6, <2>8, <2>10, <2>11 DEF Lies
  <2>13. Layout(q)
    BY <2>8 DEF Layout
  <2> QED  BY <2>3, <2>7, <2>8, <2>12, <2>13, SegmentsAccount
<1> QED  BY <1>8, <1>9

LEMMA TurnAccounts ==
  ASSUME NEW p \in Parser, Bounded(p), Shape(p), Layout(p), p.rest # <<>>,
         NEW at \in Nat, NEW to \in Nat, Lies(p, at, to)
  PROVE  Accounts(Turn(p), p.limit, at, to)
<1>1. p.mode \in {"Ground", "InString", "InPaste"}
  BY DEF Parser, Mode, Shape
<1>2. CASE p.mode = "Ground"
  <2>1. p.kept = <<>> /\ p.held = <<>> /\ p.dropped = 0
    BY <1>2 DEF Bounded, Layout
  <2>2. Len(p.kept) = 0 /\ Len(p.held) = 0 /\ at + 0 + 0 = at /\ at + 0 = at
    BY <2>1, EmptyReads
  <2>3. Reads(p.rest, at) /\ at + Len(p.rest) = to
    BY <2>1, <2>2 DEF Lies
  <2>4. Fresh(p, at, to)
    BY <2>1, <2>3 DEF Fresh
  <2>5. Steps(p, step(p))
    BY <2>1, StepIsGood
  <2>6. Accounts(step(p), p.limit, at, to)
    BY <2>4, <2>5 DEF Steps
  <2> QED  BY <1>2, <2>6 DEF Turn
<1>3. CASE p.mode = "InString"
  <2>1. Accounts(consume_string(p), p.limit, at, to)
    BY <1>3, StringStepAccounts DEF Shape
  <2> QED  BY <1>3, <2>1 DEF Turn
<1>4. CASE p.mode = "InPaste"
  <2>1. Accounts(consume_paste(p), p.limit, at, to)
    BY <1>4, PasteStepAccounts
  <2> QED  BY <1>4, <2>1 DEF Turn
<1> QED  BY <1>1, <1>2, <1>3, <1>4

\* What a string held when finish was called is its last byte.
LEMMA FlushedStringsAccount ==
  ASSUME NEW p \in Parser, Bounded(p), Shape(p), Layout(p), p.mode = "InString",
         p.rest = <<>>,
         NEW at \in Nat, NEW to \in Nat, Lies(p, at, to)
  PROVE  Accounts(flushed(p), p.limit, at, to)
<1> DEFINE empty == <<>>
<1>1. empty \in Seq(Byte) /\ Len(empty) = 0 /\ \A n : Reads(empty, n)
  BY EmptySeq, EmptyReads
<1>2. p.kind # "none" /\ Reads(p.kept, at) /\ Len(p.rest) = 0
  BY EmptyReads DEF Shape, Lies
<1>3. ASSUME NEW q \in Parser, q.kind # "none", Layout(q), Reads(q.kept, at),
             at + Len(q.kept) + q.dropped = to
      PROVE  Accounts(emit_string_token(q, empty, empty), q.limit, at, to)
  <2> HIDE DEF empty
  <2>1. to + Len(empty) = to /\ to + Len(empty) + Len(empty) = to
    BY <1>1
  <2> QED  BY <1>1, <1>3, <2>1, EndedStringsAccount
<1>4. CASE p.held = <<>>
  <2>1. at + Len(p.kept) + p.dropped = to
    <3>1. Len(p.held) = 0 /\ at + Len(p.kept) + p.dropped \in Nat
      BY <1>4, EmptyReads, ParserParts
    <3> QED  BY <1>2, <3>1 DEF Lies
  <2>2. flushed(p) = emit_string_token(p, empty, empty)
    BY <1>4 DEF flushed
  <2> QED  BY <1>2, <1>3, <2>1, <2>2
<1>5. CASE p.held # <<>>
  <2>1. p.held = <<"ESC">> /\ "ESC" \in Byte /\ Len(p.held) = 1 /\ p.held[1] = "ESC"
    BY <1>5 DEF Layout, Byte, Boundary, Control
  <2>2. PICK q : q = push_payload_byte(p, "ESC")
    OBVIOUS
  <2>3. q \in Parser /\ q.kind # "none"
    BY <1>2, <2>1, <2>2, PushedBytesAreBounded DEF Shape
  <2>4. at + Len(p.kept) + p.dropped + 1 = to
    <3>1. at + Len(p.kept) + p.dropped \in Nat
      BY ParserParts
    <3> QED  BY <1>2, <2>1, <3>1 DEF Lies
  <2>5. "ESC" = input[at + Len(p.kept) + p.dropped + 1]
    BY <2>1 DEF Lies, Reads
  <2>6. /\ Reads(q.kept, at) /\ Len(q.kept) + q.dropped = Len(p.kept) + p.dropped + 1
        /\ q.limit = p.limit /\ q.mode = p.mode /\ q.held = p.held
        /\ q.dropped > 0 => Len(q.kept) - q.intro >= q.limit
    BY <1>2, <2>1, <2>2, <2>5, PushedBytesLie
  <2>7. Layout(q)
    BY <2>1, <2>6 DEF Layout
  <2>8. at + Len(q.kept) + q.dropped = to
    <3> DEFINE i == Len(q.kept)
               j == q.dropped
               m == Len(p.kept)
               n == p.dropped
    <3>1. i \in Nat /\ j \in Nat /\ m \in Nat /\ n \in Nat /\ i + j = m + n + 1
      BY <2>3, <2>6, ParserParts
    <3>2. at + m + n + 1 = to
      BY <2>4
    <3> HIDE DEF i, j, m, n
    <3>3. at + i + j = to
      BY <3>1, <3>2
    <3> QED  BY <3>3 DEF i, j
  <2>9. flushed(p) = emit_string_token(q, empty, empty)
    BY <1>5, <2>2 DEF flushed
  <2>10. Accounts(emit_string_token(q, empty, empty), q.limit, at, to)
    BY <1>3, <2>3, <2>6, <2>7, <2>8
  <2> QED  BY <2>6, <2>9, <2>10
<1> QED  BY <1>4, <1>5

LEMMA FlushAccounts ==
  ASSUME NEW p \in Parser, Bounded(p), Shape(p), Layout(p), p.rest = <<>>,
         NEW at \in Nat, NEW to \in Nat, Lies(p, at, to)
  PROVE  Accounts(flushed(p), p.limit, at, to)
<1> DEFINE empty == <<>>
<1>1. empty \in Seq(Byte) /\ Len(empty) = 0 /\ \A n : Reads(empty, n)
  BY EmptySeq, EmptyReads
<1>2. CASE p.mode = "Ground"
  BY <1>2 DEF flushed, Accounts, Outcome
<1>3. p.mode \in {"Partial", "InPaste"} => p.dropped = 0
  BY DEF Layout
<1>4. /\ Reads(p.kept, at) /\ Reads(p.held, at + Len(p.kept) + p.dropped)
      /\ at + Len(p.kept) + p.dropped + Len(p.held) + 0 = to
  BY EmptyReads DEF Lies
<1>5. p.kept \in Seq(Byte) /\ p.held \in Seq(Byte) /\ Len(p.kept) \in Nat /\ Len(p.held) \in Nat
  BY ParserParts
<1>6. CASE p.mode = "Partial"
  <2>1. PICK type \in TokenType : finish_pending(p) = Token(type, p.kept)
    BY DEF finish_pending, TokenType
  <2> DEFINE t == Token(type, p.kept)
  <2>2. Covers(t, at, p.limit) /\ t.raw = p.kept /\ t.dropped = 0 /\ t \in Tokens
    BY <1>4, <1>5, PlainTokensCover, TokensHaveTheirType
  <2>3. flushed(p) = Emit(p, t, empty)
    BY <1>6, <2>1 DEF flushed
  <2> HIDE DEF t, empty
  <2>4. at + Len(t.raw) + t.dropped + Len(empty) = to
    <3>1. p.held = <<>>
      BY <1>6 DEF Layout
    <3>2. Len(p.held) = 0
      BY <3>1, EmptyReads
    <3> QED  BY <1>1, <1>3, <1>4, <1>5, <1>6, <2>2, <3>2
  <2>5. Reads(empty, at + Len(t.raw) + t.dropped)
    BY <1>1
  <2> QED  BY <1>1, <2>2, <2>3, <2>4, <2>5, EmitAccounts
<1>7. CASE p.mode = "InString"
  BY <1>7, FlushedStringsAccount
<1>8. CASE p.mode = "InPaste"
  <2> DEFINE raw == p.kept \o p.held
             flags == {"final"}
             t == paste_token(p, raw, empty, flags)
  <2>1. /\ raw \in Seq(Byte) /\ Reads(raw, at) /\ Len(raw) = Len(p.kept) + Len(p.held)
    <3>1. at + Len(p.kept) + p.dropped = at + Len(p.kept)
      BY <1>3, <1>5, <1>8
    <3> QED  BY <1>4, <1>5, <3>1, ReadsJoin, ConcatProperties
  <2>2. flushed(p) = Emit(p, t, empty)
    BY <1>8 DEF flushed
  <2>3. flags \in LastFlags
    BY DEF LastFlags
  <2> HIDE DEF raw, flags
  <2>4. Reads(empty, at + Len(raw)) /\ empty \in Seq(Byte)
    BY <1>1
  <2> HIDE DEF empty
  <2>5. Covers(t, at, p.limit) /\ t \in Tokens
    BY <2>1, <2>3, <2>4, PasteTokensCover
  <2>6. Len(t.raw) = Len(raw) + Len(empty) /\ t.dropped = 0
    BY <2>1, <2>4, PasteTokensMeasure
  <2> HIDE DEF t
  <2>7. at + Len(t.raw) + t.dropped + Len(empty) = to
    <3> DEFINE m == Len(p.kept)
               n == Len(p.held)
    <3>1. m \in Nat /\ n \in Nat /\ Len(t.raw) = (m + n) + 0 /\ t.dropped = 0 /\ Len(empty) = 0
      BY <1>1, <1>5, <2>1, <2>6
    <3>2. at + m + 0 + n + 0 = to
      BY <1>3, <1>4, <1>8
    <3> HIDE DEF m, n
    <3>3. Len(t.raw) \in Nat
      BY <3>1
    <3> QED  BY <3>1, <3>2, <3>3
  <2>8. Reads(empty, at + Len(t.raw) + t.dropped)
    BY <1>1 DEF empty
  <2> QED  BY <2>2, <2>4, <2>5, <2>7, <2>8, EmitAccounts
<1> QED  BY <1>2, <1>6, <1>7, <1>8, ParserParts DEF Mode

LEMMA FedLies ==
  ASSUME NEW p \in Parser, Bounded(p), Layout(p), p.rest = <<>>,
         NEW chunk \in Seq(Byte), NEW at \in Nat, NEW to \in Nat, Lies(p, at, to),
         Reads(chunk, to)
  PROVE  /\ Lies(fed_with(p, chunk), at, to + Len(chunk))
         /\ Layout(fed_with(p, chunk)) /\ fed_with(p, chunk).limit = p.limit
<1>1. /\ Reads(p.kept, at) /\ Reads(p.held, at + Len(p.kept) + p.dropped)
      /\ at + Len(p.kept) + p.dropped + Len(p.held) + 0 = to
  BY EmptyReads DEF Lies
<1>2. /\ Len(p.kept) \in Nat /\ Len(p.held) \in Nat /\ p.dropped \in Nat
      /\ p.kept \in Seq(Byte) /\ Len(chunk) \in Nat
  BY ParserParts, LenProperties
<1>3. CASE p.mode = "Partial"
  <2> DEFINE rest == p.kept \o chunk
             next == Ground(p.limit, rest)
  <2>1. p.dropped = 0 /\ Len(p.held) = 0
    BY <1>3, EmptyReads DEF Layout
  <2>2. at + Len(p.kept) = to
    BY <1>1, <1>2, <2>1
  <2>3. Reads(rest, at) /\ Len(rest) = Len(p.kept) + Len(chunk)
    BY <1>1, <1>2, <2>2, ReadsJoin
  <2>4. fed_with(p, chunk) = next
    BY <1>3 DEF fed_with
  <2>5. /\ next.limit = p.limit /\ next.mode = "Ground" /\ next.kept = <<>> /\ next.held = <<>>
        /\ next.dropped = 0 /\ next.rest = rest
    BY DEF Ground
  <2> HIDE DEF rest, next
  <2>6. at + 0 + 0 = at /\ at + 0 = at /\ at + Len(rest) = to + Len(chunk)
    <3>1. \A m, n \in Nat : at + (m + n) = at + m + n
      OBVIOUS
    <3>2. at + (Len(p.kept) + Len(chunk)) = at + Len(p.kept) + Len(chunk)
      BY <1>2, <3>1
    <3> QED  BY <2>2, <2>3, <3>2
  <2>7. Lies(next, at, to + Len(chunk))
    BY <2>3, <2>5, <2>6, EmptyReads DEF Lies
  <2>8. Layout(next)
    BY <2>5 DEF Layout
  <2> QED  BY <2>4, <2>5, <2>7, <2>8
<1>4. CASE p.mode # "Partial"
  <2> DEFINE next == [p EXCEPT !.rest = chunk]
  <2>1. fed_with(p, chunk) = next
    BY <1>4 DEF fed_with
  <2>2. /\ next.kept = p.kept /\ next.mode = p.mode /\ next.dropped = p.dropped
        /\ next.limit = p.limit /\ next.intro = p.intro /\ next.held = p.held
        /\ next.rest = chunk
    BY DEF Parser
  <2> HIDE DEF next
  <2>3. at + Len(p.kept) + p.dropped + Len(p.held) = to
    BY <1>1, <1>2
  <2>4. Lies(next, at, to + Len(chunk))
    BY <1>1, <2>2, <2>3 DEF Lies
  <2>5. Layout(next)
    BY <2>2 DEF Layout
  <2> QED  BY <2>1, <2>2, <2>4, <2>5
<1> QED  BY <1>3, <1>4

-----------------------------------------------------------------------------
(***************************************************************************)
(* Where the tokens end.  The recursive function of ends has a value at    *)
(* each index: what is so at 0 and goes on to the next index is so at all. *)
(***************************************************************************)
LEMMA CountingUp ==
  ASSUME NEW N \in Nat, NEW P \in SUBSET (0 .. N),
         0 \in P, \A n \in 1 .. N : n - 1 \in P => n \in P
  PROVE  P = 0 .. N
<1> SUFFICES ASSUME P # 0 .. N PROVE FALSE
  OBVIOUS
<1> DEFINE S == (0 .. N) \ P
<1>1. S \in SUBSET Nat /\ S # {}
  <2>1. PICK x \in 0 .. N : x \notin P
    OBVIOUS
  <2>2. x \in S
    BY <2>1
  <2> QED  BY <2>2
<1>2. PICK n \in S : \A m \in S : n <= m
  <2> HIDE DEF S
  <2> QED  BY <1>1, LeastElement
<1>3. n \in 1 .. N /\ n \notin P
  BY <1>2
<1>4. n - 1 \notin P
  BY <1>3
<1>5. n - 1 \in S
  BY <1>3, <1>4
<1> QED
  BY <1>2, <1>3, <1>5

LEMMA EndsRun ==
  ASSUME NEW some, Len(some) \in Nat
  PROVE  /\ ends(some)[0] = 0
         /\ \A i \in 1 .. Len(some) :
              ends(some)[i] = ends(some)[i - 1] + Len(some[i].raw) + some[i].dropped
<1> DEFINE N == Len(some)
           E(f, m) == f = [i \in 0 .. m |-> IF i = 0 THEN 0
                             ELSE f[i - 1] + Len(some[i].raw) + some[i].dropped]
           P == {m \in 0 .. N : \E f : E(f, m)}
<1>1. 0 \in P
  <2>1. E([i \in 0 .. 0 |-> 0], 0)
    OBVIOUS
  <2> HIDE DEF E
  <2> QED  BY <2>1
<1>2. ASSUME NEW m \in 1 .. N, m - 1 \in P
      PROVE  m \in P
  <2>1. PICK f : E(f, m - 1)
    BY <1>2
  <2> DEFINE g == [i \in 0 .. m |-> IF i = m THEN f[m - 1] + Len(some[m].raw) + some[m].dropped
                                    ELSE f[i]]
  <2>2. E(g, m)
    <3>1. ASSUME NEW i \in 0 .. m
          PROVE  g[i] = IF i = 0 THEN 0
                        ELSE g[i - 1] + Len(some[i].raw) + some[i].dropped
      BY <2>1
    <3> QED  BY <3>1
  <2> HIDE DEF E
  <2> QED  BY <2>2
<1>3. P = 0 .. N
  <2>1. P \in SUBSET (0 .. N)
    OBVIOUS
  <2> HIDE DEF P
  <2> QED  BY <1>1, <1>2, <2>1, CountingUp
<1>4. \E f : E(f, N)
  <2> HIDE DEF E
  <2> QED  BY <1>3
<1> DEFINE f == CHOOSE f : E(f, N)
<1>5. E(f, N)
  <2> HIDE DEF E
  <2> QED  BY <1>4
<1>6. ends(some) = f
  BY DEF ends
<1>7. /\ f[0] = 0
      /\ \A i \in 1 .. N : f[i] = f[i - 1] + Len(some[i].raw) + some[i].dropped
  <2> HIDE DEF f
  <2> QED  BY <1>5
<1> QED
  BY <1>6, <1>7

LEMMA TokenParts ==
  ASSUME NEW t \in Tokens
  PROVE  /\ t.raw \in Seq(Byte) /\ t.tail \in Seq(Byte) /\ Len(t.raw) \in Nat
         /\ Len(t.tail) \in Nat /\ t.dropped \in Nat
BY LenProperties DEF Tokens

LEMMA EndsGrow ==
  ASSUME NEW some \in Seq(Tokens)
  PROVE  \A n \in 0 .. Len(some) :
           ends(some)[n] \in Nat /\ \A i \in 0 .. n : ends(some)[i] <= ends(some)[n]
<1> DEFINE N == Len(some)
           at == ends(some)
           P == {n \in 0 .. N : at[n] \in Nat /\ \A i \in 0 .. n : at[i] \in Nat /\ at[i] <= at[n]}
<1>1. N \in Nat /\ \A i \in 1 .. N : some[i] \in Tokens
  BY LenProperties, ElementOfSeq
<1>2. at[0] = 0 /\ \A i \in 1 .. N : at[i] = at[i - 1] + Len(some[i].raw) + some[i].dropped
  BY <1>1, EndsRun
<1> HIDE DEF N, at
<1>3. 0 \in P
  BY <1>1, <1>2
<1>4. ASSUME NEW n \in 1 .. N, n - 1 \in P PROVE n \in P
  <2>1. at[n - 1] \in Nat /\ \A i \in 0 .. n - 1 : at[i] \in Nat /\ at[i] <= at[n - 1]
    BY <1>4
  <2>2. Len(some[n].raw) \in Nat /\ some[n].dropped \in Nat
    BY <1>1, TokenParts
  <2>3. at[n] \in Nat /\ at[n - 1] <= at[n]
    BY <1>2, <2>1, <2>2
  <2>4. ASSUME NEW i \in 0 .. n PROVE at[i] \in Nat /\ at[i] <= at[n]
    <3>1. i \in 0 .. n - 1 \/ i = n
      BY <1>1
    <3> QED  BY <2>1, <2>3, <3>1
  <2> QED  BY <1>1, <2>3, <2>4
<1>5. P = 0 .. N
  <2>1. P \in SUBSET (0 .. N)
    OBVIOUS
  <2> HIDE DEF P
  <2> QED  BY <1>1, <1>3, <1>4, <2>1, CountingUp
<1>6. \A n \in 0 .. N : at[n] \in Nat /\ \A i \in 0 .. n : at[i] <= at[n]
  BY <1>5
<1> QED  BY <1>6 DEF N, at

\* One more token ends behind the others, which end where they did.
LEMMA EndsOfOneMore ==
  ASSUME NEW some \in Seq(Tokens), NEW t \in Tokens
  PROVE  /\ Len(some \o <<t>>) = Len(some) + 1 /\ (some \o <<t>>)[Len(some) + 1] = t
         /\ \A i \in 1 .. Len(some) : (some \o <<t>>)[i] = some[i]
         /\ \A i \in 0 .. Len(some) : ends(some \o <<t>>)[i] = ends(some)[i]
         /\ ends(some \o <<t>>)[Len(some) + 1]
              = ends(some)[Len(some)] + Len(t.raw) + t.dropped
<1> DEFINE N == Len(some)
           one == <<t>>
           more == some \o one
           at == ends(some)
           next == ends(more)
           P == {n \in 0 .. N : next[n] = at[n]}
<1>1. N \in Nat /\ \A i \in 1 .. N : some[i] \in Tokens
  BY LenProperties, ElementOfSeq
<1>2. one \in Seq(Tokens) /\ Len(one) = 1 /\ one[1] = t
  OBVIOUS
<1> HIDE DEF one
<1>3. /\ more \in Seq(Tokens) /\ Len(more) = N + 1
      /\ \A i \in 1 .. N + 1 : more[i] = IF i <= N THEN some[i] ELSE one[i - N]
  <2>1. /\ some \o one \in Seq(Tokens) /\ Len(some \o one) = Len(some) + Len(one)
        /\ \A i \in 1 .. Len(some) + Len(one) :
             (some \o one)[i] = IF i <= Len(some) THEN some[i] ELSE one[i - Len(some)]
    BY <1>2, ConcatProperties
  <2> QED  BY <1>2, <2>1
<1> HIDE DEF N, more
<1>4. more[N + 1] = t /\ \A i \in 1 .. N : more[i] = some[i]
  <2>1. N + 1 \in 1 .. N + 1 /\ ~ (N + 1 <= N) /\ N + 1 - N = 1
    BY <1>1
  <2>2. \A i \in 1 .. N : i \in 1 .. N + 1 /\ i <= N
    BY <1>1
  <2>3. more[N + 1] = one[N + 1 - N]
    BY <1>1, <1>3, <2>1
  <2>4. \A i \in 1 .. N : more[i] = some[i]
    BY <1>3, <2>2
  <2> QED  BY <1>2, <2>1, <2>3, <2>4
<1>5. at[0] = 0 /\ \A i \in 1 .. N : at[i] = at[i - 1] + Len(some[i].raw) + some[i].dropped
  BY <1>1, EndsRun DEF N
<1>6. /\ next[0] = 0
      /\ \A i \in 1 .. N + 1 : next[i] = next[i - 1] + Len(more[i].raw) + more[i].dropped
  <2>1. Len(more) \in Nat
    BY <1>1, <1>3
  <2> QED  BY <1>3, <2>1, EndsRun
<1> HIDE DEF at, next
<1>7. 0 \in P
  BY <1>1, <1>5, <1>6
<1>8. ASSUME NEW n \in 1 .. N, n - 1 \in P PROVE n \in P
  <2>1. n \in 1 .. N + 1
    BY <1>1
  <2> QED  BY <1>4, <1>5, <1>6, <1>8, <2>1
<1>9. P = 0 .. N
  <2>1. P \in SUBSET (0 .. N)
    OBVIOUS
  <2> HIDE DEF P
  <2> QED  BY <1>1, <1>7, <1>8, <2>1, CountingUp
<1>10. \A i \in 0 .. N : next[i] = at[i]
  BY <1>9
<1>11. next[N + 1] = at[N] + Len(t.raw) + t.dropped
  <2>1. N + 1 \in 1 .. N + 1 /\ N + 1 - 1 = N /\ N \in 0 .. N
    BY <1>1
  <2> QED  BY <1>4, <1>6, <1>10, <2>1
<1> QED  BY <1>3, <1>4, <1>10, <1>11 DEF N, at, next, more, one

LEMMA PiecesOfInput ==
  ASSUME input \in Seq(Byte), NEW at \in Nat, NEW n \in Nat, at + n <= Len(input)
  PROVE  /\ SubSeq(input, at + 1, at + n) \in Seq(Byte)
         /\ Len(SubSeq(input, at + 1, at + n)) = n
         /\ \A i \in 1 .. n : SubSeq(input, at + 1, at + n)[i] = input[at + i]
<1> DEFINE from == at + 1
           to == at + n
           piece == SubSeq(input, from, to)
<1>1. Len(input) \in Nat /\ \A i \in 1 .. Len(input) : input[i] \in Byte
  BY LenProperties, ElementOfSeq
<1>2. from \in Int /\ to \in Int /\ \A i \in from .. to : i \in 1 .. Len(input)
  BY <1>1
<1>3. /\ (IF from <= to THEN to - from + 1 ELSE 0) = n /\ to - from + 1 = n
      /\ \A i \in 1 .. n : from + i - 1 = at + i
  OBVIOUS
<1> HIDE DEF from, to
<1>4. \A i \in from .. to : input[i] \in Byte
  BY <1>1, <1>2
<1>5. /\ piece \in Seq(Byte) /\ Len(piece) = IF from <= to THEN to - from + 1 ELSE 0
      /\ \A i \in 1 .. to - from + 1 : piece[i] = input[from + i - 1]
  BY <1>2, <1>4, SubSeqProperties
<1> HIDE DEF piece
<1>6. piece \in Seq(Byte) /\ Len(piece) = n /\ \A i \in 1 .. n : piece[i] = input[at + i]
  BY <1>3, <1>5
<1> QED  BY <1>6 DEF piece, from, to

\* Bytes that are read in the input are a piece of it.
LEMMA ReadsAPiece ==
  ASSUME input \in Seq(Byte), NEW s \in Seq(Byte), NEW at \in Nat, Reads(s, at),
         at + Len(s) <= Len(input)
  PROVE  s = SubSeq(input, at + 1, at + Len(s))
<1> DEFINE n == Len(s)
           piece == SubSeq(input, at + 1, at + n)
<1>1. n \in Nat
  BY LenProperties
<1>2. piece \in Seq(Byte) /\ Len(piece) = n /\ \A i \in 1 .. n : piece[i] = input[at + i]
  BY <1>1, PiecesOfInput
<1> HIDE DEF piece
<1>3. Len(piece) = n /\ \A i \in 1 .. n : s[i] = piece[i]
  BY <1>2 DEF Reads
<1> QED  BY <1>2, <1>3, SeqEqual DEF piece

LEMMA CoveredTokensSpan ==
  ASSUME input \in Seq(Byte), NEW t \in Tokens, NEW from \in Nat, NEW to \in Nat,
         Covers(t, from, parser.limit), to = from + Len(t.raw) + t.dropped,
         to <= Len(input)
  PROVE  spans(t, from, to)
<1> DEFINE body == Len(t.raw) - Len(t.tail)
           ending == to - Len(t.tail)
           front == SubSeq(input, from + 1, from + body)
<1>1. /\ t.raw \in Seq(Byte) /\ t.tail \in Seq(Byte) /\ Len(t.raw) \in Nat
      /\ Len(t.tail) \in Nat /\ t.dropped \in Nat /\ Len(input) \in Nat
  BY TokenParts, LenProperties
<1>2. /\ body \in Nat
      /\ \A i \in 1 .. body : t.raw[i] = input[from + i]
      /\ \A i \in 1 .. Len(t.tail) : t.raw[body + i] = t.tail[i]
      /\ Reads(t.tail, from + body + t.dropped)
      /\ t.dropped > 0 => t.type \in {"Osc", "Dcs", "Apc"} /\ body >= parser.limit
  BY DEF Covers
<1>3. /\ Len(t.raw) = body + Len(t.tail) /\ ending = from + body + t.dropped
      /\ ending - t.dropped = from + body /\ from + body - from = body
      /\ ending \in Nat /\ from + body \in Nat
      /\ ending + Len(t.tail) = to /\ from + body <= Len(input)
  <2> DEFINE raw == Len(t.raw)
             tail == Len(t.tail)
             lost == t.dropped
             all == Len(input)
  <2>1. raw \in Nat /\ tail \in Nat /\ lost \in Nat /\ all \in Nat
    BY <1>1
  <2>2. raw - tail \in Nat /\ to = from + raw + lost /\ to <= all
    BY <1>2
  <2> HIDE DEF raw, tail, lost, all
  <2>3. /\ raw = raw - tail + tail /\ to - tail = from + (raw - tail) + lost
        /\ to - tail - lost = from + (raw - tail) /\ from + (raw - tail) - from = raw - tail
        /\ to - tail \in Nat /\ from + (raw - tail) \in Nat
        /\ to - tail + tail = to /\ from + (raw - tail) <= all
    BY <2>1, <2>2
  <2> QED  BY <2>3 DEF raw, tail, lost, all
<1> HIDE DEF body, ending
<1>4. t.tail = SubSeq(input, ending + 1, to)
  <2>1. Reads(t.tail, ending)
    BY <1>2, <1>3
  <2> QED  BY <1>1, <1>3, <2>1, ReadsAPiece
<1>5. /\ front \in Seq(Byte) /\ Len(front) = body
      /\ \A i \in 1 .. body : front[i] = input[from + i]
  BY <1>2, <1>3, PiecesOfInput
<1> HIDE DEF front
<1>6. t.raw = front \o t.tail
  <2>1. /\ front \o t.tail \in Seq(Byte) /\ Len(front \o t.tail) = body + Len(t.tail)
        /\ \A i \in 1 .. body + Len(t.tail) :
             (front \o t.tail)[i] = IF i <= body THEN front[i] ELSE t.tail[i - body]
    BY <1>1, <1>5, ConcatProperties
  <2>2. ASSUME NEW i \in 1 .. body + Len(t.tail) PROVE t.raw[i] = (front \o t.tail)[i]
    <3>1. CASE i <= body
      <4>1. i \in 1 .. body
        BY <1>2, <3>1
      <4> QED  BY <1>2, <1>5, <2>1, <3>1, <4>1
    <3>2. CASE ~ (i <= body)
      <4>1. i - body \in 1 .. Len(t.tail) /\ body + (i - body) = i
        BY <1>1, <1>2, <3>2
      <4> QED  BY <1>2, <2>1, <3>2, <4>1
    <3> QED  BY <3>1, <3>2
  <2> QED  BY <1>1, <1>3, <2>1, <2>2, SeqEqual
<1>7. t.raw = SubSeq(input, from + 1, ending - t.dropped) \o SubSeq(input, ending + 1, to)
  BY <1>3, <1>4, <1>6 DEF front
<1>8. t.dropped > 0 => /\ t.type \in {"Osc", "Dcs", "Apc"}
                       /\ ending - t.dropped - from >= parser.limit
  BY <1>2, <1>3
<1> QED  BY <1>4, <1>7, <1>8 DEF spans, ending

-----------------------------------------------------------------------------
(***************************************************************************)
(* The inductive invariant.  A string that is read has its kind, and the   *)
(* buffer of an unfinished prefix is kept only when all bytes were read.   *)
(***************************************************************************)
IInv ==
  /\ TypeOK
  /\ MemoryIsBounded
  /\ Shape(parser)

\* A step that has a good outcome keeps the invariant.
LEMMA TookKeepsInvariant ==
  ASSUME IInv, NEW outcome, Good(outcome), Took(outcome),
         UNCHANGED <<input, fed>>, finished' \in BOOLEAN
  PROVE  IInv'
<1>1. parser' = outcome.parser /\ tokens' = tokens \o outcome.tokens
  BY DEF Took
<1>2. parser' \in Parser /\ MemoryIsBounded' /\ Shape(parser')
  BY <1>1 DEF Good, MemoryIsBounded
<1>3. tokens' \in Seq(Tokens)
  BY <1>1, ConcatProperties DEF Good, IInv, TypeOK
<1> QED  BY <1>2, <1>3 DEF IInv, TypeOK

(***************************************************************************)
(* Every reachable state of the tokenizer has its types, holds no more     *)
(* than its bound and reads a string only with the string's kind known:    *)
(* for all payload limits, all inputs and all chunks they are fed in.      *)
(***************************************************************************)
THEOREM InductiveInvariant == Spec => []IInv
<1>1. Init => IInv
  <2>1. SUFFICES ASSUME Init PROVE IInv
    OBVIOUS
  <2>2. PICK limit \in Limits : parser = Ground(limit, <<>>)
    BY <2>1 DEF Init
  <2>3. Good(Outcome(Ground(limit, <<>>), <<>>))
    BY GroundIsGood, EmptySeq
  <2>4. parser \in Parser /\ MemoryIsBounded /\ Shape(parser)
    BY <2>2, <2>3 DEF Good, Outcome, MemoryIsBounded
  <2>5. tokens \in Seq(Tokens) /\ input \in Seq(Byte)
    BY <2>1, EmptySeq, InputsAssumption DEF Init
  <2>6. fed \in 0 .. Len(input) /\ finished \in BOOLEAN
    <3>1. Len(input) \in Nat
      BY <2>5, LenProperties
    <3>2. fed = 0 /\ finished = FALSE
      BY <2>1 DEF Init
    <3>3. \A n \in Nat : 0 \in 0 .. n
      OBVIOUS
    <3>4. fed \in 0 .. Len(input)
      BY <3>1, <3>2, <3>3
    <3> QED  BY <3>2, <3>4
  <2> QED  BY <2>4, <2>5, <2>6 DEF IInv, TypeOK
<1>2. IInv /\ [Next]_vars => IInv'
  <2> SUFFICES ASSUME IInv, [Next]_vars PROVE IInv'
    OBVIOUS
  <2>1. parser \in Parser /\ Bounded(parser) /\ Shape(parser)
    BY DEF IInv, TypeOK, MemoryIsBounded
  <2>2. input \in Seq(Byte) /\ fed \in 0 .. Len(input) /\ Len(input) \in Nat
    BY LenProperties DEF IInv, TypeOK
  <2>3. CASE feed
    <3>1. PICK n \in 1 .. Len(input) - fed :
            /\ parser' = fed_with(parser, SubSeq(input, fed + 1, fed + n))
            /\ fed' = fed + n
      BY <2>3 DEF feed
    <3>2. fed + n \in 0 .. Len(input)
      BY <2>2, <3>1
    <3>3. SubSeq(input, fed + 1, fed + n) \in Seq(Byte)
      <4>1. fed + 1 \in 1 .. Len(input) + 1
        BY <2>2
      <4>2. fed + n \in fed + 1 - 1 .. Len(input)
        BY <2>2, <3>1, <3>2
      <4> QED  BY <2>2, <4>1, <4>2, SubSeqProperties
    <3>4. /\ parser' \in Parser
          /\ Bounded(parser') /\ Shape(parser')
      BY <2>1, <3>1, <3>3, FedIsGood
    <3>5. tokens' = tokens /\ input' = input /\ finished' = finished
      BY <2>3 DEF feed
    <3> QED  BY <3>1, <3>2, <3>4, <3>5 DEF IInv, TypeOK, MemoryIsBounded
  <2>4. CASE Scan
    <3>1. parser.rest # <<>> /\ Took(Turn(parser)) /\ UNCHANGED <<input, fed, finished>>
      BY <2>4 DEF Scan
    <3>2. Good(Turn(parser))
      BY <2>1, <3>1, TurnIsGood
    <3> QED  BY <3>1, <3>2, TookKeepsInvariant DEF IInv, TypeOK
  <2>5. CASE finish
    <3>1. Took(flushed(parser)) /\ UNCHANGED <<input, fed>> /\ finished' = TRUE
      BY <2>5 DEF finish
    <3>2. Good(flushed(parser))
      BY <2>1, FlushIsGood
    <3> QED  BY <3>1, <3>2, TookKeepsInvariant
  <2>6. CASE UNCHANGED vars
    BY <2>6 DEF vars, IInv, TypeOK, MemoryIsBounded, Bounded, Shape, segment_payload_len
  <2> QED  BY <2>3, <2>4, <2>5, <2>6 DEF Next
<1> QED  BY <1>1, <1>2, PTL DEF Spec

(***************************************************************************)
(* The state of the parser and every token it returns keep their types.    *)
(***************************************************************************)
THEOREM TypeCorrect == Spec => []TypeOK
<1>1. IInv => TypeOK
  BY DEF IInv
<1> QED  BY <1>1, InductiveInvariant, PTL

(***************************************************************************)
(* Whatever the terminal sends, in whatever reads it arrives, the parser   *)
(* retains at most its payload limit of it and a few bytes more.           *)
(***************************************************************************)
THEOREM MemoryStaysBounded == Spec => []MemoryIsBounded
<1>1. IInv => MemoryIsBounded
  BY DEF IInv
<1> QED  BY <1>1, InductiveInvariant, PTL

-----------------------------------------------------------------------------
(***************************************************************************)
(* Reconstruction.  Each token is the bytes behind the one before it, and  *)
(* what the parser keeps, holds and has not read lies behind the last.     *)
(***************************************************************************)
Accounted ==
  LET at == ends(tokens)
  IN  /\ Layout(parser)
      /\ \A i \in 1 .. Len(tokens) : Covers(tokens[i], at[i - 1], parser.limit)
      /\ Lies(parser, at[Len(tokens)], fed)

LEMMA LastEndIsNat ==
  ASSUME TypeOK
  PROVE  /\ Len(tokens) \in Nat /\ ends(tokens)[Len(tokens)] \in Nat
         /\ fed \in Nat /\ fed <= Len(input) /\ Len(input) \in Nat
<1>1. tokens \in Seq(Tokens) /\ input \in Seq(Byte) /\ fed \in 0 .. Len(input)
  BY DEF TypeOK
<1>2. Len(tokens) \in Nat /\ Len(input) \in Nat
  BY <1>1, LenProperties
<1>3. Len(tokens) \in 0 .. Len(tokens)
  BY <1>2
<1>4. ends(tokens)[Len(tokens)] \in Nat
  BY <1>1, <1>3, EndsGrow
<1> QED  BY <1>1, <1>2, <1>4

\* What is so of the parser, the tokens and the input they are read from is
\* so of them as the next state has them.
LEMMA AccountedNext ==
  ASSUME NEW q, NEW some, NEW to,
         parser' = q, tokens' = some, fed' = to, input' = input, Layout(q),
         \A i \in 1 .. Len(some) : Covers(some[i], ends(some)[i - 1], q.limit),
         Lies(q, ends(some)[Len(some)], to)
  PROVE  Accounted'
<1>1. \A i \in 1 .. Len(tokens') : Covers(tokens[i], ends(tokens)[i - 1], parser.limit)'
  BY DEF Covers, Reads
<1>2. Lies(parser, ends(tokens)[Len(tokens)], fed)'
  BY DEF Lies, Reads
<1>3. Layout(parser')
  OBVIOUS
<1> QED  BY <1>1, <1>2, <1>3 DEF Accounted

\* A step whose outcome accounts for the bytes it read keeps the account.
LEMMA TookAccounts ==
  ASSUME TypeOK, Accounted, NEW outcome,
         Accounts(outcome, parser.limit, ends(tokens)[Len(tokens)], fed),
         Took(outcome), UNCHANGED <<input, fed>>
  PROVE  Accounted'
<1> DEFINE N == Len(tokens)
           last == ends(tokens)[N]
<1>1. parser' = outcome.parser /\ tokens' = tokens \o outcome.tokens
  BY DEF Took
<1>2. tokens \in Seq(Tokens) /\ N \in Nat /\ last \in Nat
  BY LastEndIsNat DEF TypeOK
<1>3. outcome.parser.limit = parser.limit /\ Layout(outcome.parser)
  BY DEF Accounts
<1>4. \A i \in 1 .. N : Covers(tokens[i], ends(tokens)[i - 1], parser.limit)
  BY DEF Accounted
<1>5. PICK q, some, to : q = outcome.parser /\ some = tokens \o outcome.tokens /\ to = fed
  OBVIOUS
<1>6. Layout(q) /\ q.limit = parser.limit /\ parser' = q /\ tokens' = some /\ fed' = to
  BY <1>1, <1>3, <1>5
<1>7. /\ \A i \in 1 .. Len(some) : Covers(some[i], ends(some)[i - 1], q.limit)
      /\ Lies(q, ends(some)[Len(some)], to)
  <2>1. CASE outcome.tokens = <<>> /\ Lies(outcome.parser, last, fed)
    <3>1. some = tokens
      BY <1>2, <1>5, <2>1, ConcatEmptySeq
    <3> QED  BY <1>4, <1>5, <1>6, <2>1, <3>1
  <2>2. ASSUME NEW t \in Tokens, outcome.tokens = <<t>>, Covers(t, last, parser.limit),
               Lies(outcome.parser, last + Len(t.raw) + t.dropped, fed)
        PROVE  /\ \A i \in 1 .. Len(some) : Covers(some[i], ends(some)[i - 1], q.limit)
               /\ Lies(q, ends(some)[Len(some)], to)
    <3> DEFINE more == tokens \o <<t>>
    <3>1. some = more
      BY <1>5, <2>2
    <3>2. /\ Len(more) = N + 1 /\ more[N + 1] = t
          /\ \A i \in 1 .. N : more[i] = tokens[i]
          /\ \A i \in 0 .. N : ends(more)[i] = ends(tokens)[i]
          /\ ends(more)[N + 1] = last + Len(t.raw) + t.dropped
      BY <1>2, <2>2, EndsOfOneMore
    <3> HIDE DEF more
    <3>3. ASSUME NEW i \in 1 .. N + 1 PROVE Covers(more[i], ends(more)[i - 1], parser.limit)
      <4>1. CASE i = N + 1
        <5>1. i - 1 = N /\ N \in 0 .. N
          BY <1>2, <4>1
        <5>2. ends(more)[i - 1] = last /\ more[i] = t
          BY <3>2, <4>1, <5>1
        <5> QED  BY <2>2, <5>2
      <4>2. CASE i # N + 1
        <5>1. i \in 1 .. N /\ i - 1 \in 0 .. N
          BY <1>2, <4>2
        <5> QED  BY <1>4, <3>2, <5>1
      <4> QED  BY <4>1, <4>2
    <3>4. Lies(q, ends(more)[Len(more)], to)
      BY <1>5, <2>2, <3>2
    <3> QED  BY <1>6, <3>1, <3>2, <3>3, <3>4
  <2> QED  BY <2>1, <2>2 DEF Accounts
<1> QED  BY <1>6, <1>7, AccountedNext

LEMMA AccountedIsInvariant == Spec => []Accounted
<1>1. Init => Accounted
  <2> SUFFICES ASSUME Init PROVE Accounted
    OBVIOUS
  <2>1. PICK limit \in Limits : parser = Ground(limit, <<>>)
    BY DEF Init
  <2>2. /\ parser.mode = "Ground" /\ parser.kept = <<>> /\ parser.held = <<>>
        /\ parser.dropped = 0 /\ parser.rest = <<>> /\ tokens = <<>> /\ fed = 0
    BY <2>1 DEF Ground, Init
  <2>3. Len(tokens) = 0 /\ Len(tokens) \in Nat /\ \A n : Reads(<<>>, n) /\ Len(<<>>) = 0
    BY <2>2, EmptyReads
  <2>4. ends(tokens)[Len(tokens)] = 0
    BY <2>3, EndsRun
  <2>5. Layout(parser)
    BY <2>2 DEF Layout
  <2>6. Lies(parser, 0, 0)
    BY <2>2, <2>3 DEF Lies
  <2> QED  BY <2>2, <2>3, <2>4, <2>5, <2>6 DEF Accounted
<1>2. IInv /\ Accounted /\ [Next]_vars => Accounted'
  <2> SUFFICES ASSUME IInv, Accounted, [Next]_vars PROVE Accounted'
    OBVIOUS
  <2> DEFINE last == ends(tokens)[Len(tokens)]
  <2>1. TypeOK /\ parser \in Parser /\ Bounded(parser) /\ Shape(parser)
    BY DEF IInv, TypeOK, MemoryIsBounded
  <2>2. Layout(parser) /\ Lies(parser, last, fed)
    BY DEF Accounted
  <2>3. /\ last \in Nat /\ fed \in Nat /\ fed <= Len(input) /\ Len(input) \in Nat
        /\ input \in Seq(Byte)
    BY <2>1, LastEndIsNat DEF TypeOK
  <2>4. CASE feed
    <3>1. PICK n \in 1 .. Len(input) - fed :
            /\ parser' = fed_with(parser, SubSeq(input, fed + 1, fed + n))
            /\ fed' = fed + n
      BY <2>4 DEF feed
    <3>2. tokens' = tokens /\ input' = input /\ parser.rest = <<>>
      BY <2>4 DEF feed
    <3> DEFINE chunk == SubSeq(input, fed + 1, fed + n)
    <3>3. n \in Nat /\ fed + n <= Len(input)
      BY <2>3, <3>1
    <3>4. chunk \in Seq(Byte) /\ Len(chunk) = n /\ Reads(chunk, fed)
      BY <2>3, <3>3, PiecesOfInput DEF Reads
    <3> HIDE DEF chunk
    <3>5. /\ Lies(fed_with(parser, chunk), last, fed + n)
          /\ Layout(fed_with(parser, chunk)) /\ fed_with(parser, chunk).limit = parser.limit
      BY <2>1, <2>2, <2>3, <3>2, <3>4, FedLies
    <3>6. PICK q, some, to : q = fed_with(parser, chunk) /\ some = tokens /\ to = fed + n
      OBVIOUS
    <3>7. parser' = q /\ tokens' = some /\ fed' = to
      BY <3>1, <3>2, <3>6 DEF chunk
    <3>8. Layout(q) /\ Lies(q, ends(some)[Len(some)], to)
      BY <3>5, <3>6
    <3>9. \A i \in 1 .. Len(some) : Covers(some[i], ends(some)[i - 1], q.limit)
      BY <3>5, <3>6 DEF Accounted
    <3> QED  BY <3>2, <3>7, <3>8, <3>9, AccountedNext
  <2>5. CASE Scan
    <3>1. parser.rest # <<>> /\ Took(Turn(parser)) /\ UNCHANGED <<input, fed>>
      BY <2>5 DEF Scan
    <3>2. Accounts(Turn(parser), parser.limit, last, fed)
      BY <2>1, <2>2, <2>3, <3>1, TurnAccounts
    <3> QED  BY <2>1, <3>1, <3>2, TookAccounts
  <2>6. CASE finish
    <3>1. parser.rest = <<>> /\ Took(flushed(parser)) /\ UNCHANGED <<input, fed>>
      BY <2>6 DEF finish
    <3>2. Accounts(flushed(parser), parser.limit, last, fed)
      BY <2>1, <2>2, <2>3, <3>1, FlushAccounts
    <3> QED  BY <2>1, <3>1, <3>2, TookAccounts
  <2>7. CASE UNCHANGED vars
    <3>1. UNCHANGED <<parser, tokens, input, fed>>
      BY <2>7 DEF vars
    <3>2. PICK q, some, to : q = parser /\ some = tokens /\ to = fed
      OBVIOUS
    <3>3. parser' = q /\ tokens' = some /\ fed' = to
      BY <3>1, <3>2
    <3>4. \A i \in 1 .. Len(some) : Covers(some[i], ends(some)[i - 1], q.limit)
      BY <3>2 DEF Accounted
    <3>5. Layout(q) /\ Lies(q, ends(some)[Len(some)], to)
      BY <2>2, <3>2
    <3> QED  BY <3>1, <3>3, <3>4, <3>5, AccountedNext
  <2> QED  BY <2>4, <2>5, <2>6, <2>7 DEF Next
<1> QED  BY <1>1, <1>2, InductiveInvariant, PTL DEF Spec

(***************************************************************************)
(* Reconstruction: however the reads cut what the terminal sends, and at   *)
(* whatever limit, the raw bytes of the tokens and what the parser still   *)
(* keeps are that input, each byte once and in order, but for the bytes a  *)
(* string has counted as dropped when its limit was used up.               *)
(***************************************************************************)
THEOREM EveryByteAccounted == Spec => []EveryByteIsAccountedFor
<1>1. TypeOK /\ Accounted => EveryByteIsAccountedFor
  <2> SUFFICES ASSUME TypeOK, Accounted PROVE EveryByteIsAccountedFor
    OBVIOUS
  <2> DEFINE N == Len(tokens)
             at == ends(tokens)
             last == at[N]
             held_at == last + Len(parser.kept) + parser.dropped
             rest_at == held_at + Len(parser.held)
  <2>1. /\ N \in Nat /\ last \in Nat /\ fed \in Nat /\ fed <= Len(input) /\ Len(input) \in Nat
        /\ input \in Seq(Byte) /\ tokens \in Seq(Tokens)
    BY LastEndIsNat DEF TypeOK
  <2>2. /\ parser.kept \in Seq(Byte) /\ parser.held \in Seq(Byte) /\ parser.rest \in Seq(Byte)
        /\ Len(parser.kept) \in Nat /\ Len(parser.held) \in Nat /\ Len(parser.rest) \in Nat
        /\ parser.dropped \in Nat
    BY ParserParts DEF TypeOK
  <2>3. /\ Reads(parser.kept, last) /\ Reads(parser.held, held_at) /\ Reads(parser.rest, rest_at)
        /\ rest_at + Len(parser.rest) = fed
    BY DEF Accounted, Lies
  <2>4. /\ held_at \in Nat /\ rest_at \in Nat /\ rest_at <= fed /\ last <= fed
        /\ last + Len(parser.kept) <= Len(input) /\ held_at + Len(parser.held) <= Len(input)
        /\ rest_at + Len(parser.rest) <= Len(input)
    <3> DEFINE k == Len(parser.kept)
               d == parser.dropped
               m == Len(parser.held)
               r == Len(parser.rest)
               all == Len(input)
    <3>1. /\ k \in Nat /\ d \in Nat /\ m \in Nat /\ r \in Nat /\ last \in Nat /\ fed \in Nat
          /\ all \in Nat /\ fed <= all /\ last + k + d + m + r = fed
      BY <2>1, <2>2, <2>3
    <3> HIDE DEF k, d, m, r, all, last
    <3>2. /\ last + k + d \in Nat /\ last + k + d + m \in Nat /\ last + k + d + m <= fed
          /\ last <= fed /\ last + k <= all /\ last + k + d + m <= all /\ last + k + d + m + r <= all
      BY <3>1
    <3> QED  BY <3>2 DEF k, d, m, r, all
  <2>5. ASSUME NEW i \in 1 .. N PROVE spans(tokens[i], at[i - 1], at[i])
    <3>1. i \in 0 .. N /\ i - 1 \in 0 .. N /\ N \in 0 .. N
      BY <2>1
    <3>2. tokens[i] \in Tokens /\ at[i - 1] \in Nat /\ at[i] \in Nat /\ at[i] <= last
      BY <2>1, <3>1, EndsGrow, ElementOfSeq
    <3>3. at[i] = at[i - 1] + Len(tokens[i].raw) + tokens[i].dropped
      BY <2>1, EndsRun
    <3>4. Covers(tokens[i], at[i - 1], parser.limit)
      BY DEF Accounted
    <3> HIDE DEF last, at
    <3>5. at[i] <= Len(input)
      BY <2>1, <2>4, <3>2
    <3> QED  BY <2>1, <3>2, <3>3, <3>4, <3>5, CoveredTokensSpan
  <2> HIDE DEF last, held_at
  <2>6. parser.kept = SubSeq(input, last + 1, last + Len(parser.kept))
    BY <2>1, <2>2, <2>3, <2>4, ReadsAPiece
  <2>7. parser.held = SubSeq(input, held_at + 1, rest_at)
    BY <2>1, <2>2, <2>3, <2>4, ReadsAPiece
  <2>8. parser.rest = SubSeq(input, rest_at + 1, fed) /\ rest_at <= fed
    <3> HIDE DEF rest_at
    <3>1. parser.rest = SubSeq(input, rest_at + 1, rest_at + Len(parser.rest))
      BY <2>1, <2>2, <2>3, <2>4, ReadsAPiece
    <3> QED  BY <2>3, <2>4, <3>1
  <2> QED
    BY <2>5, <2>6, <2>7, <2>8 DEF EveryByteIsAccountedFor, last, held_at
<1> QED  BY <1>1, AccountedIsInvariant, TypeCorrect, PTL

-----------------------------------------------------------------------------
LEMMA BytesBehind ==
  ASSUME NEW s \in Seq(Byte), NEW n \in 0 .. Len(s), NEW i \in 1 .. Len(s) - n
  PROVE  Cut(s, n)[i] = s[n + i]
<1>1. Len(s) \in Nat /\ \A j \in n + 1 .. Len(s) : s[j] \in Byte
  BY LenProperties, ElementOfSeq
<1>2. Cut(s, n)[i] = s[n + 1 + i - 1]
  <2>1. i \in 1 .. Len(s) - (n + 1) + 1
    BY <1>1
  <2> QED  BY <1>1, <2>1, SubSeqProperties DEF Cut
<1>3. n + 1 + i - 1 = n + i
  BY <1>1
<1> QED  BY <1>2, <1>3

LEMMA MoreBytes ==
  ASSUME NEW s \in Seq(Byte), NEW c \in Seq(Byte)
  PROVE  /\ s \o c \in Seq(Byte) /\ Len(s \o c) = Len(s) + Len(c)
         /\ Len(s) \in Nat /\ Len(c) \in Nat
         /\ \A i \in 1 .. Len(s) : (s \o c)[i] = s[i]
         /\ \A n \in 0 .. Len(s) : Take(s \o c, n) = Take(s, n) /\ Cut(s \o c, n) = Cut(s, n) \o c
<1>1. /\ s \o c \in Seq(Byte) /\ Len(s \o c) = Len(s) + Len(c)
      /\ Len(s) \in Nat /\ Len(c) \in Nat
      /\ \A i \in 1 .. Len(s) : (s \o c)[i] = s[i]
      /\ \A i \in Len(s) + 1 .. Len(s) + Len(c) : (s \o c)[i] = c[i - Len(s)]
  BY ConcatProperties, LenProperties
<1>2. ASSUME NEW n \in 0 .. Len(s) PROVE Take(s \o c, n) = Take(s, n)
  <2>1. n \in 0 .. Len(s \o c)
    BY <1>1
  <2>2. /\ Take(s \o c, n) \in Seq(Byte) /\ Len(Take(s \o c, n)) = n
        /\ Take(s, n) \in Seq(Byte) /\ Len(Take(s, n)) = n
    BY <1>1, <2>1, TakeAndCut
  <2>3. ASSUME NEW i \in 1 .. n PROVE Take(s \o c, n)[i] = Take(s, n)[i]
    BY <1>1 DEF Take
  <2> QED  BY <2>2, <2>3, SeqEqual
<1>3. ASSUME NEW n \in 0 .. Len(s) PROVE Cut(s \o c, n) = Cut(s, n) \o c
  <2> DEFINE a == Len(s)
             b == Len(c)
  <2>1. n \in 0 .. Len(s \o c)
    BY <1>1
  <2>2. /\ Cut(s \o c, n) \in Seq(Byte) /\ Len(Cut(s \o c, n)) = a + b - n
        /\ Cut(s, n) \in Seq(Byte) /\ Len(Cut(s, n)) = a - n
    <3>1. Cut(s \o c, n) \in Seq(Byte) /\ Len(Cut(s \o c, n)) = Len(s \o c) - n
      BY <1>1, <2>1, TakeAndCut
    <3>2. Cut(s, n) \in Seq(Byte) /\ Len(Cut(s, n)) = Len(s) - n
      BY TakeAndCut
    <3> QED  BY <1>1, <3>1, <3>2
  <2>3. /\ Cut(s, n) \o c \in Seq(Byte) /\ Len(Cut(s, n) \o c) = (a - n) + b
        /\ \A i \in 1 .. a - n : (Cut(s, n) \o c)[i] = Cut(s, n)[i]
        /\ \A i \in a - n + 1 .. a - n + b : (Cut(s, n) \o c)[i] = c[i - (a - n)]
    <3> DEFINE t == Cut(s, n)
    <3>1. t \in Seq(Byte) /\ Len(t) = a - n /\ Len(t) \in Nat /\ a \in Nat /\ b \in Nat /\ n \in Nat
      BY <1>1, <2>2, LenProperties
    <3> HIDE DEF t
    <3>2. /\ t \o c \in Seq(Byte) /\ Len(t \o c) = Len(t) + Len(c)
          /\ \A i \in 1 .. Len(t) + Len(c) : (t \o c)[i] = IF i <= Len(t) THEN t[i] ELSE c[i - Len(t)]
      BY <3>1, ConcatProperties
    <3>3. /\ t \o c \in Seq(Byte) /\ Len(t \o c) = (a - n) + b
          /\ \A i \in 1 .. (a - n) + b : (t \o c)[i] = IF i <= a - n THEN t[i] ELSE c[i - (a - n)]
      BY <3>1, <3>2
    <3>4. \A x, y \in Nat : /\ \A i \in 1 .. x : i \in 1 .. x + y /\ i <= x
                            /\ \A i \in x + 1 .. x + y : i \in 1 .. x + y /\ ~ (i <= x)
      OBVIOUS
    <3>5. a - n \in Nat
      BY <3>1
    <3> HIDE DEF a, b
    <3> QED  BY <3>1, <3>3, <3>4, <3>5 DEF t
  <2>4. a \in Nat /\ b \in Nat /\ n \in 0 .. a /\ Len(s \o c) = a + b
    BY <1>1
  <2>5. ASSUME NEW i \in 1 .. a + b - n PROVE Cut(s \o c, n)[i] = (Cut(s, n) \o c)[i]
    <3>1. Cut(s \o c, n)[i] = (s \o c)[n + i]
      <4>1. i \in 1 .. Len(s \o c) - n
        BY <2>4
      <4> QED  BY <1>1, <2>1, <4>1, BytesBehind
    <3>2. /\ i <= a - n => i \in 1 .. a - n /\ n + i \in 1 .. a
          /\ ~ (i <= a - n) => /\ i \in a - n + 1 .. a - n + b /\ n + i \in a + 1 .. a + b
                               /\ n + i - a = i - (a - n)
      <4> HIDE DEF a, b
      <4> QED  BY <2>4
    <3>3. CASE i <= a - n
      <4>1. Cut(s, n)[i] = s[n + i]
        BY <3>2, <3>3, BytesBehind
      <4> QED  BY <1>1, <2>3, <3>1, <3>2, <3>3, <4>1
    <3>4. CASE ~ (i <= a - n)
      <4>1. (s \o c)[n + i] = c[n + i - a]
        <5>1. n + i \in Len(s) + 1 .. Len(s) + Len(c)
          BY <3>2, <3>4
        <5> QED  BY <1>1, <5>1
      <4> QED  BY <2>3, <3>1, <3>2, <3>4, <4>1
    <3> QED  BY <3>3, <3>4
  <2>6. a + b - n = (a - n) + b
    BY <2>4
  <2> HIDE DEF a, b
  <2> QED  BY <2>2, <2>3, <2>5, <2>6, SeqEqual
<1> QED  BY <1>1, <1>2, <1>3

LEMMA FirstByte ==
  ASSUME NEW s \in Seq(Byte), s # <<>>, NEW c \in Seq(Byte)
  PROVE  /\ s \o c # <<>> /\ Head(s \o c) = Head(s) /\ Tail(s \o c) = Tail(s) \o c
         /\ Head(s) \in Byte /\ Tail(s) \in Seq(Byte) /\ Len(Tail(s)) = Len(s) - 1
         /\ 1 <= Len(s) /\ s[1] = Head(s)
<1>1. /\ Head(s) \in Byte /\ Tail(s) \in Seq(Byte) /\ Len(Tail(s)) = Len(s) - 1
      /\ Len(s) \in Nat /\ s[1] = Head(s)
  BY HeadTailProperties, LenProperties
<1>2. 1 <= Len(s)
  BY <1>1, EmptySeq
<1>3. /\ s \o c \in Seq(Byte) /\ Len(s \o c) = Len(s) + Len(c) /\ Len(c) \in Nat
      /\ (s \o c)[1] = s[1] /\ Cut(s \o c, 1) = Cut(s, 1) \o c
  <2>1. 1 \in 1 .. Len(s) /\ 1 \in 0 .. Len(s)
    BY <1>1, <1>2
  <2> QED  BY <2>1, MoreBytes
<1>4. s \o c # <<>>
  <2>1. Len(s \o c) # 0
    BY <1>1, <1>2, <1>3
  <2> QED  BY <1>3, <2>1, EmptySeq
<1>5. Head(s \o c) = Head(s)
  BY <1>1, <1>3, <1>4, HeadTailProperties
<1>6. ASSUME NEW t \in Seq(Byte), t # <<>> PROVE Tail(t) = Cut(t, 1)
  BY <1>6 DEF Cut
<1>7. Tail(s \o c) = Tail(s) \o c
  BY <1>3, <1>4, <1>6
<1> QED  BY <1>1, <1>2, <1>4, <1>5, <1>7

-----------------------------------------------------------------------------
(***************************************************************************)
(* With more bytes behind it a run that ended ends where it did, and one   *)
(* that had not ended does not end before.                                 *)
(***************************************************************************)
LEMMA RunOfMore ==
  ASSUME NEW s \in Seq(Byte), NEW c \in Seq(Byte), NEW from \in 1 .. Len(s) + 1, NEW class,
         NEW end, end = AfterRun(class, s, from),
         NEW later, later = AfterRun(class, s \o c, from)
  PROVE  end <= later /\ (end <= Len(s) => later = end)
<1>1. /\ s \o c \in Seq(Byte) /\ Len(s \o c) = Len(s) + Len(c)
      /\ Len(s) \in Nat /\ Len(c) \in Nat
      /\ \A i \in 1 .. Len(s) : (s \o c)[i] = s[i]
  BY MoreBytes
<1>2. /\ end \in from .. Len(s) + 1
      /\ \A i \in from .. end - 1 : s[i] \in class
      /\ end <= Len(s) => s[end] \notin class
  BY RunStops
<1>3. /\ later \in from .. Len(s \o c) + 1
      /\ \A i \in from .. later - 1 : (s \o c)[i] \in class
      /\ later <= Len(s \o c) => (s \o c)[later] \notin class
  <2>1. from \in 1 .. Len(s \o c) + 1
    BY <1>1
  <2> QED  BY <1>1, <2>1, RunStops
<1>4. end <= later
  <2> SUFFICES ASSUME later < end PROVE FALSE
    BY <1>1, <1>2, <1>3
  <2>1. later \in 1 .. Len(s) /\ later <= Len(s \o c) /\ later \in from .. end - 1
    BY <1>1, <1>2, <1>3
  <2> QED  BY <1>1, <1>2, <1>3, <2>1
<1>5. ASSUME end <= Len(s) PROVE later = end
  <2> SUFFICES ASSUME end < later PROVE FALSE
    BY <1>1, <1>2, <1>3, <1>4
  <2>1. end \in 1 .. Len(s) /\ end \in from .. later - 1
    BY <1>1, <1>2, <1>3, <1>5
  <2> QED  BY <1>1, <1>2, <1>3, <1>5, <2>1
<1> QED  BY <1>4, <1>5

(***************************************************************************)
(* A prefix that could be judged is judged alike with more bytes behind.   *)
(***************************************************************************)
LEMMA PrefixOfMore ==
  ASSUME NEW s \in Seq(Byte), NEW c \in Seq(Byte), NEW from \in 1 .. Len(s) + 1,
         NEW limit \in Nat, scan_control_prefix(s, from, limit).ends # "NeedMore"
  PROVE  scan_control_prefix(s \o c, from, limit) = scan_control_prefix(s, from, limit)
<1> DEFINE m == AfterRun(Marker, s, from)
           q == AfterRun(Param, s, m)
           end == AfterRun(Intermediate, s, q)
           m2 == AfterRun(Marker, s \o c, from)
           q2 == AfterRun(Param, s \o c, m2)
           end2 == AfterRun(Intermediate, s \o c, q2)
           Ends(t, e) ==
             IF e - from > limit THEN [ends |-> "Overflow", at |-> from + limit]
             ELSE IF e > Len(t) THEN [ends |-> "NeedMore", at |-> e]
             ELSE IF t[e] \in Final THEN [ends |-> "Complete", at |-> e + 1]
             ELSE [ends |-> "Aborted", at |-> IF t[e] = "CAN" THEN e + 1 ELSE e]
<1>1. /\ s \o c \in Seq(Byte) /\ Len(s \o c) = Len(s) + Len(c)
      /\ Len(s) \in Nat /\ Len(c) \in Nat
      /\ \A i \in 1 .. Len(s) : (s \o c)[i] = s[i]
  BY MoreBytes
<1>2. /\ scan_control_prefix(s, from, limit) = Ends(s, end)
      /\ scan_control_prefix(s \o c, from, limit) = Ends(s \o c, end2)
  BY DEF scan_control_prefix
<1>3. m \in from .. Len(s) + 1 /\ m2 \in from .. Len(s \o c) + 1
  <2>1. from \in 1 .. Len(s \o c) + 1
    BY <1>1
  <2> QED  BY <1>1, <2>1, RunStops
<1>4. m <= m2 /\ (m <= Len(s) => m2 = m)
  BY <1>1, RunOfMore
<1>5. q \in m .. Len(s) + 1 /\ q2 \in m2 .. Len(s \o c) + 1
  <2> HIDE DEF m, m2
  <2>1. m \in 1 .. Len(s) + 1 /\ m2 \in 1 .. Len(s \o c) + 1
    BY <1>1, <1>3
  <2> QED  BY <1>1, <2>1, RunStops
<1>6. q <= q2 /\ (q <= Len(s) => q2 = q)
  <2> HIDE DEF m, m2
  <2>1. CASE m <= Len(s)
    <3>1. m2 = m /\ m \in 1 .. Len(s) + 1
      BY <1>1, <1>3, <1>4, <2>1
    <3> QED  BY <1>1, <3>1, RunOfMore
  <2>2. CASE ~ (m <= Len(s))
    <3> HIDE DEF q, q2
    <3> QED  BY <1>1, <1>3, <1>4, <1>5, <2>2
  <2> QED  BY <2>1, <2>2
<1>7. end \in q .. Len(s) + 1 /\ end2 \in q2 .. Len(s \o c) + 1
  <2> HIDE DEF q, q2, m, m2
  <2>1. q \in 1 .. Len(s) + 1 /\ q2 \in 1 .. Len(s \o c) + 1
    BY <1>1, <1>3, <1>5
  <2> QED  BY <1>1, <2>1, RunStops
<1>8. end <= end2 /\ (end <= Len(s) => end2 = end)
  <2> HIDE DEF q, q2, m, m2
  <2>1. CASE q <= Len(s)
    <3>1. q2 = q /\ q \in 1 .. Len(s) + 1
      BY <1>1, <1>3, <1>5, <1>6, <2>1
    <3> QED  BY <1>1, <3>1, RunOfMore
  <2>2. CASE ~ (q <= Len(s))
    <3> HIDE DEF end, end2
    <3> QED  BY <1>1, <1>3, <1>5, <1>6, <1>7, <2>2
  <2> QED  BY <2>1, <2>2
<1> HIDE DEF end, end2, q, q2, m, m2
<1>9. from \in Nat /\ end \in Nat /\ end2 \in Nat /\ from <= end
  BY <1>1, <1>3, <1>5, <1>7
<1>10. Ends(s, end).ends # "NeedMore"
  BY <1>2
<1>11. CASE end - from > limit
  <2>1. end2 - from > limit
    BY <1>8, <1>9, <1>11
  <2> QED  BY <1>2, <1>11, <2>1
<1>12. CASE ~ (end - from > limit)
  <2>1. ~ (end > Len(s))
    BY <1>10, <1>12
  <2>2. end2 = end /\ (s \o c)[end] = s[end] /\ ~ (end > Len(s \o c))
    <3>1. end \in 1 .. Len(s)
      BY <1>1, <1>3, <1>5, <1>7, <2>1
    <3> QED  BY <1>1, <1>8, <3>1
  <2> QED  BY <1>2, <1>12, <2>1, <2>2
<1> QED  BY <1>11, <1>12

-----------------------------------------------------------------------------
(***************************************************************************)
(* A parser with more bytes behind those it was fed.  Its turn on the      *)
(* longer input is the same turn, or on the shorter one it only waits for  *)
(* what is behind.                                                         *)
(***************************************************************************)
Extended(p, c) ==
  IF p.mode = "Partial" THEN Ground(p.limit, p.kept \o c) ELSE [p EXCEPT !.rest = @ \o c]

Agree(p, o, longer, c) ==
  \/ longer = Outcome(Extended(o.parser, c), o.tokens)
  \/ o.tokens = <<>> /\ Extended(o.parser, c) = Extended(p, c)

LEMMA SameParser ==
  ASSUME NEW p \in Parser, NEW q \in Parser,
         p.limit = q.limit, p.mode = q.mode, p.kind = q.kind, p.kept = q.kept,
         p.intro = q.intro, p.start = q.start, p.dropped = q.dropped, p.held = q.held,
         p.first = q.first, p.rest = q.rest
  PROVE  p = q
<1> DEFINE Parts(r) ==
      [ limit |-> r.limit, mode |-> r.mode, kind |-> r.kind, kept |-> r.kept,
        intro |-> r.intro, start |-> r.start, dropped |-> r.dropped, held |-> r.held,
        first |-> r.first, rest |-> r.rest ]
<1>1. ASSUME NEW r \in Parser PROVE r = Parts(r)
  BY DEF Parser
<1>2. Parts(p) = Parts(q)
  OBVIOUS
<1> QED  BY <1>1, <1>2

IsGround(p, limit, rest) ==
  /\ p \in Parser /\ p.limit = limit /\ p.rest = rest
  /\ p.mode = "Ground" /\ p.kind = "none" /\ p.kept = <<>> /\ p.intro = 0
  /\ p.start = 0 /\ p.dropped = 0 /\ p.held = <<>> /\ p.first = FALSE

LEMMA GroundParts ==
  ASSUME NEW limit \in Limits, NEW rest \in Seq(Byte)
  PROVE  IsGround(Ground(limit, rest), limit, rest)
<1>1. Ground(limit, rest) \in Parser
  BY GroundIsGood DEF Good, Outcome
<1> QED  BY <1>1 DEF Ground, IsGround

LEMMA ExtendedParts ==
  ASSUME NEW p \in Parser, p.mode # "Partial", NEW c \in Seq(Byte), NEW q, q = Extended(p, c)
  PROVE  /\ q \in Parser /\ q.rest = p.rest \o c
         /\ q.limit = p.limit /\ q.mode = p.mode /\ q.kind = p.kind /\ q.kept = p.kept
         /\ q.intro = p.intro /\ q.start = p.start /\ q.dropped = p.dropped
         /\ q.held = p.held /\ q.first = p.first
<1>1. p.rest \o c \in Seq(Byte)
  BY ConcatProperties, ParserParts
<1>2. q = [p EXCEPT !.rest = p.rest \o c]
  BY DEF Extended
<1> QED  BY <1>1, <1>2 DEF Parser

\* A parser that differs in the bytes behind those not read.
LEMMA SameButForTheRest ==
  ASSUME NEW a \in Parser, NEW b \in Parser, NEW c \in Seq(Byte), a.mode # "Partial",
         a.limit = b.limit, a.mode = b.mode, a.kind = b.kind, a.kept = b.kept,
         a.intro = b.intro, a.start = b.start, a.dropped = b.dropped, a.held = b.held,
         a.first = b.first, b.rest = a.rest \o c
  PROVE  b = Extended(a, c)
<1> DEFINE x == Extended(a, c)
<1>1. /\ x \in Parser /\ x.rest = a.rest \o c
      /\ x.limit = a.limit /\ x.mode = a.mode /\ x.kind = a.kind /\ x.kept = a.kept
      /\ x.intro = a.intro /\ x.start = a.start /\ x.dropped = a.dropped
      /\ x.held = a.held /\ x.first = a.first
  BY ExtendedParts
<1> HIDE DEF x
<1>2. /\ x.limit = b.limit /\ x.mode = b.mode /\ x.kind = b.kind /\ x.kept = b.kept
      /\ x.intro = b.intro /\ x.start = b.start /\ x.dropped = b.dropped /\ x.held = b.held
      /\ x.first = b.first /\ x.rest = b.rest
  BY <1>1
<1>3. x = b
  BY <1>1, <1>2, SameParser
<1> QED  BY <1>3 DEF x

LEMMA GroundExtends ==
  ASSUME NEW limit \in Limits, NEW rest \in Seq(Byte), NEW c \in Seq(Byte)
  PROVE  Extended(Ground(limit, rest), c) = Ground(limit, rest \o c)
<1>1. rest \o c \in Seq(Byte)
  BY ConcatProperties
<1>2. PICK p, q, r : p = Ground(limit, rest) /\ q = Ground(limit, rest \o c) /\ r = Extended(p, c)
  OBVIOUS
<1>3. IsGround(p, limit, rest)
  <2>1. IsGround(Ground(limit, rest), limit, rest)
    BY GroundParts
  <2> QED  BY <1>2, <2>1
<1>4. IsGround(q, limit, rest \o c)
  <2>1. IsGround(Ground(limit, rest \o c), limit, rest \o c)
    BY <1>1, GroundParts
  <2> QED  BY <1>2, <2>1
<1>5. /\ r \in Parser /\ r.rest = p.rest \o c
      /\ r.limit = p.limit /\ r.mode = p.mode /\ r.kind = p.kind /\ r.kept = p.kept
      /\ r.intro = p.intro /\ r.start = p.start /\ r.dropped = p.dropped
      /\ r.held = p.held /\ r.first = p.first
  <2>1. p \in Parser /\ p.mode # "Partial"
    BY <1>3 DEF IsGround
  <2>2. r = Extended(p, c)
    BY <1>2
  <2> QED  BY <2>1, <2>2, ExtendedParts
<1>6. /\ r.limit = q.limit /\ r.mode = q.mode /\ r.kind = q.kind /\ r.kept = q.kept
      /\ r.intro = q.intro /\ r.start = q.start /\ r.dropped = q.dropped /\ r.held = q.held
      /\ r.first = q.first /\ r.rest = q.rest
  BY <1>3, <1>4, <1>5 DEF IsGround
<1>7. r = q
  BY <1>4, <1>5, <1>6, SameParser DEF IsGround
<1> QED  BY <1>2, <1>7

LEMMA EmitAgrees ==
  ASSUME NEW p, p.limit \in Limits, NEW q, q.limit = p.limit, NEW t,
         NEW rest \in Seq(Byte), NEW c \in Seq(Byte)
  PROVE  Agree(p, Emit(p, t, rest), Emit(q, t, rest \o c), c)
<1>1. Emit(p, t, rest).parser = Ground(p.limit, rest) /\ Emit(p, t, rest).tokens = <<t>>
  BY DEF Emit, Outcome
<1>2. Emit(q, t, rest \o c) = Outcome(Ground(p.limit, rest \o c), <<t>>)
  BY DEF Emit
<1> QED  BY <1>1, <1>2, GroundExtends DEF Agree

LEMMA StepEmitAgrees ==
  ASSUME NEW p, p.limit \in Limits, NEW q, NEW c \in Seq(Byte), p.rest \in Seq(Byte),
         q.limit = p.limit, q.rest = p.rest \o c, NEW type, NEW n \in 0 .. Len(p.rest)
  PROVE  Agree(p, Step_Emit(p, type, n), Step_Emit(q, type, n), c)
<1>1. /\ Take(p.rest \o c, n) = Take(p.rest, n)
      /\ Cut(p.rest \o c, n) = Cut(p.rest, n) \o c
  BY MoreBytes
<1>2. Take(q.rest, n) = Take(p.rest, n) /\ Cut(q.rest, n) = Cut(p.rest, n) \o c
  BY <1>1
<1>3. Cut(p.rest, n) \in Seq(Byte)
  BY TakeAndCut
<1> QED  BY <1>2, <1>3, EmitAgrees DEF Step_Emit

\* A parser that waits for more is where it was when more has come.
LEMMA NeedMoreAgrees ==
  ASSUME NEW limit \in Limits, NEW s \in Seq(Byte), NEW c \in Seq(Byte),
         NEW p, p = Ground(limit, s), NEW longer
  PROVE  Agree(p, NeedMore(p), longer, c)
<1>1. p \in Parser /\ p.rest = s /\ p.limit = limit
  <2>1. IsGround(p, limit, s)
    BY GroundParts
  <2> QED  BY <2>1 DEF IsGround
<1>2. NeedMore(p).parser.mode = "Partial" /\ NeedMore(p).parser.kept = s
      /\ NeedMore(p).parser.limit = limit /\ NeedMore(p).tokens = <<>>
  BY <1>1 DEF NeedMore, Outcome, Parser
<1>3. Extended(NeedMore(p).parser, c) = Ground(limit, s \o c)
  BY <1>2 DEF Extended
<1> QED  BY <1>2, <1>3, GroundExtends DEF Agree

LEMMA EnterStringAgrees ==
  ASSUME NEW p \in Parser, p.mode = "Ground", NEW c \in Seq(Byte), NEW q, q = Extended(p, c),
         NEW kind \in {"Osc", "Dcs", "Apc"}, NEW intro \in 1 .. 2,
         NEW end \in 1 .. Len(p.rest) + 1
  PROVE  Agree(p, EnterString(p, kind, intro, end), EnterString(q, kind, intro, end), c)
<1>1. /\ q \in Parser /\ q.rest = p.rest \o c
      /\ q.limit = p.limit /\ q.mode = p.mode /\ q.kind = p.kind /\ q.kept = p.kept
      /\ q.intro = p.intro /\ q.start = p.start /\ q.dropped = p.dropped
      /\ q.held = p.held /\ q.first = p.first
  BY ExtendedParts
<1>2. end - 1 \in 0 .. Len(p.rest) /\ end - 1 \in Nat /\ p.rest \in Seq(Byte) /\ intro \in 0 .. 2
  BY ParserParts
<1>3. /\ Take(q.rest, end - 1) = Take(p.rest, end - 1)
      /\ Cut(q.rest, end - 1) = Cut(p.rest, end - 1) \o c
      /\ Take(p.rest, end - 1) \in Seq(Byte) /\ Cut(p.rest, end - 1) \in Seq(Byte)
      /\ Cut(p.rest, end - 1) \o c \in Seq(Byte)
  <2>1. Cut(p.rest, end - 1) \in Seq(Byte) /\ Take(p.rest, end - 1) \in Seq(Byte)
    BY <1>2, TakeAndCut
  <2> QED  BY <1>1, <1>2, <2>1, MoreBytes, ConcatProperties
<1> DEFINE Now(r, rest) ==
      [r EXCEPT !.mode = "InString", !.kind = kind, !.intro = intro,
                !.kept = Take(p.rest, end - 1), !.start = end - 1, !.rest = rest]
           a == Now(p, Cut(p.rest, end - 1))
           b == Now(q, Cut(p.rest, end - 1) \o c)
<1>4. EnterString(p, kind, intro, end) = Outcome(a, <<>>)
  BY DEF EnterString
<1>5. EnterString(q, kind, intro, end) = Outcome(b, <<>>)
  BY <1>3 DEF EnterString
<1>6. a \in Parser /\ b \in Parser
  BY <1>1, <1>2, <1>3, StringParsers
<1>7. /\ a.mode = "InString" /\ a.kind = kind /\ a.intro = intro
      /\ a.kept = Take(p.rest, end - 1) /\ a.start = end - 1 /\ a.rest = Cut(p.rest, end - 1)
      /\ a.limit = p.limit /\ a.dropped = p.dropped /\ a.held = p.held /\ a.first = p.first
  BY DEF Parser
<1>8. /\ b.mode = "InString" /\ b.kind = kind /\ b.intro = intro
      /\ b.kept = Take(p.rest, end - 1) /\ b.start = end - 1
      /\ b.rest = Cut(p.rest, end - 1) \o c
      /\ b.limit = q.limit /\ b.dropped = q.dropped /\ b.held = q.held /\ b.first = q.first
  BY <1>1 DEF Parser
<1>9. /\ a.limit = b.limit /\ a.mode = b.mode /\ a.kind = b.kind /\ a.kept = b.kept
      /\ a.intro = b.intro /\ a.start = b.start /\ a.dropped = b.dropped /\ a.held = b.held
      /\ a.first = b.first /\ b.rest = a.rest \o c /\ a.mode # "Partial"
  BY <1>1, <1>7, <1>8
<1> HIDE DEF a, b
<1>10. b = Extended(a, c)
  BY <1>6, <1>9, SameButForTheRest
<1> QED  BY <1>4, <1>5, <1>10 DEF Agree, Outcome

LEMMA EnterPasteAgrees ==
  ASSUME NEW p \in Parser, p.mode = "Ground", NEW c \in Seq(Byte), NEW q, q = Extended(p, c),
         NEW end \in 1 .. Len(p.rest) + 1
  PROVE  Agree(p, EnterPaste(p, end), EnterPaste(q, end), c)
<1>1. /\ q \in Parser /\ q.rest = p.rest \o c
      /\ q.limit = p.limit /\ q.mode = p.mode /\ q.kind = p.kind /\ q.kept = p.kept
      /\ q.intro = p.intro /\ q.start = p.start /\ q.dropped = p.dropped
      /\ q.held = p.held /\ q.first = p.first
  BY ExtendedParts
<1>2. end - 1 \in 0 .. Len(p.rest) /\ end - 1 \in Nat /\ p.rest \in Seq(Byte)
  BY ParserParts
<1>3. /\ Take(q.rest, end - 1) = Take(p.rest, end - 1)
      /\ Cut(q.rest, end - 1) = Cut(p.rest, end - 1) \o c
      /\ Take(p.rest, end - 1) \in Seq(Byte) /\ Cut(p.rest, end - 1) \in Seq(Byte)
      /\ Cut(p.rest, end - 1) \o c \in Seq(Byte)
  <2>1. Cut(p.rest, end - 1) \in Seq(Byte) /\ Take(p.rest, end - 1) \in Seq(Byte)
    BY <1>2, TakeAndCut
  <2> QED  BY <1>1, <1>2, <2>1, MoreBytes, ConcatProperties
<1> DEFINE Now(r, rest) ==
      [r EXCEPT !.mode = "InPaste", !.kept = Take(p.rest, end - 1), !.start = end - 1,
                !.first = TRUE, !.rest = rest]
           a == Now(p, Cut(p.rest, end - 1))
           b == Now(q, Cut(p.rest, end - 1) \o c)
<1>4. EnterPaste(p, end) = Outcome(a, <<>>)
  BY DEF EnterPaste
<1>5. EnterPaste(q, end) = Outcome(b, <<>>)
  BY <1>3 DEF EnterPaste
<1>6. a \in Parser /\ b \in Parser
  BY <1>1, <1>2, <1>3 DEF Parser, Mode
<1>7. /\ a.mode = "InPaste" /\ a.kind = p.kind /\ a.intro = p.intro
      /\ a.kept = Take(p.rest, end - 1) /\ a.start = end - 1 /\ a.rest = Cut(p.rest, end - 1)
      /\ a.limit = p.limit /\ a.dropped = p.dropped /\ a.held = p.held /\ a.first = TRUE
  BY DEF Parser
<1>8. /\ b.mode = "InPaste" /\ b.kind = q.kind /\ b.intro = q.intro
      /\ b.kept = Take(p.rest, end - 1) /\ b.start = end - 1
      /\ b.rest = Cut(p.rest, end - 1) \o c
      /\ b.limit = q.limit /\ b.dropped = q.dropped /\ b.held = q.held /\ b.first = TRUE
  BY <1>1 DEF Parser
<1>9. /\ a.limit = b.limit /\ a.mode = b.mode /\ a.kind = b.kind /\ a.kept = b.kept
      /\ a.intro = b.intro /\ a.start = b.start /\ a.dropped = b.dropped /\ a.held = b.held
      /\ a.first = b.first /\ b.rest = a.rest \o c /\ a.mode # "Partial"
  BY <1>1, <1>7, <1>8
<1> HIDE DEF a, b
<1>10. b = Extended(a, c)
  BY <1>6, <1>9, SameButForTheRest
<1> QED  BY <1>4, <1>5, <1>10 DEF Agree, Outcome

\* Both parsers at a token boundary, one with more to read.
LEMMA BothGround ==
  ASSUME NEW limit \in Limits, NEW s \in Seq(Byte), NEW c \in Seq(Byte),
         NEW p, p = Ground(limit, s), NEW q, q = Ground(limit, s \o c)
  PROVE  /\ p.rest = s /\ q.rest = s \o c /\ p.limit = limit /\ q.limit = limit
         /\ Len(s) \in Nat /\ limit \in Nat /\ p \in Parser /\ p.mode = "Ground"
         /\ q = Extended(p, c)
<1>1. s \o c \in Seq(Byte) /\ Len(s) \in Nat
  BY ConcatProperties, LenProperties
<1>2. IsGround(p, limit, s) /\ IsGround(q, limit, s \o c)
  BY <1>1, GroundParts
<1> QED  BY <1>1, <1>2, GroundExtends, LimitsAssumption DEF IsGround

LEMMA CsiAgrees ==
  ASSUME NEW limit \in Limits, NEW s \in Seq(Byte), NEW c \in Seq(Byte),
         NEW p, p = Ground(limit, s), NEW q, q = Ground(limit, s \o c), NEW intro \in 1 .. 2, intro <= Len(s)
  PROVE  Agree(p, parse_csi(p, intro), parse_csi(q, intro), c)
<1> DEFINE prefix == scan_control_prefix(s, intro + 1, limit)
           later == scan_control_prefix(s \o c, intro + 1, limit)
           As(r, t, pre) ==
             CASE pre.ends = "NeedMore" -> NeedMore(r)
               [] pre.ends = "Complete" ->
                    IF SubSeq(t, intro + 1, pre.at - 1) = PasteStart
                    THEN EnterPaste(r, pre.at)
                    ELSE Step_Emit(r, "Csi", pre.at - 1)
               [] OTHER -> Step_Emit(r, "Malformed", pre.at - 1)
<1>1. /\ p.rest = s /\ q.rest = s \o c /\ p.limit = limit /\ q.limit = limit
      /\ Len(s) \in Nat /\ limit \in Nat /\ p \in Parser /\ p.mode = "Ground"
      /\ q = Extended(p, c)
  BY BothGround
<1>2. parse_csi(p, intro) = As(p, s, prefix) /\ parse_csi(q, intro) = As(q, s \o c, later)
  BY <1>1 DEF parse_csi
<1>3. intro + 1 \in 1 .. Len(s) + 1
  BY <1>1
<1>4. /\ prefix.ends \in {"NeedMore", "Complete", "Aborted", "Overflow"}
      /\ prefix.ends # "NeedMore" => prefix.at \in intro + 1 .. Len(s) + 1 /\ later = prefix
  BY <1>1, <1>3, PrefixesEnd, PrefixOfMore
<1> HIDE DEF prefix, later
<1>5. CASE prefix.ends = "NeedMore"
  <2>1. parse_csi(p, intro) = NeedMore(p)
    BY <1>2, <1>5
  <2> QED  BY <2>1, NeedMoreAgrees
<1>6. CASE prefix.ends # "NeedMore"
  <2>1. later = prefix /\ prefix.at \in 1 .. Len(s) + 1 /\ prefix.at - 1 \in 0 .. Len(s)
    BY <1>1, <1>4, <1>6
  <2>2. SubSeq(s \o c, intro + 1, prefix.at - 1) = SubSeq(s, intro + 1, prefix.at - 1)
    <3> DEFINE n == prefix.at - 1
    <3>1. n \in 0 .. Len(s) /\ intro \in Nat
      BY <2>1
    <3>2. /\ s \o c \in Seq(Byte) /\ Len(s \o c) = Len(s) + Len(c) /\ Len(c) \in Nat
          /\ \A i \in 1 .. Len(s) : (s \o c)[i] = s[i]
      BY MoreBytes
    <3>3. \A i \in intro + 1 .. n : s[i] \in Byte /\ (s \o c)[i] = s[i]
      <4>1. \A i \in intro + 1 .. n : i \in 1 .. Len(s)
        BY <1>1, <3>1
      <4> QED  BY <3>2, <4>1, ElementOfSeq
    <3> HIDE DEF n
    <3>4. /\ SubSeq(s, intro + 1, n) \in Seq(Byte) /\ SubSeq(s \o c, intro + 1, n) \in Seq(Byte)
          /\ Len(SubSeq(s, intro + 1, n)) = Len(SubSeq(s \o c, intro + 1, n))
          /\ Len(SubSeq(s, intro + 1, n)) = IF intro + 1 <= n THEN n - (intro + 1) + 1 ELSE 0
      BY <3>1, <3>3, SubSeqProperties
    <3>5. ASSUME NEW i \in 1 .. Len(SubSeq(s, intro + 1, n))
          PROVE  SubSeq(s, intro + 1, n)[i] = SubSeq(s \o c, intro + 1, n)[i]
      <4>1. i \in 1 .. n - (intro + 1) + 1 /\ intro + 1 + i - 1 \in intro + 1 .. n
        BY <3>1, <3>4
      <4>2. SubSeq(s, intro + 1, n)[i] = s[intro + 1 + i - 1]
        BY <3>1, <3>3, <4>1, SubSeqProperties
      <4>3. SubSeq(s \o c, intro + 1, n)[i] = (s \o c)[intro + 1 + i - 1]
        BY <3>1, <3>3, <4>1, SubSeqProperties
      <4> QED  BY <3>3, <4>1, <4>2, <4>3
    <3> QED  BY <3>4, <3>5, SeqEqual DEF n
  <2>3. /\ Agree(p, EnterPaste(p, prefix.at), EnterPaste(q, prefix.at), c)
        /\ \A type : Agree(p, Step_Emit(p, type, prefix.at - 1),
                           Step_Emit(q, type, prefix.at - 1), c)
    BY <1>1, <2>1, EnterPasteAgrees, StepEmitAgrees
  <2> QED  BY <1>2, <1>4, <1>6, <2>1, <2>2, <2>3
<1> QED  BY <1>5, <1>6

LEMMA StringAgrees ==
  ASSUME NEW limit \in Limits, NEW s \in Seq(Byte), NEW c \in Seq(Byte),
         NEW p, p = Ground(limit, s), NEW q, q = Ground(limit, s \o c),
         NEW intro \in 1 .. 2, intro <= Len(s), NEW kind \in {"Osc", "Dcs", "Apc"}
  PROVE  Agree(p, parse_string(p, kind, intro), parse_string(q, kind, intro), c)
<1> DEFINE prefix == scan_control_prefix(s, intro + 1, limit)
           later == scan_control_prefix(s \o c, intro + 1, limit)
           As(r, pre) ==
             IF kind # "Dcs" THEN EnterString(r, kind, intro, intro + 1)
             ELSE CASE pre.ends = "NeedMore" -> NeedMore(r)
                    [] pre.ends = "Complete" -> EnterString(r, kind, intro, pre.at)
                    [] OTHER -> Step_Emit(r, "Malformed", pre.at - 1)
<1>1. /\ p.rest = s /\ q.rest = s \o c /\ p.limit = limit /\ q.limit = limit
      /\ Len(s) \in Nat /\ limit \in Nat /\ p \in Parser /\ p.mode = "Ground"
      /\ q = Extended(p, c)
  BY BothGround
<1>2. parse_string(p, kind, intro) = As(p, prefix) /\ parse_string(q, kind, intro) = As(q, later)
  BY <1>1 DEF parse_string
<1>3. intro + 1 \in 1 .. Len(s) + 1
  BY <1>1
<1>4. /\ prefix.ends \in {"NeedMore", "Complete", "Aborted", "Overflow"}
      /\ prefix.ends # "NeedMore" => prefix.at \in intro + 1 .. Len(s) + 1 /\ later = prefix
  BY <1>1, <1>3, PrefixesEnd, PrefixOfMore
<1> HIDE DEF prefix, later
<1>5. CASE kind # "Dcs"
  <2>1. Agree(p, EnterString(p, kind, intro, intro + 1), EnterString(q, kind, intro, intro + 1), c)
    BY <1>1, <1>3, EnterStringAgrees
  <2> QED  BY <1>2, <1>5, <2>1
<1>6. CASE kind = "Dcs" /\ prefix.ends = "NeedMore"
  <2>1. parse_string(p, kind, intro) = NeedMore(p)
    BY <1>2, <1>6
  <2> QED  BY <2>1, NeedMoreAgrees
<1>7. CASE kind = "Dcs" /\ prefix.ends # "NeedMore"
  <2>1. later = prefix /\ prefix.at \in 1 .. Len(s) + 1 /\ prefix.at - 1 \in 0 .. Len(s)
    BY <1>1, <1>4, <1>7
  <2>2. Agree(p, EnterString(p, kind, intro, prefix.at), EnterString(q, kind, intro, prefix.at), c)
    BY <1>1, <2>1, EnterStringAgrees
  <2>3. Agree(p, Step_Emit(p, "Malformed", prefix.at - 1),
              Step_Emit(q, "Malformed", prefix.at - 1), c)
    BY <1>1, <2>1, StepEmitAgrees
  <2> QED  BY <1>2, <1>7, <2>1, <2>2, <2>3
<1> QED  BY <1>5, <1>6, <1>7

LEMMA PlainEscapeAgrees ==
  ASSUME NEW limit \in Limits, NEW s \in Seq(Byte), NEW c \in Seq(Byte), 2 <= Len(s),
         NEW p, p = Ground(limit, s), NEW q, q = Ground(limit, s \o c)
  PROVE  Agree(p, parse_plain_escape(p), parse_plain_escape(q), c)
<1> DEFINE end == AfterRun(Intermediate, s, 2)
           later == AfterRun(Intermediate, s \o c, 2)
           As(r, t, e) ==
             IF e - 2 > limit THEN Step_Emit(r, "Malformed", 1 + limit)
             ELSE IF e > Len(t) THEN NeedMore(r)
             ELSE IF t[e] \in EscapeFinal THEN Step_Emit(r, "Esc", e)
             ELSE Step_Emit(r, "Malformed", IF t[e] = "CAN" THEN e ELSE e - 1)
<1>1. /\ p.rest = s /\ q.rest = s \o c /\ p.limit = limit /\ q.limit = limit
      /\ Len(s) \in Nat /\ limit \in Nat /\ p \in Parser /\ p.mode = "Ground"
      /\ q = Extended(p, c)
  BY BothGround
<1>2. parse_plain_escape(p) = As(p, s, end) /\ parse_plain_escape(q) = As(q, s \o c, later)
  BY <1>1 DEF parse_plain_escape
<1>3. 2 \in 1 .. Len(s) + 1
  BY <1>1
<1>4. end \in 2 .. Len(s) + 1 /\ end <= later /\ (end <= Len(s) => later = end)
  BY <1>3, RunStops, RunOfMore
<1>5. /\ s \o c \in Seq(Byte) /\ Len(s \o c) = Len(s) + Len(c) /\ Len(c) \in Nat
      /\ \A i \in 1 .. Len(s) : (s \o c)[i] = s[i]
  BY MoreBytes
<1>6. later \in Nat
  <2>1. 2 \in 1 .. Len(s \o c) + 1
    BY <1>1, <1>5
  <2>2. later \in 2 .. Len(s \o c) + 1
    <3>1. s \o c \in Seq(Byte)
      BY <1>5
    <3> QED  BY <2>1, <3>1, RunsEnd
  <2> HIDE DEF later
  <2> QED  BY <1>1, <1>5, <2>2
<1> HIDE DEF end, later
<1>7. CASE end - 2 > limit
  <2>1. later - 2 > limit /\ 1 + limit \in 0 .. Len(s)
    BY <1>1, <1>4, <1>6, <1>7
  <2>2. Agree(p, Step_Emit(p, "Malformed", 1 + limit), Step_Emit(q, "Malformed", 1 + limit), c)
    BY <1>1, <2>1, StepEmitAgrees
  <2> QED  BY <1>2, <1>7, <2>1, <2>2
<1>8. CASE ~ (end - 2 > limit) /\ end > Len(s)
  <2>1. parse_plain_escape(p) = NeedMore(p)
    BY <1>2, <1>8
  <2> QED  BY <2>1, NeedMoreAgrees
<1>9. CASE ~ (end - 2 > limit) /\ ~ (end > Len(s))
  <2>1. /\ end \in 1 .. Len(s) /\ end \in 0 .. Len(s) /\ end - 1 \in 0 .. Len(s)
        /\ later = end /\ ~ (end > Len(s \o c))
    BY <1>1, <1>4, <1>5, <1>9
  <2>2. (s \o c)[end] = s[end]
    BY <1>5, <2>1
  <2>3. \A type : /\ Agree(p, Step_Emit(p, type, end), Step_Emit(q, type, end), c)
                  /\ Agree(p, Step_Emit(p, type, end - 1), Step_Emit(q, type, end - 1), c)
    BY <1>1, <2>1, StepEmitAgrees
  <2>4. CASE s[end] \in EscapeFinal
    BY <1>2, <1>9, <2>1, <2>2, <2>3, <2>4
  <2>5. CASE s[end] \notin EscapeFinal
    BY <1>2, <1>9, <2>1, <2>2, <2>3, <2>5
  <2> QED  BY <2>4, <2>5
<1> QED  BY <1>7, <1>8, <1>9

LEMMA EscapeAgrees ==
  ASSUME NEW limit \in Limits, NEW s \in Seq(Byte), NEW c \in Seq(Byte), s # <<>>,
         NEW p, p = Ground(limit, s), NEW q, q = Ground(limit, s \o c)
  PROVE  Agree(p, parse_escape(p), parse_escape(q), c)
<1>1. /\ p.rest = s /\ q.rest = s \o c /\ p.limit = limit /\ q.limit = limit
      /\ Len(s) \in Nat /\ limit \in Nat /\ p \in Parser /\ p.mode = "Ground"
      /\ q = Extended(p, c)
  BY BothGround
<1>2. 1 <= Len(s)
  BY FirstByte
<1>3. CASE Len(s) = 1
  <2>1. parse_escape(p) = NeedMore(p)
    BY <1>1, <1>3 DEF parse_escape
  <2> QED  BY <2>1, NeedMoreAgrees
<1>4. CASE Len(s) # 1
  <2>1. 2 <= Len(s) /\ 2 \in 1 .. Len(s) /\ 2 \in 0 .. Len(s)
    <3>1. \A n \in Nat : 1 <= n /\ n # 1 => 2 <= n /\ 2 \in 1 .. n /\ 2 \in 0 .. n
      OBVIOUS
    <3> QED  BY <1>1, <1>2, <1>4, <3>1
  <2>2. (s \o c)[2] = s[2] /\ Len(s \o c) # 1
    <3>1. Len(s \o c) = Len(s) + Len(c) /\ Len(c) \in Nat /\ (s \o c)[2] = s[2]
      BY <2>1, MoreBytes
    <3> QED  BY <1>1, <2>1, <3>1
  <2>3. Agree(p, parse_csi(p, 2), parse_csi(q, 2), c)
    BY <2>1, CsiAgrees
  <2>4. \A kind \in {"Osc", "Dcs", "Apc"} :
          Agree(p, parse_string(p, kind, 2), parse_string(q, kind, 2), c)
    BY <2>1, StringAgrees
  <2>5. Agree(p, Step_Emit(p, "Malformed", 2), Step_Emit(q, "Malformed", 2), c)
    BY <1>1, <2>1, StepEmitAgrees
  <2>6. Agree(p, parse_plain_escape(p), parse_plain_escape(q), c)
    BY <2>1, PlainEscapeAgrees
  <2> DEFINE As(r, b) ==
        CASE b = "[" -> parse_csi(r, 2)
          [] b = "P" -> parse_string(r, "Dcs", 2)
          [] b = "]" -> parse_string(r, "Osc", 2)
          [] b = "_" -> parse_string(r, "Apc", 2)
          [] b = "CAN" -> Step_Emit(r, "Malformed", 2)
          [] OTHER -> parse_plain_escape(r)
  <2>7. parse_escape(p) = As(p, s[2]) /\ parse_escape(q) = As(q, s[2])
    BY <1>1, <1>4, <2>2 DEF parse_escape
  <2>8. Agree(p, As(p, s[2]), As(q, s[2]), c)
    BY <2>3, <2>4, <2>5, <2>6
  <2> HIDE DEF As
  <2> QED  BY <2>7, <2>8
<1> QED  BY <1>3, <1>4

-----------------------------------------------------------------------------
LEMMA Widths ==
  ASSUME NEW b \in Byte
  PROVE  /\ utf8_width(b) \in 0 .. 3
         /\ b \in Printable <=> utf8_width(b) = 1
         /\ utf8_width(b) > 1 => b \notin Boundary
         /\ b \in Continuation => utf8_width(b) = 0
<1>1. b \in Boundary \/ b \in Continuation => b \notin Printable /\ b # "C3" /\ b # "E2"
  <2>1. b \in Boundary \/ b \in Continuation =>
          b \in {"BEL", "CR", "LF", "CAN", "ESC", "CSI", "DCS", "OSC", "APC", "ST", "80"}
    BY DEF Boundary, Continuation, Control, C0, Introducer8
  <2>2. b \in Printable =>
          b \in {"0", "1", "2", "high", "low", "?", "[", "]", "P", "_", "\\", "~", "m", " "}
    BY DEF Printable, EscapeFinal, Param, Marker, Final, Intermediate
  <2> QED  BY <2>1, <2>2
<1>2. b \in Printable => b # "C3" /\ b # "E2"
  BY DEF Printable, EscapeFinal, Param, Marker, Final, Intermediate
<1> QED  BY <1>1, <1>2 DEF utf8_width

\* Whether n bytes are whole characters depends on these bytes alone.
LEMMA Utf8OfMore ==
  ASSUME NEW s \in Seq(Byte), NEW c \in Seq(Byte), NEW n \in 0 .. Len(s)
  PROVE  from_utf8(s \o c, n) <=> from_utf8(s, n)
<1>1. Len(s) \in Nat /\ \A i \in 1 .. Len(s) : (s \o c)[i] = s[i]
  BY MoreBytes
<1>2. \A i \in 1 .. n : (s \o c)[i] = s[i] /\ s[i] \in Byte /\ utf8_width(s[i]) \in 0 .. 3
  <2>1. \A i \in 1 .. n : i \in 1 .. Len(s)
    BY <1>1
  <2> QED  BY <1>1, <2>1, ElementOfSeq, Widths
<1> DEFINE At(t, i) ==
      \/ t[i] \in Printable
      \/ /\ utf8_width(t[i]) > 1
         /\ i + utf8_width(t[i]) - 1 <= n
         /\ \A j \in i + 1 .. i + utf8_width(t[i]) - 1 : t[j] \in Continuation
      \/ /\ t[i] \in Continuation
         /\ \E j \in 1 .. i - 1 : j + utf8_width(t[j]) - 1 >= i
<1>3. ASSUME NEW i \in 1 .. n PROVE At(s \o c, i) <=> At(s, i)
  <2> DEFINE w == utf8_width(s[i])
  <2>1. (s \o c)[i] = s[i] /\ w \in 0 .. 3
    BY <1>2
  <2>2. i + w - 1 <= n =>
          \A j \in i + 1 .. i + w - 1 : (s \o c)[j] = s[j]
    <3> HIDE DEF w
    <3>1. i + w - 1 <= n => \A j \in i + 1 .. i + w - 1 : j \in 1 .. n
      BY <1>1, <2>1
    <3> QED  BY <1>2, <3>1
  <2>3. \A j \in 1 .. i - 1 : (s \o c)[j] = s[j]
    <3>1. \A j \in 1 .. i - 1 : j \in 1 .. n
      BY <1>1
    <3> QED  BY <1>2, <3>1
  <2> QED  BY <2>1, <2>2, <2>3
<1>4. /\ from_utf8(s, n) <=> \A i \in 1 .. n : At(s, i)
      /\ from_utf8(s \o c, n) <=> \A i \in 1 .. n : At(s \o c, i)
  BY DEF from_utf8
<1> HIDE DEF At
<1> QED  BY <1>3, <1>4

TextRuns(s, limit) ==
  { n \in 0 .. Len(s) : /\ from_utf8(s, n)
                        /\ \A m \in 1 .. n - 1 : from_utf8(s, m) => m < limit }

LEMMA TextRunIsLongest ==
  ASSUME NEW s \in Seq(Byte), NEW limit \in Nat, NEW run, run = TextRun(s, limit)
  PROVE  run \in TextRuns(s, limit) /\ \A m \in TextRuns(s, limit) : m <= run
<1>1. Len(s) \in Nat
  BY LenProperties
<1>2. TextRuns(s, limit) \in SUBSET (0 .. Len(s)) /\ TextRuns(s, limit) # {}
  <2>1. from_utf8(s, 0)
    BY DEF from_utf8
  <2>2. 0 \in TextRuns(s, limit)
    BY <1>1, <2>1 DEF TextRuns
  <2> QED  BY <2>2 DEF TextRuns
<1>3. run = CHOOSE n \in TextRuns(s, limit) : \A m \in TextRuns(s, limit) : m <= n
  BY DEF TextRun, TextRuns
<1>4. \E n \in TextRuns(s, limit) : \A m \in TextRuns(s, limit) : m <= n
  BY <1>1, <1>2, GreatestElement
<1> QED  BY <1>3, <1>4

\* A character behind a run of text that is not at its limit lengthens it.
LEMMA CharacterBehind ==
  ASSUME NEW s \in Seq(Byte), NEW limit \in Nat, NEW run \in TextRuns(s, limit),
         ~ (run > 0 /\ run >= limit), run < Len(s),
         NEW width, width = utf8_width(s[run + 1]), width > 0, run + width <= Len(s),
         \A j \in run + 2 .. run + width : s[j] \in Continuation
  PROVE  run + width \in TextRuns(s, limit)
<1>1. /\ Len(s) \in Nat /\ run \in 0 .. Len(s) /\ from_utf8(s, run)
      /\ \A m \in 1 .. run - 1 : from_utf8(s, m) => m < limit
  BY LenProperties DEF TextRuns
<1>2. \A i \in 1 .. Len(s) : s[i] \in Byte /\ utf8_width(s[i]) \in 0 .. 3
  BY ElementOfSeq, Widths
<1>3. /\ run + 1 \in 1 .. Len(s) /\ width \in 1 .. 3 /\ run + width \in 0 .. Len(s)
      /\ s[run + 1] \in Byte
  BY <1>1, <1>2
<1>4. from_utf8(s, run + width)
  <2> SUFFICES ASSUME NEW i \in 1 .. run + width
               PROVE  \/ s[i] \in Printable
                      \/ /\ utf8_width(s[i]) > 1
                         /\ i + utf8_width(s[i]) - 1 <= run + width
                         /\ \A j \in i + 1 .. i + utf8_width(s[i]) - 1 : s[j] \in Continuation
                      \/ /\ s[i] \in Continuation
                         /\ \E j \in 1 .. i - 1 : j + utf8_width(s[j]) - 1 >= i
    BY DEF from_utf8
  <2>1. CASE i <= run
    <3>1. i \in 1 .. run /\ i \in 1 .. Len(s)
      BY <1>1, <1>3, <2>1
    <3>2. \/ s[i] \in Printable
          \/ /\ utf8_width(s[i]) > 1
             /\ i + utf8_width(s[i]) - 1 <= run
             /\ \A j \in i + 1 .. i + utf8_width(s[i]) - 1 : s[j] \in Continuation
          \/ /\ s[i] \in Continuation
             /\ \E j \in 1 .. i - 1 : j + utf8_width(s[j]) - 1 >= i
      BY <1>1, <3>1 DEF from_utf8
    <3>3. i + utf8_width(s[i]) - 1 <= run => i + utf8_width(s[i]) - 1 <= run + width
      <4>1. utf8_width(s[i]) \in 0 .. 3
        BY <1>2, <3>1
      <4> QED  BY <1>1, <1>3, <4>1
    <3> QED  BY <3>2, <3>3
  <2>2. CASE i = run + 1
    <3>1. utf8_width(s[i]) = width /\ i + width - 1 = run + width /\ i + 1 = run + 2
      BY <1>1, <1>3, <2>2
    <3>2. width = 1 => s[i] \in Printable
      BY <1>3, <2>2, Widths
    <3>3. width # 1 => width > 1
      BY <1>3
    <3>4. \A j \in i + 1 .. i + utf8_width(s[i]) - 1 : s[j] \in Continuation
      BY <3>1
    <3>5. i + utf8_width(s[i]) - 1 <= run + width
      BY <1>1, <1>3, <3>1
    <3> QED  BY <3>1, <3>2, <3>3, <3>4, <3>5
  <2>3. CASE i > run + 1
    <3>1. i \in run + 2 .. run + width /\ run + 1 \in 1 .. i - 1 /\ (run + 1) + width - 1 >= i
      BY <1>1, <1>3, <2>3
    <3> QED  BY <3>1
  <2> QED  BY <1>1, <1>3, <2>1, <2>2, <2>3
<1>5. ASSUME NEW m \in 1 .. run + width - 1, from_utf8(s, m) PROVE m < limit
  <2>1. CASE m < run
    BY <1>1, <1>5, <2>1
  <2>2. CASE m = run
    BY <1>1, <2>2
  <2>3. CASE m > run
    <3>1. run + 1 \in 1 .. m /\ width > 1 /\ ~ (run + 1 + width - 1 <= m)
      BY <1>1, <1>3, <2>3
    <3>2. s[run + 1] \in Printable \/ s[run + 1] \in Continuation
      BY <1>5, <3>1 DEF from_utf8
    <3>3. width = 1 \/ width = 0
      BY <1>3, <3>2, Widths
    <3> QED  BY <3>1, <3>3
  <2> QED  BY <1>1, <1>3, <2>1, <2>2, <2>3
<1> QED  BY <1>3, <1>4, <1>5 DEF TextRuns

(***************************************************************************)
(* A run of text that ended, at the limit or before a byte that is known   *)
(* not to go on with it, is the same with more bytes behind.               *)
(***************************************************************************)
LEMMA TextRunOfMore ==
  ASSUME NEW s \in Seq(Byte), NEW c \in Seq(Byte), NEW limit \in Nat,
         NEW run, run = TextRun(s, limit), NEW width, width = utf8_width(s[run + 1]),
         \/ run > 0 /\ run >= limit
         \/ /\ run < Len(s)
            /\ s[run + 1] \in Boundary \/ width = 0 \/ run + width <= Len(s)
  PROVE  TextRun(s \o c, limit) = run
<1>1. /\ s \o c \in Seq(Byte) /\ Len(s \o c) = Len(s) + Len(c) /\ Len(c) \in Nat
      /\ Len(s) \in Nat /\ \A i \in 1 .. Len(s) : (s \o c)[i] = s[i]
  BY MoreBytes
<1>2. PICK later : later = TextRun(s \o c, limit)
  OBVIOUS
<1>3. run \in TextRuns(s, limit) /\ \A m \in TextRuns(s, limit) : m <= run
  BY TextRunIsLongest
<1>4. later \in TextRuns(s \o c, limit) /\ \A m \in TextRuns(s \o c, limit) : m <= later
  BY <1>1, <1>2, TextRunIsLongest
<1>5. /\ run \in 0 .. Len(s) /\ from_utf8(s, run)
      /\ \A m \in 1 .. run - 1 : from_utf8(s, m) => m < limit
  BY <1>3 DEF TextRuns
<1>6. /\ later \in 0 .. Len(s \o c) /\ from_utf8(s \o c, later)
      /\ \A m \in 1 .. later - 1 : from_utf8(s \o c, m) => m < limit
  BY <1>4 DEF TextRuns
<1>7. run <= later
  <2>1. from_utf8(s \o c, run) /\ run \in 0 .. Len(s \o c)
    BY <1>1, <1>5, Utf8OfMore
  <2>2. \A m \in 1 .. run - 1 : from_utf8(s \o c, m) => m < limit
    <3>1. \A m \in 1 .. run - 1 : m \in 0 .. Len(s)
      BY <1>1, <1>5
    <3> QED  BY <1>5, <3>1, Utf8OfMore
  <2> QED  BY <1>4, <2>1, <2>2 DEF TextRuns
<1>8. ASSUME run < later PROVE FALSE
  <2>1. CASE run > 0 /\ run >= limit
    <3>1. run \in 1 .. later - 1
      BY <1>1, <1>5, <1>6, <1>8, <2>1
    <3>2. from_utf8(s \o c, run)
      BY <1>5, Utf8OfMore
    <3> QED  BY <1>5, <1>6, <2>1, <3>1, <3>2
  <2>2. CASE ~ (run > 0 /\ run >= limit)
    <3> DEFINE i == run + 1
               b == s[run + 1]
    <3>1. /\ run < Len(s) /\ i \in 1 .. Len(s) /\ i \in 1 .. later
          /\ b \in Boundary \/ width = 0 \/ run + width <= Len(s)
      BY <1>1, <1>5, <1>6, <1>8, <2>2
    <3>2. b \in Byte /\ (s \o c)[i] = b
      BY <1>1, <3>1, ElementOfSeq
    <3>3. \/ b \in Printable
          \/ /\ width > 1
             /\ i + width - 1 <= later
             /\ \A j \in i + 1 .. i + width - 1 : (s \o c)[j] \in Continuation
          \/ /\ b \in Continuation
             /\ \E j \in 1 .. i - 1 : j + utf8_width((s \o c)[j]) - 1 >= i
      BY <1>6, <3>1, <3>2 DEF from_utf8
    <3>4. /\ width \in 0 .. 3 /\ (b \in Printable <=> width = 1)
          /\ (width > 1 => b \notin Boundary) /\ (b \in Continuation => width = 0)
      BY <3>2, Widths
    <3>5. CASE b \in Printable
      <4>1. width > 0 /\ run + width <= Len(s) /\ \A j \in run + 2 .. run + width : FALSE
        BY <1>1, <1>5, <3>1, <3>4, <3>5
      <4>2. run + width \in TextRuns(s, limit)
        BY <1>3, <2>2, <3>1, <4>1, CharacterBehind
      <4> QED  BY <1>3, <1>5, <3>4, <4>1, <4>2
    <3>6. CASE /\ width > 1
               /\ \A j \in i + 1 .. i + width - 1 : (s \o c)[j] \in Continuation
      <4>1. width > 0 /\ run + width <= Len(s)
        BY <3>1, <3>4, <3>6
      <4>2. \A j \in run + 2 .. run + width : s[j] \in Continuation
        <5>1. \A j \in run + 2 .. run + width : j \in 1 .. Len(s) /\ j \in i + 1 .. i + width - 1
          BY <1>1, <1>5, <3>4, <4>1
        <5> QED  BY <1>1, <3>6, <5>1
      <4>3. run + width \in TextRuns(s, limit)
        BY <1>3, <2>2, <3>1, <4>1, <4>2, CharacterBehind
      <4> QED  BY <1>3, <1>5, <3>4, <4>1, <4>3
    <3>7. CASE \E j \in 1 .. i - 1 : j + utf8_width((s \o c)[j]) - 1 >= i
      <4>1. PICK j \in 1 .. run : j + utf8_width((s \o c)[j]) - 1 >= run + 1
        <5>1. i - 1 = run
          BY <1>5
        <5> QED  BY <3>7, <5>1
      <4>2. j \in 1 .. Len(s) /\ (s \o c)[j] = s[j] /\ s[j] \in Byte
        <5>1. j \in 1 .. Len(s)
          BY <1>1, <1>5
        <5> QED  BY <1>1, <5>1, ElementOfSeq
      <4>3. utf8_width(s[j]) > 1 /\ utf8_width(s[j]) \in 0 .. 3
        <5>1. utf8_width(s[j]) \in 0 .. 3
          BY <4>2, Widths
        <5> QED  BY <1>5, <4>1, <4>2, <5>1
      <4>4. s[j] \notin Printable /\ s[j] \notin Continuation
        BY <4>2, <4>3, Widths
      <4>5. j + utf8_width(s[j]) - 1 <= run
        BY <1>5, <4>4 DEF from_utf8
      <4> QED  BY <1>5, <4>1, <4>2, <4>3, <4>5
    <3> QED  BY <3>3, <3>5, <3>6, <3>7
  <2> QED  BY <2>1, <2>2
<1> QED  BY <1>1, <1>2, <1>5, <1>6, <1>7, <1>8

LEMMA TextAgrees ==
  ASSUME NEW limit \in Limits, NEW s \in Seq(Byte), NEW c \in Seq(Byte), s # <<>>,
         NEW p, p = Ground(limit, s), NEW q, q = Ground(limit, s \o c)
  PROVE  Agree(p, parse_text(p), parse_text(q), c)
<1> DEFINE run == TextRun(s, limit)
           later == TextRun(s \o c, limit)
           As(r, t, n) ==
             LET width == utf8_width(t[n + 1])
             IN IF n > 0 /\ n >= limit THEN Step_Emit(r, "Text", n)
                ELSE IF n = Len(t) THEN NeedMore(r)
                ELSE IF t[n + 1] \in Boundary \/ width = 0
                THEN IF n > 0 THEN Step_Emit(r, "Text", n) ELSE Step_Emit(r, "Malformed", 1)
                ELSE IF n + width > Len(t) THEN NeedMore(r)
                ELSE IF n > 0 THEN Step_Emit(r, "Text", n)
                ELSE Step_Emit(r, "Malformed", width)
<1>1. /\ p.rest = s /\ q.rest = s \o c /\ p.limit = limit /\ q.limit = limit
      /\ Len(s) \in Nat /\ limit \in Nat /\ p \in Parser /\ p.mode = "Ground"
      /\ q = Extended(p, c)
  BY BothGround
<1>2. parse_text(p) = As(p, s, run) /\ parse_text(q) = As(q, s \o c, later)
  BY <1>1 DEF parse_text
<1>3. /\ Len(s \o c) = Len(s) + Len(c) /\ Len(c) \in Nat
      /\ \A i \in 1 .. Len(s) : (s \o c)[i] = s[i]
  BY MoreBytes
<1>4. run \in 0 .. Len(s) /\ 1 <= Len(s)
  BY <1>1, TextRunsEnd, FirstByte
<1> DEFINE width == utf8_width(s[run + 1])
           ended == \/ run > 0 /\ run >= limit
                    \/ /\ run < Len(s)
                       /\ s[run + 1] \in Boundary \/ width = 0 \/ run + width <= Len(s)
<1>5. ended => later = run
  BY <1>1, TextRunOfMore
<1>6. width \in 0 .. 3
  BY DEF utf8_width
<1> HIDE DEF run, later
<1>7. CASE ~ ended
  <2>1. /\ ~ (run > 0 /\ run >= limit)
        /\ run < Len(s) => s[run + 1] \notin Boundary /\ width # 0 /\ ~ (run + width <= Len(s))
    BY <1>7
  <2>2. run # Len(s) => run < Len(s) /\ run + width > Len(s)
    <3> HIDE DEF width
    <3> QED  BY <1>1, <1>4, <1>6, <2>1
  <2>3. parse_text(p) = NeedMore(p)
    BY <1>2, <2>1, <2>2
  <2> QED  BY <2>3, NeedMoreAgrees
<1>8. CASE ended
  <2>1. later = run
    BY <1>5, <1>8
  <2>2. \A type : \A n \in 0 .. Len(s) : Agree(p, Step_Emit(p, type, n), Step_Emit(q, type, n), c)
    BY <1>1, StepEmitAgrees
  <2>3. CASE run > 0 /\ run >= limit
    <3>1. parse_text(p) = Step_Emit(p, "Text", run) /\ parse_text(q) = Step_Emit(q, "Text", run)
      BY <1>2, <2>1, <2>3
    <3> QED  BY <1>4, <2>2, <3>1
  <2>4. CASE ~ (run > 0 /\ run >= limit)
    <3>1. /\ run < Len(s)
          /\ s[run + 1] \in Boundary \/ width = 0 \/ run + width <= Len(s)
      BY <1>8, <2>4
    <3>2. /\ run # Len(s) /\ run # Len(s \o c) /\ run + 1 \in 1 .. Len(s) /\ 1 \in 0 .. Len(s)
          /\ run \in 0 .. Len(s)
      BY <1>1, <1>3, <1>4, <3>1
    <3>3. (s \o c)[run + 1] = s[run + 1]
      BY <1>3, <3>2
    <3>4. CASE s[run + 1] \in Boundary \/ width = 0
      <4>1. /\ parse_text(p) = IF run > 0 THEN Step_Emit(p, "Text", run)
                               ELSE Step_Emit(p, "Malformed", 1)
            /\ parse_text(q) = IF run > 0 THEN Step_Emit(q, "Text", run)
                               ELSE Step_Emit(q, "Malformed", 1)
        BY <1>2, <2>1, <2>4, <3>2, <3>3, <3>4
      <4> QED  BY <2>2, <3>2, <4>1
    <3>5. CASE ~ (s[run + 1] \in Boundary \/ width = 0)
      <4>1. run + width <= Len(s) /\ ~ (run + width > Len(s)) /\ ~ (run + width > Len(s \o c))
            /\ width \in 0 .. Len(s)
        <5>1. run + width <= Len(s)
          BY <3>1, <3>5
        <5> HIDE DEF width
        <5> QED  BY <1>1, <1>3, <1>4, <1>6, <5>1
      <4>2. /\ parse_text(p) = IF run > 0 THEN Step_Emit(p, "Text", run)
                               ELSE Step_Emit(p, "Malformed", width)
            /\ parse_text(q) = IF run > 0 THEN Step_Emit(q, "Text", run)
                               ELSE Step_Emit(q, "Malformed", width)
        BY <1>2, <2>1, <2>4, <3>2, <3>3, <3>5, <4>1
      <4> HIDE DEF width
      <4> QED  BY <2>2, <3>2, <4>1, <4>2
    <3> QED  BY <3>4, <3>5
  <2> QED  BY <2>3, <2>4
<1> QED  BY <1>7, <1>8

LEMMA StepAgrees ==
  ASSUME NEW limit \in Limits, NEW s \in Seq(Byte), NEW c \in Seq(Byte), s # <<>>,
         NEW p, p = Ground(limit, s), NEW q, q = Ground(limit, s \o c)
  PROVE  Agree(p, step(p), step(q), c)
<1>1. /\ p.rest = s /\ q.rest = s \o c /\ p.limit = limit /\ q.limit = limit
      /\ Len(s) \in Nat /\ limit \in Nat /\ p \in Parser /\ p.mode = "Ground"
      /\ q = Extended(p, c)
  BY BothGround
<1>2. 1 <= Len(s) /\ Head(s \o c) = Head(s) /\ 1 \in 0 .. Len(s)
  <2>1. 1 <= Len(s) /\ Head(s \o c) = Head(s)
    BY FirstByte
  <2> QED  BY <1>1, <2>1
<1>3. Agree(p, parse_escape(p), parse_escape(q), c) /\ Agree(p, parse_text(p), parse_text(q), c)
  BY EscapeAgrees, TextAgrees
<1>4. Agree(p, parse_csi(p, 1), parse_csi(q, 1), c)
  BY <1>2, CsiAgrees
<1>5. \A kind \in {"Osc", "Dcs", "Apc"} :
        Agree(p, parse_string(p, kind, 1), parse_string(q, kind, 1), c)
  BY <1>2, StringAgrees
<1>6. /\ Agree(p, Step_Emit(p, "Malformed", 1), Step_Emit(q, "Malformed", 1), c)
      /\ Agree(p, Step_Emit(p, "Control", 1), Step_Emit(q, "Control", 1), c)
  BY <1>1, <1>2, StepEmitAgrees
<1> DEFINE As(r, b) ==
      CASE b = "ESC" -> parse_escape(r)
        [] b = "CSI" -> parse_csi(r, 1)
        [] b = "DCS" -> parse_string(r, "Dcs", 1)
        [] b = "OSC" -> parse_string(r, "Osc", 1)
        [] b = "APC" -> parse_string(r, "Apc", 1)
        [] b \in {"CAN", "ST"} -> Step_Emit(r, "Malformed", 1)
        [] b \in C0 -> Step_Emit(r, "Control", 1)
        [] OTHER -> parse_text(r)
<1>7. step(p) = As(p, Head(s)) /\ step(q) = As(q, Head(s))
  BY <1>1, <1>2 DEF step
<1>8. Agree(p, As(p, Head(s)), As(q, Head(s)), c)
  BY <1>3, <1>4, <1>5, <1>6
<1> HIDE DEF As
<1> QED  BY <1>7, <1>8

-----------------------------------------------------------------------------
(***************************************************************************)
(* The turns inside a string and a paste, and all of them.                 *)
(***************************************************************************)
LEMMA Joined ==
  ASSUME NEW s \in Seq(Byte), NEW t \in Seq(Byte), NEW c \in Seq(Byte)
  PROVE  s \o t \in Seq(Byte) /\ s \o (t \o c) = (s \o t) \o c
<1>1. s \o t \in Seq(Byte)
  BY ConcatProperties
<1>2. (s \o t) \o c = s \o (t \o c)
  BY ConcatAssociative
<1> QED  BY <1>1, <1>2

LEMMA EndedStringsAgree ==
  ASSUME NEW p \in Parser, p.mode = "InString", NEW c \in Seq(Byte), NEW q, q = Extended(p, c),
         NEW terminator, NEW rest \in Seq(Byte)
  PROVE  Agree(p, emit_string_token(p, terminator, rest),
               emit_string_token(q, terminator, rest \o c), c)
<1>1. /\ q.limit = p.limit /\ q.kind = p.kind /\ q.kept = p.kept /\ q.dropped = p.dropped
      /\ p.limit \in Limits
  BY ExtendedParts, ParserParts
<1>2. string_token(q, terminator) = string_token(p, terminator)
  BY <1>1 DEF string_token
<1> QED  BY <1>1, <1>2, EmitAgrees DEF emit_string_token

LEMMA AbortedStringsAgree ==
  ASSUME NEW p \in Parser, p.mode = "InString", NEW c \in Seq(Byte), NEW q, q = Extended(p, c),
         NEW aborting \in Seq(Byte), NEW again \in Seq(Byte)
  PROVE  Agree(p, abort_string(p, aborting, again), abort_string(q, aborting, again \o c), c)
<1>1. q.limit = p.limit /\ q.kept = p.kept /\ q.dropped = p.dropped /\ p.limit \in Limits
  BY ExtendedParts, ParserParts
<1>2. Agree(p, Emit(p, Token("Malformed", p.kept \o aborting), again),
            Emit(q, Token("Malformed", q.kept \o aborting), again \o c), c)
  BY <1>1, EmitAgrees
<1>3. Agree(p, emit_string_token(p, <<>>, aborting \o again),
            emit_string_token(q, <<>>, aborting \o (again \o c)), c)
  <2>1. aborting \o (again \o c) = (aborting \o again) \o c /\ aborting \o again \in Seq(Byte)
    BY ConcatAssociative, ConcatProperties
  <2>2. Agree(p, emit_string_token(p, <<>>, aborting \o again),
              emit_string_token(q, <<>>, (aborting \o again) \o c), c)
    BY <2>1, EndedStringsAgree
  <2> QED  BY <2>1, <2>2
<1> QED  BY <1>1, <1>2, <1>3 DEF abort_string

\* A byte of the string that does not end it.
LEMMA StringsGoOnAlike ==
  ASSUME NEW p \in Parser, p.mode = "InString", p.kind # "none", Bounded(p),
         NEW c \in Seq(Byte), NEW q, q = Extended(p, c),
         NEW b \in Byte, NEW rest \in Seq(Byte)
  PROVE  /\ Agree(p, Outcome([p EXCEPT !.held = <<"ESC">>, !.rest = rest], <<>>),
                  Outcome([q EXCEPT !.held = <<"ESC">>, !.rest = rest \o c], <<>>), c)
         /\ Agree(p, Outcome([push_payload_byte(p, b) EXCEPT !.rest = rest], <<>>),
                  Outcome([push_payload_byte(q, b) EXCEPT !.rest = rest \o c], <<>>), c)
<1>1. /\ q \in Parser
      /\ q.limit = p.limit /\ q.mode = p.mode /\ q.kind = p.kind /\ q.kept = p.kept
      /\ q.intro = p.intro /\ q.start = p.start /\ q.dropped = p.dropped
      /\ q.held = p.held /\ q.first = p.first
  BY ExtendedParts
<1>2. /\ rest \o c \in Seq(Byte) /\ <<"ESC">> \in Seq(Byte)
      /\ Append(p.kept, b) \in Seq(Byte) /\ p.dropped + 1 \in Nat
  <2>1. "ESC" \in Byte
    BY DEF Byte, Boundary, Control
  <2> QED  BY <2>1, ConcatProperties, AppendProperties, ParserParts
<1> DEFINE With(r, kept, dropped, held, unread) ==
      [r EXCEPT !.kept = kept, !.dropped = dropped, !.held = held, !.rest = unread]
<1>3. ASSUME NEW kept \in Seq(Byte), NEW dropped \in Nat, NEW held \in Seq(Byte),
             NEW a, a = With(p, kept, dropped, held, rest),
             NEW d, d = With(q, kept, dropped, held, rest \o c)
      PROVE  Agree(p, Outcome(a, <<>>), Outcome(d, <<>>), c)
  <2>1. a \in Parser /\ d \in Parser
    BY <1>1, <1>2, <1>3 DEF Parser
  <2>2. /\ a.limit = p.limit /\ a.mode = p.mode /\ a.kind = p.kind /\ a.kept = kept
        /\ a.intro = p.intro /\ a.start = p.start /\ a.dropped = dropped /\ a.held = held
        /\ a.first = p.first /\ a.rest = rest
    BY <1>3 DEF Parser
  <2>3. /\ d.limit = q.limit /\ d.mode = q.mode /\ d.kind = q.kind /\ d.kept = kept
        /\ d.intro = q.intro /\ d.start = q.start /\ d.dropped = dropped /\ d.held = held
        /\ d.first = q.first /\ d.rest = rest \o c
    BY <1>1, <1>3 DEF Parser
  <2>4. /\ a.limit = d.limit /\ a.mode = d.mode /\ a.kind = d.kind /\ a.kept = d.kept
        /\ a.intro = d.intro /\ a.start = d.start /\ a.dropped = d.dropped /\ a.held = d.held
        /\ a.first = d.first /\ d.rest = a.rest \o c /\ a.mode # "Partial"
    BY <1>1, <2>2, <2>3
  <2>5. d = Extended(a, c)
    BY <2>1, <2>4, SameButForTheRest
  <2> QED  BY <2>5 DEF Agree, Outcome
<1>4. ASSUME NEW r \in Parser, NEW unread \in Seq(Byte)
      PROVE  /\ [r EXCEPT !.held = <<"ESC">>, !.rest = unread]
                  = With(r, r.kept, r.dropped, <<"ESC">>, unread)
             /\ Len(r.kept) - r.intro < r.limit =>
                  [push_payload_byte(r, b) EXCEPT !.rest = unread]
                    = With(r, Append(r.kept, b), r.dropped, r.held, unread)
             /\ ~ (Len(r.kept) - r.intro < r.limit) =>
                  [push_payload_byte(r, b) EXCEPT !.rest = unread]
                    = With(r, r.kept, r.dropped + 1, r.held, unread)
  <2>1. [r EXCEPT !.held = <<"ESC">>, !.rest = unread]
          = With(r, r.kept, r.dropped, <<"ESC">>, unread)
    BY DEF Parser
  <2>2. ASSUME Len(r.kept) - r.intro < r.limit
        PROVE  [push_payload_byte(r, b) EXCEPT !.rest = unread]
                 = With(r, Append(r.kept, b), r.dropped, r.held, unread)
    <3>1. push_payload_byte(r, b) = [r EXCEPT !.kept = Append(r.kept, b)]
      BY <2>2 DEF push_payload_byte
    <3> QED  BY <3>1 DEF Parser
  <2>3. ASSUME ~ (Len(r.kept) - r.intro < r.limit)
        PROVE  [push_payload_byte(r, b) EXCEPT !.rest = unread]
                 = With(r, r.kept, r.dropped + 1, r.held, unread)
    <3>1. push_payload_byte(r, b) = [r EXCEPT !.dropped = r.dropped + 1]
      BY <2>3 DEF push_payload_byte
    <3> QED  BY <3>1 DEF Parser
  <2> QED  BY <2>1, <2>2, <2>3
<1> HIDE DEF With
<1>5. p.kept \in Seq(Byte) /\ p.dropped \in Nat /\ p.held \in Seq(Byte)
  BY ParserParts
<1>6. Agree(p, Outcome([p EXCEPT !.held = <<"ESC">>, !.rest = rest], <<>>),
            Outcome([q EXCEPT !.held = <<"ESC">>, !.rest = rest \o c], <<>>), c)
  <2>1. [p EXCEPT !.held = <<"ESC">>, !.rest = rest]
          = With(p, p.kept, p.dropped, <<"ESC">>, rest)
    BY <1>4
  <2>2. [q EXCEPT !.held = <<"ESC">>, !.rest = rest \o c]
          = With(q, p.kept, p.dropped, <<"ESC">>, rest \o c)
    <3>1. [q EXCEPT !.held = <<"ESC">>, !.rest = rest \o c]
            = With(q, q.kept, q.dropped, <<"ESC">>, rest \o c)
      BY <1>1, <1>2, <1>4
    <3> QED  BY <1>1, <3>1
  <2> QED  BY <1>2, <1>3, <1>5, <2>1, <2>2
<1>7. Agree(p, Outcome([push_payload_byte(p, b) EXCEPT !.rest = rest], <<>>),
            Outcome([push_payload_byte(q, b) EXCEPT !.rest = rest \o c], <<>>), c)
  <2>1. CASE Len(p.kept) - p.intro < p.limit
    <3>1. /\ [push_payload_byte(p, b) EXCEPT !.rest = rest]
               = With(p, Append(p.kept, b), p.dropped, p.held, rest)
          /\ [push_payload_byte(q, b) EXCEPT !.rest = rest \o c]
               = With(q, Append(p.kept, b), p.dropped, p.held, rest \o c)
      <4>1. Len(q.kept) - q.intro < q.limit
        BY <1>1, <2>1
      <4>2. [push_payload_byte(p, b) EXCEPT !.rest = rest]
              = With(p, Append(p.kept, b), p.dropped, p.held, rest)
        BY <1>4, <2>1
      <4>3. [push_payload_byte(q, b) EXCEPT !.rest = rest \o c]
              = With(q, Append(q.kept, b), q.dropped, q.held, rest \o c)
        BY <1>1, <1>2, <1>4, <4>1
      <4> QED  BY <1>1, <4>2, <4>3
    <3> QED  BY <1>2, <1>3, <1>5, <3>1
  <2>2. CASE ~ (Len(p.kept) - p.intro < p.limit)
    <3>1. /\ [push_payload_byte(p, b) EXCEPT !.rest = rest]
               = With(p, p.kept, p.dropped + 1, p.held, rest)
          /\ [push_payload_byte(q, b) EXCEPT !.rest = rest \o c]
               = With(q, p.kept, p.dropped + 1, p.held, rest \o c)
      <4>1. ~ (Len(q.kept) - q.intro < q.limit)
        BY <1>1, <2>2
      <4>2. [push_payload_byte(p, b) EXCEPT !.rest = rest]
              = With(p, p.kept, p.dropped + 1, p.held, rest)
        BY <1>4, <2>2
      <4>3. [push_payload_byte(q, b) EXCEPT !.rest = rest \o c]
              = With(q, q.kept, q.dropped + 1, q.held, rest \o c)
        BY <1>1, <1>2, <1>4, <4>1
      <4> QED  BY <1>1, <4>2, <4>3
    <3> QED  BY <1>2, <1>3, <1>5, <3>1
  <2> QED  BY <2>1, <2>2
<1> QED  BY <1>6, <1>7

LEMMA StringStepAgrees ==
  ASSUME NEW p \in Parser, p.mode = "InString", p.kind # "none", Bounded(p), p.rest # <<>>,
         NEW c \in Seq(Byte), NEW q, q = Extended(p, c)
  PROVE  Agree(p, consume_string(p), consume_string(q), c)
<1> DEFINE b == Head(p.rest)
           rest == Tail(p.rest)
<1>1. /\ q.rest = p.rest \o c /\ q.kind = p.kind /\ q.held = p.held
      /\ p.rest \in Seq(Byte) /\ p.held \in Seq(Byte)
  <2>1. p.rest \in Seq(Byte) /\ p.held \in Seq(Byte)
    BY ParserParts
  <2>2. p.mode # "Partial"
    OBVIOUS
  <2>3. q.rest = p.rest \o c /\ q.kind = p.kind /\ q.held = p.held
    BY <2>2, ExtendedParts
  <2> QED  BY <2>1, <2>3
<1>2. /\ Head(q.rest) = b /\ Tail(q.rest) = rest \o c
      /\ b \in Byte /\ rest \in Seq(Byte)
  <2>1. /\ Head(p.rest \o c) = Head(p.rest) /\ Tail(p.rest \o c) = Tail(p.rest) \o c
        /\ Head(p.rest) \in Byte /\ Tail(p.rest) \in Seq(Byte)
    BY <1>1, FirstByte
  <2> QED  BY <1>1, <2>1
<1>3. /\ <<>> \in Seq(Byte) /\ <<"CAN">> \in Seq(Byte) /\ <<"ESC", "CAN">> \in Seq(Byte)
      /\ p.held \o p.rest \in Seq(Byte)
      /\ held_esc_buffer(q) = (p.held \o p.rest) \o c
      /\ held_esc_buffer(p) = p.held \o p.rest
  <2>1. {"ESC", "CAN"} \subseteq Byte
    BY DEF Byte, Boundary, Control
  <2>2. p.held \o (p.rest \o c) = (p.held \o p.rest) \o c /\ p.held \o p.rest \in Seq(Byte)
    BY <1>1, Joined
  <2> QED  BY <1>1, <2>1, <2>2 DEF held_esc_buffer
<1> DEFINE As(r, unread, again) ==
      IF p.held # <<>>
      THEN CASE b = "\\" -> emit_string_token(r, <<"ESC", "\\">>, unread)
             [] b = "CAN" -> abort_string(r, <<"ESC", "CAN">>, unread)
             [] OTHER -> abort_string(r, <<>>, again)
      ELSE CASE b = "BEL" /\ p.kind = "Osc" -> emit_string_token(r, <<"BEL">>, unread)
             [] b = "ST" -> emit_string_token(r, <<"ST">>, unread)
             [] b = "ESC" -> Outcome([r EXCEPT !.held = <<"ESC">>, !.rest = unread], <<>>)
             [] b = "CAN" -> abort_string(r, <<"CAN">>, unread)
             [] OTHER -> Outcome([push_payload_byte(r, b) EXCEPT !.rest = unread], <<>>)
<1>4. consume_string(p) = As(p, rest, p.held \o p.rest)
  BY <1>3 DEF consume_string
<1>5. consume_string(q) = As(q, rest \o c, (p.held \o p.rest) \o c)
  BY <1>1, <1>2, <1>3 DEF consume_string
<1> HIDE DEF b, rest
<1>6. \A terminator : Agree(p, emit_string_token(p, terminator, rest),
                            emit_string_token(q, terminator, rest \o c), c)
  BY <1>2, EndedStringsAgree
<1>7. \A aborting \in Seq(Byte), again \in Seq(Byte) :
        Agree(p, abort_string(p, aborting, again), abort_string(q, aborting, again \o c), c)
  BY AbortedStringsAgree
<1>8. /\ Agree(p, Outcome([p EXCEPT !.held = <<"ESC">>, !.rest = rest], <<>>),
               Outcome([q EXCEPT !.held = <<"ESC">>, !.rest = rest \o c], <<>>), c)
      /\ Agree(p, Outcome([push_payload_byte(p, b) EXCEPT !.rest = rest], <<>>),
               Outcome([push_payload_byte(q, b) EXCEPT !.rest = rest \o c], <<>>), c)
  BY <1>2, StringsGoOnAlike
<1>9. /\ Agree(p, abort_string(p, <<"ESC", "CAN">>, rest),
               abort_string(q, <<"ESC", "CAN">>, rest \o c), c)
      /\ Agree(p, abort_string(p, <<"CAN">>, rest), abort_string(q, <<"CAN">>, rest \o c), c)
      /\ Agree(p, abort_string(p, <<>>, p.held \o p.rest),
               abort_string(q, <<>>, (p.held \o p.rest) \o c), c)
  BY <1>2, <1>3, <1>7
<1>10. Agree(p, As(p, rest, p.held \o p.rest), As(q, rest \o c, (p.held \o p.rest) \o c), c)
  BY <1>6, <1>8, <1>9
<1> HIDE DEF As
<1> QED  BY <1>4, <1>5, <1>10

LEMMA PasteStepAgrees ==
  ASSUME NEW p \in Parser, p.mode = "InPaste", Bounded(p), p.rest # <<>>,
         NEW c \in Seq(Byte), NEW q, q = Extended(p, c)
  PROVE  Agree(p, consume_paste(p), consume_paste(q), c)
<1> DEFINE candidate == Append(p.held, Head(p.rest))
           rest == Tail(p.rest)
           n == advance_after_break(candidate)
           token == paste_token(p, p.kept, candidate, {"final", "terminated"})
<1>1. /\ q \in Parser /\ q.rest = p.rest \o c
      /\ q.limit = p.limit /\ q.mode = p.mode /\ q.kind = p.kind /\ q.kept = p.kept
      /\ q.intro = p.intro /\ q.start = p.start /\ q.dropped = p.dropped
      /\ q.held = p.held /\ q.first = p.first
  BY ExtendedParts
<1>2. /\ p.rest \in Seq(Byte) /\ p.held \in Seq(Byte) /\ p.kept \in Seq(Byte)
      /\ p.limit \in Limits /\ Len(p.held) \in Nat
  BY ParserParts
<1>3. /\ Head(q.rest) = Head(p.rest) /\ Tail(q.rest) = rest \o c
      /\ Head(p.rest) \in Byte /\ rest \in Seq(Byte) /\ rest \o c \in Seq(Byte)
  <2>1. /\ Head(p.rest \o c) = Head(p.rest) /\ Tail(p.rest \o c) = Tail(p.rest) \o c
        /\ Head(p.rest) \in Byte /\ Tail(p.rest) \in Seq(Byte)
    BY <1>2, FirstByte
  <2> QED  BY <1>1, <2>1, ConcatProperties
<1>4. candidate \in Seq(Byte) /\ Len(candidate) <= 6
  <2>1. candidate \in Seq(Byte) /\ Len(candidate) = Len(p.held) + 1
    BY <1>2, <1>3, AppendProperties
  <2>2. Len(p.held) <= 5
    BY DEF Bounded
  <2> QED  BY <1>2, <2>1, <2>2
<1>5. CASE candidate \in PasteEnds
  <2>1. consume_paste(p) = Emit(p, token, rest)
    BY <1>5 DEF consume_paste
  <2>2. consume_paste(q) = Emit(q, token, rest \o c)
    BY <1>1, <1>3, <1>5 DEF consume_paste, paste_token
  <2> QED  BY <1>1, <1>2, <1>3, <2>1, <2>2, EmitAgrees
<1>6. CASE candidate \notin PasteEnds
  <2> DEFINE With(r, unread) ==
        [r EXCEPT !.kept = p.kept \o Take(candidate, n), !.held = Cut(candidate, n),
                  !.rest = unread]
             a == With(p, rest)
             d == With(q, rest \o c)
             Emptied(r) == [r EXCEPT !.kept = <<>>, !.start = 0, !.first = FALSE]
  <2>1. consume_paste(p) = emit_segment(a)
    BY <1>6 DEF consume_paste
  <2>2. consume_paste(q) = emit_segment(d)
    BY <1>1, <1>3, <1>6 DEF consume_paste
  <2>3. n \in 0 .. Len(candidate)
    <3> HIDE DEF candidate
    <3> QED  BY <1>4, <1>6, ShiftsLeaveAPrefix
  <2>4. /\ p.kept \o Take(candidate, n) \in Seq(Byte) /\ Cut(candidate, n) \in Seq(Byte)
    <3>1. Take(candidate, n) \in Seq(Byte) /\ Cut(candidate, n) \in Seq(Byte)
      BY <1>4, <2>3, TakeAndCut
    <3> QED  BY <1>2, <3>1, ConcatProperties
  <2> HIDE DEF candidate, rest, n
  <2>5. a \in Parser /\ d \in Parser
    BY <1>1, <1>3, <2>4 DEF Parser
  <2>6. /\ a.limit = p.limit /\ a.mode = p.mode /\ a.kind = p.kind
        /\ a.kept = p.kept \o Take(candidate, n)
        /\ a.intro = p.intro /\ a.start = p.start /\ a.dropped = p.dropped
        /\ a.held = Cut(candidate, n) /\ a.first = p.first /\ a.rest = rest
    BY DEF Parser
  <2>7. /\ d.limit = q.limit /\ d.mode = q.mode /\ d.kind = q.kind
        /\ d.kept = p.kept \o Take(candidate, n)
        /\ d.intro = q.intro /\ d.start = q.start /\ d.dropped = q.dropped
        /\ d.held = Cut(candidate, n) /\ d.first = q.first /\ d.rest = rest \o c
    BY <1>1 DEF Parser
  <2>8. /\ a.limit = d.limit /\ a.mode = d.mode /\ a.kind = d.kind /\ a.kept = d.kept
        /\ a.intro = d.intro /\ a.start = d.start /\ a.dropped = d.dropped /\ a.held = d.held
        /\ a.first = d.first /\ d.rest = a.rest \o c /\ a.mode # "Partial"
    BY <1>1, <2>6, <2>7
  <2> HIDE DEF a, d
  <2>9. segment_payload_len(d) = segment_payload_len(a)
    BY <2>8 DEF segment_payload_len
  <2>10. paste_token(d, d.kept, <<>>, {}) = paste_token(a, a.kept, <<>>, {})
    BY <2>8 DEF paste_token
  <2>11. CASE segment_payload_len(a) >= a.limit
    <3> DEFINE x == Emptied(a)
               y == Emptied(d)
    <3>1. /\ emit_segment(a) = Outcome(x, <<paste_token(a, a.kept, <<>>, {})>>)
          /\ emit_segment(d) = Outcome(y, <<paste_token(a, a.kept, <<>>, {})>>)
      <4>1. segment_payload_len(d) >= d.limit
        BY <2>8, <2>9, <2>11
      <4> QED  BY <2>10, <2>11, <4>1 DEF emit_segment
    <3>2. x \in Parser /\ y \in Parser
      BY <2>5, EmptySeq DEF Parser
    <3>3. /\ x.limit = a.limit /\ x.mode = a.mode /\ x.kind = a.kind /\ x.kept = <<>>
          /\ x.intro = a.intro /\ x.start = 0 /\ x.dropped = a.dropped /\ x.held = a.held
          /\ x.first = FALSE /\ x.rest = a.rest
      BY <2>5 DEF Parser
    <3>4. /\ y.limit = d.limit /\ y.mode = d.mode /\ y.kind = d.kind /\ y.kept = <<>>
          /\ y.intro = d.intro /\ y.start = 0 /\ y.dropped = d.dropped /\ y.held = d.held
          /\ y.first = FALSE /\ y.rest = d.rest
      BY <2>5 DEF Parser
    <3> HIDE DEF x, y
    <3>5. /\ x.limit = y.limit /\ x.mode = y.mode /\ x.kind = y.kind /\ x.kept = y.kept
          /\ x.intro = y.intro /\ x.start = y.start /\ x.dropped = y.dropped /\ x.held = y.held
          /\ x.first = y.first /\ y.rest = x.rest \o c /\ x.mode # "Partial"
      BY <2>8, <3>3, <3>4
    <3>6. y = Extended(x, c)
      BY <3>2, <3>5, SameButForTheRest
    <3> QED  BY <2>1, <2>2, <3>1, <3>6 DEF Agree, Outcome
  <2>12. CASE ~ (segment_payload_len(a) >= a.limit)
    <3>1. emit_segment(a) = Outcome(a, <<>>) /\ emit_segment(d) = Outcome(d, <<>>)
      <4>1. ~ (segment_payload_len(d) >= d.limit)
        BY <2>8, <2>9, <2>12
      <4> QED  BY <2>12, <4>1 DEF emit_segment
    <3>2. d = Extended(a, c)
      BY <2>5, <2>8, SameButForTheRest
    <3> QED  BY <2>1, <2>2, <3>1, <3>2 DEF Agree, Outcome
  <2> QED  BY <2>11, <2>12
<1> QED  BY <1>5, <1>6

LEMMA TurnAgrees ==
  ASSUME NEW p \in Parser, Bounded(p), Shape(p), p.rest # <<>>,
         p.mode = "Ground" => p = Ground(p.limit, p.rest),
         NEW c \in Seq(Byte), NEW q, q = Extended(p, c)
  PROVE  Agree(p, Turn(p), Turn(q), c)
<1>1. p.mode \in {"Ground", "InString", "InPaste"}
  BY DEF Parser, Mode, Shape
<1>2. q.mode = p.mode
  <2>1. p.mode # "Partial"
    BY <1>1
  <2> QED  BY <2>1, ExtendedParts
<1>3. CASE p.mode = "Ground"
  <2>1. p.limit \in Limits /\ p.rest \in Seq(Byte)
    BY ParserParts
  <2>2. q = Ground(p.limit, p.rest \o c)
    <3>1. Extended(Ground(p.limit, p.rest), c) = Ground(p.limit, p.rest \o c)
      BY <2>1, GroundExtends
    <3> QED  BY <1>3, <3>1
  <2>3. Agree(p, step(p), step(q), c)
    BY <1>3, <2>1, <2>2, StepAgrees
  <2> QED  BY <1>2, <1>3, <2>3 DEF Turn
<1>4. CASE p.mode = "InString"
  <2>1. p.kind # "none"
    BY <1>4 DEF Shape
  <2>2. Agree(p, consume_string(p), consume_string(q), c)
    BY <1>4, <2>1, StringStepAgrees
  <2> QED  BY <1>2, <1>4, <2>2 DEF Turn
<1>5. CASE p.mode = "InPaste"
  <2>1. Agree(p, consume_paste(p), consume_paste(q), c)
    BY <1>5, PasteStepAgrees
  <2> QED  BY <1>2, <1>5, <2>1 DEF Turn
<1> QED  BY <1>1, <1>3, <1>4, <1>5

-----------------------------------------------------------------------------
(***************************************************************************)
(* A call of feed ends.  Each turn reads a byte, or puts back the ones     *)
(* that aborted a string and leaves it: three turns a byte are enough.     *)
(***************************************************************************)
Left(p) ==
  3 * Len(p.rest) + IF p.mode = "InString" THEN IF p.held = <<>> THEN 2 ELSE 4 ELSE 0

\* A parser at a token boundary keeps nothing of what it has read.
AtBoundary(p) == p.mode = "Ground" => p = Ground(p.limit, p.rest)

Progresses(p, o) == AtBoundary(o.parser) /\ Left(o.parser) < Left(p)

LEMMA EmitProgresses ==
  ASSUME NEW p \in Parser, NEW t, NEW rest \in Seq(Byte), 3 * Len(rest) < Left(p)
  PROVE  Progresses(p, Emit(p, t, rest))
<1>1. PICK next : next = Ground(p.limit, rest)
  OBVIOUS
<1>2. next.mode = "Ground" /\ next.limit = p.limit /\ next.rest = rest
  BY <1>1 DEF Ground
<1>3. AtBoundary(next)
  BY <1>1, <1>2 DEF AtBoundary
<1>4. Left(next) = 3 * Len(rest)
  <2>1. Len(rest) \in Nat
    BY LenProperties
  <2> QED  BY <1>2, <2>1 DEF Left
<1>5. Emit(p, t, rest).parser = next
  BY <1>1 DEF Emit, Outcome
<1> QED  BY <1>3, <1>4, <1>5 DEF Progresses

LEMMA StepEmitProgresses ==
  ASSUME NEW p \in Parser, p.mode = "Ground", NEW type, NEW n \in 1 .. Len(p.rest)
  PROVE  Progresses(p, Step_Emit(p, type, n))
<1>1. p.rest \in Seq(Byte) /\ Len(p.rest) \in Nat /\ n \in 0 .. Len(p.rest)
  BY ParserParts
<1>2. Cut(p.rest, n) \in Seq(Byte) /\ Len(Cut(p.rest, n)) = Len(p.rest) - n
  BY <1>1, TakeAndCut
<1>3. 3 * Len(Cut(p.rest, n)) < Left(p)
  <2>1. Left(p) = 3 * Len(p.rest)
    BY <1>1 DEF Left
  <2> QED  BY <1>1, <1>2, <2>1
<1> QED  BY <1>2, <1>3, EmitProgresses DEF Step_Emit

LEMMA NeedMoreProgresses ==
  ASSUME NEW p \in Parser, p.mode = "Ground", p.rest # <<>>
  PROVE  Progresses(p, NeedMore(p))
<1>1. PICK next : next = [p EXCEPT !.mode = "Partial", !.kept = p.rest, !.rest = <<>>]
  OBVIOUS
<1>2. next.mode = "Partial" /\ next.rest = <<>>
  BY <1>1 DEF Parser
<1>3. Left(next) = 0
  BY <1>2 DEF Left
<1>4. 0 < Left(p)
  <2>1. p.rest \in Seq(Byte) /\ Len(p.rest) \in Nat
    BY ParserParts
  <2>2. Len(p.rest) # 0
    BY <2>1, EmptySeq
  <2>3. Left(p) = 3 * Len(p.rest)
    BY <2>1 DEF Left
  <2> QED  BY <2>1, <2>2, <2>3
<1>5. NeedMore(p).parser = next
  BY <1>1 DEF NeedMore, Outcome
<1> QED  BY <1>2, <1>3, <1>4, <1>5 DEF Progresses, AtBoundary

\* A string or a paste is entered behind its introducer.
LEMMA EnteringProgresses ==
  ASSUME NEW p \in Parser, p.mode = "Ground", p.held = <<>>, NEW end \in 2 .. Len(p.rest) + 1
  PROVE  /\ \A kind, intro : Progresses(p, EnterString(p, kind, intro, end))
         /\ Progresses(p, EnterPaste(p, end))
<1>1. p.rest \in Seq(Byte) /\ Len(p.rest) \in Nat /\ end - 1 \in 1 .. Len(p.rest)
      /\ end - 1 \in 0 .. Len(p.rest)
  BY ParserParts
<1>2. Len(Cut(p.rest, end - 1)) = Len(p.rest) - (end - 1)
  BY <1>1, TakeAndCut
<1>3. Left(p) = 3 * Len(p.rest)
  BY <1>1 DEF Left
<1>4. ASSUME NEW kind, NEW intro
      PROVE  Progresses(p, EnterString(p, kind, intro, end))
  <2>1. PICK next : next = EnterString(p, kind, intro, end).parser
    OBVIOUS
  <2>2. next.mode = "InString" /\ next.held = <<>> /\ next.rest = Cut(p.rest, end - 1)
    BY <2>1 DEF EnterString, Outcome, Parser
  <2>3. Left(next) = 3 * (Len(p.rest) - (end - 1)) + 2
    BY <1>2, <2>2 DEF Left
  <2>4. Left(next) < Left(p)
    BY <1>1, <1>3, <2>3
  <2> QED  BY <2>1, <2>2, <2>4 DEF Progresses, AtBoundary
<1>5. Progresses(p, EnterPaste(p, end))
  <2>1. PICK next : next = EnterPaste(p, end).parser
    OBVIOUS
  <2>2. next.mode = "InPaste" /\ next.rest = Cut(p.rest, end - 1)
    BY <2>1 DEF EnterPaste, Outcome, Parser
  <2>3. Left(next) = 3 * (Len(p.rest) - (end - 1))
    BY <1>1, <1>2, <2>2 DEF Left
  <2>4. Left(next) < Left(p)
    BY <1>1, <1>3, <2>3
  <2> QED  BY <2>1, <2>2, <2>4 DEF Progresses, AtBoundary
<1> QED  BY <1>4, <1>5

LEMMA SequencesProgress ==
  ASSUME NEW p \in Parser, p.mode = "Ground", p.held = <<>>, p.rest # <<>>,
         NEW intro \in 1 .. 2, intro <= Len(p.rest)
  PROVE  /\ Progresses(p, parse_csi(p, intro))
         /\ \A kind : Progresses(p, parse_string(p, kind, intro))
<1> DEFINE prefix == scan_control_prefix(p.rest, intro + 1, p.limit)
<1>1. p.rest \in Seq(Byte) /\ Len(p.rest) \in Nat /\ p.limit \in Nat
  BY ParserParts
<1>2. intro + 1 \in 1 .. Len(p.rest) + 1
  BY <1>1
<1>3. /\ prefix.ends \in {"NeedMore", "Complete", "Aborted", "Overflow"}
      /\ prefix.ends # "NeedMore" => prefix.at \in intro + 1 .. Len(p.rest) + 1
  BY <1>1, <1>2, PrefixesEnd
<1> HIDE DEF prefix
<1>4. Progresses(p, NeedMore(p))
  BY NeedMoreProgresses
<1>5. ASSUME prefix.ends # "NeedMore"
      PROVE  /\ \A type : Progresses(p, Step_Emit(p, type, prefix.at - 1))
             /\ \A kind : Progresses(p, EnterString(p, kind, intro, prefix.at))
             /\ Progresses(p, EnterPaste(p, prefix.at))
  <2>1. prefix.at \in 2 .. Len(p.rest) + 1 /\ prefix.at - 1 \in 1 .. Len(p.rest)
    BY <1>1, <1>3, <1>5
  <2> QED  BY <2>1, StepEmitProgresses, EnteringProgresses
<1>6. \A kind : Progresses(p, EnterString(p, kind, intro, intro + 1))
  <2>1. intro + 1 \in 2 .. Len(p.rest) + 1
    BY <1>1
  <2> QED  BY <2>1, EnteringProgresses
<1>7. Progresses(p, parse_csi(p, intro))
  BY <1>3, <1>4, <1>5 DEF parse_csi, prefix
<1>8. \A kind : Progresses(p, parse_string(p, kind, intro))
  BY <1>3, <1>4, <1>5, <1>6 DEF parse_string, prefix
<1> QED  BY <1>7, <1>8

LEMMA EscapesProgress ==
  ASSUME NEW p \in Parser, p.mode = "Ground", p.held = <<>>, p.rest # <<>>
  PROVE  Progresses(p, parse_escape(p))
<1>1. p.rest \in Seq(Byte) /\ Len(p.rest) \in Nat /\ p.limit \in Nat
  BY ParserParts
<1>2. Len(p.rest) # 0
  BY <1>1, EmptySeq
<1>3. Progresses(p, NeedMore(p))
  BY NeedMoreProgresses
<1>4. CASE Len(p.rest) = 1
  BY <1>3, <1>4 DEF parse_escape
<1>5. CASE Len(p.rest) # 1
  <2>1. 2 <= Len(p.rest) /\ 2 \in 1 .. Len(p.rest) /\ 2 \in 1 .. Len(p.rest) + 1
    <3>1. \A n \in Nat : n # 0 /\ n # 1 => 2 <= n /\ 2 \in 1 .. n /\ 2 \in 1 .. n + 1
      OBVIOUS
    <3> QED  BY <1>1, <1>2, <1>5, <3>1
  <2>2. /\ Progresses(p, parse_csi(p, 2))
        /\ \A kind : Progresses(p, parse_string(p, kind, 2))
    BY <2>1, SequencesProgress
  <2>3. Progresses(p, Step_Emit(p, "Malformed", 2))
    BY <2>1, StepEmitProgresses
  <2>4. Progresses(p, parse_plain_escape(p))
    <3> DEFINE end == AfterRun(Intermediate, p.rest, 2)
    <3>1. end \in 2 .. Len(p.rest) + 1
      BY <1>1, <2>1, RunsEnd
    <3> HIDE DEF end
    <3>2. parse_plain_escape(p) =
            IF end - 2 > p.limit THEN Step_Emit(p, "Malformed", 1 + p.limit)
            ELSE IF end > Len(p.rest) THEN NeedMore(p)
            ELSE IF p.rest[end] \in EscapeFinal THEN Step_Emit(p, "Esc", end)
            ELSE Step_Emit(p, "Malformed", IF p.rest[end] = "CAN" THEN end ELSE end - 1)
      BY DEF parse_plain_escape, end
    <3>3. CASE end - 2 > p.limit
      <4>1. 1 + p.limit \in 1 .. Len(p.rest)
        BY <1>1, <3>1, <3>3
      <4> QED  BY <3>2, <3>3, <4>1, StepEmitProgresses
    <3>4. CASE ~ (end - 2 > p.limit) /\ end > Len(p.rest)
      BY <1>3, <3>2, <3>4
    <3>5. CASE ~ (end - 2 > p.limit) /\ ~ (end > Len(p.rest))
      <4>1. end \in 1 .. Len(p.rest) /\ end - 1 \in 1 .. Len(p.rest)
        BY <1>1, <3>1, <3>5
      <4>2. /\ Progresses(p, Step_Emit(p, "Esc", end))
            /\ Progresses(p, Step_Emit(p, "Malformed", end))
            /\ Progresses(p, Step_Emit(p, "Malformed", end - 1))
        BY <4>1, StepEmitProgresses
      <4> QED  BY <3>2, <3>5, <4>2
    <3> QED  BY <3>3, <3>4, <3>5
  <2> QED  BY <1>5, <2>2, <2>3, <2>4 DEF parse_escape
<1> QED  BY <1>4, <1>5

LEMMA TextProgresses ==
  ASSUME NEW p \in Parser, p.mode = "Ground", p.rest # <<>>
  PROVE  Progresses(p, parse_text(p))
<1> DEFINE run == TextRun(p.rest, p.limit)
           width == utf8_width(p.rest[run + 1])
<1>1. p.rest \in Seq(Byte) /\ Len(p.rest) \in Nat /\ p.limit \in Nat
  BY ParserParts
<1>2. Len(p.rest) # 0
  BY <1>1, EmptySeq
<1>3. run \in 0 .. Len(p.rest) /\ run \in Nat
  BY <1>1, TextRunsEnd
<1>4. width \in 0 .. 3
  BY DEF utf8_width
<1>5. parse_text(p) =
        IF run > 0 /\ run >= p.limit THEN Step_Emit(p, "Text", run)
        ELSE IF run = Len(p.rest) THEN NeedMore(p)
        ELSE IF p.rest[run + 1] \in Boundary \/ width = 0
        THEN IF run > 0 THEN Step_Emit(p, "Text", run) ELSE Step_Emit(p, "Malformed", 1)
        ELSE IF run + width > Len(p.rest) THEN NeedMore(p)
        ELSE IF run > 0 THEN Step_Emit(p, "Text", run)
        ELSE Step_Emit(p, "Malformed", width)
  BY DEF parse_text
<1> HIDE DEF run, width
<1>6. run > 0 => Progresses(p, Step_Emit(p, "Text", run))
  <2>1. run > 0 => run \in 1 .. Len(p.rest)
    BY <1>1, <1>3
  <2> QED  BY <2>1, StepEmitProgresses
<1>7. Progresses(p, Step_Emit(p, "Malformed", 1)) /\ Progresses(p, NeedMore(p))
  <2>1. 1 \in 1 .. Len(p.rest)
    BY <1>1, <1>2
  <2> QED  BY <2>1, StepEmitProgresses, NeedMoreProgresses
<1>8. ASSUME ~ (run > 0), ~ (run + width > Len(p.rest)), width # 0
      PROVE  Progresses(p, Step_Emit(p, "Malformed", width))
  <2>1. width \in 1 .. Len(p.rest)
    BY <1>1, <1>3, <1>4, <1>8
  <2> QED  BY <2>1, StepEmitProgresses
<1> QED  BY <1>5, <1>6, <1>7, <1>8

LEMMA StepProgresses ==
  ASSUME NEW p \in Parser, p.mode = "Ground", p.held = <<>>, p.rest # <<>>
  PROVE  Progresses(p, step(p))
<1>1. p.rest \in Seq(Byte) /\ Len(p.rest) \in Nat
  BY ParserParts
<1>2. 1 <= Len(p.rest) /\ 1 \in 1 .. Len(p.rest)
  <2>1. Len(p.rest) # 0
    BY <1>1, EmptySeq
  <2> QED  BY <1>1, <2>1
<1>3. Progresses(p, parse_escape(p)) /\ Progresses(p, parse_text(p))
  BY EscapesProgress, TextProgresses
<1>4. Progresses(p, parse_csi(p, 1)) /\ \A kind : Progresses(p, parse_string(p, kind, 1))
  BY <1>2, SequencesProgress
<1>5. Progresses(p, Step_Emit(p, "Malformed", 1)) /\ Progresses(p, Step_Emit(p, "Control", 1))
  BY <1>2, StepEmitProgresses
<1> QED  BY <1>3, <1>4, <1>5 DEF step

LEMMA StringStepProgresses ==
  ASSUME NEW p \in Parser, p.mode = "InString", Bounded(p), p.rest # <<>>
  PROVE  Progresses(p, consume_string(p))
<1> DEFINE b == Head(p.rest)
           rest == Tail(p.rest)
           n == Len(p.rest)
           m == Len(p.held)
<1>1. /\ p.rest \in Seq(Byte) /\ p.held \in Seq(Byte) /\ m \in Nat /\ n \in Nat
  BY ParserParts
<1>2. rest \in Seq(Byte) /\ Len(rest) = n - 1 /\ n # 0
  <2>1. rest \in Seq(Byte) /\ Len(rest) = n - 1
    BY <1>1, HeadTailProperties
  <2> QED  BY <1>1, <2>1, EmptySeq
<1>3. m <= 1
  BY DEF Bounded
<1>4. Left(p) = IF p.held = <<>> THEN 3 * n + 2 ELSE 3 * n + 4
  BY DEF Left
<1>5. ASSUME NEW t, NEW unread \in Seq(Byte), 3 * Len(unread) < Left(p)
      PROVE  Progresses(p, Emit(p, t, unread))
  BY <1>5, EmitProgresses
<1>6. ASSUME NEW aborting \in Seq(Byte), NEW unread \in Seq(Byte),
             3 * (Len(aborting) + Len(unread)) < Left(p)
      PROVE  Progresses(p, abort_string(p, aborting, unread))
  <2>1. /\ Len(aborting) \in Nat /\ Len(unread) \in Nat
        /\ aborting \o unread \in Seq(Byte)
        /\ Len(aborting \o unread) = Len(aborting) + Len(unread)
    BY <1>6, LenProperties, ConcatProperties
  <2>2. Left(p) \in Nat
    BY <1>1, <1>4
  <2>3. 3 * Len(unread) < Left(p) /\ 3 * Len(aborting \o unread) < Left(p)
    BY <1>6, <2>1, <2>2
  <2>4. \A t : Progresses(p, Emit(p, t, unread)) /\ Progresses(p, Emit(p, t, aborting \o unread))
    BY <1>5, <1>6, <2>1, <2>3
  <2> QED  BY <2>4 DEF abort_string, emit_string_token
<1>7. \A t : Progresses(p, emit_string_token(p, t, rest))
  <2>1. 3 * Len(rest) < Left(p)
    BY <1>1, <1>2, <1>4
  <2> QED  BY <1>2, <1>5, <2>1 DEF emit_string_token
<1>8. /\ <<>> \in Seq(Byte) /\ <<"CAN">> \in Seq(Byte) /\ <<"ESC", "CAN">> \in Seq(Byte)
      /\ Len(<<>>) = 0 /\ Len(<<"CAN">>) = 1 /\ Len(<<"ESC", "CAN">>) = 2
  <2>1. {"ESC", "CAN"} \subseteq Byte
    BY DEF Byte, Boundary, Control
  <2> QED  BY <2>1
<1> HIDE DEF b, rest, n, m
<1>9. CASE p.held # <<>>
  <2>1. m = 1
    <3>1. m # 0
      BY <1>1, <1>9, EmptySeq DEF m
    <3> QED  BY <1>1, <1>3, <3>1
  <2>2. Progresses(p, abort_string(p, <<"ESC", "CAN">>, rest))
    <3>1. 3 * (2 + (n - 1)) < Left(p)
      BY <1>1, <1>4, <1>9
    <3> QED  BY <1>2, <1>6, <1>8, <3>1
  <2>3. Progresses(p, abort_string(p, <<>>, held_esc_buffer(p)))
    <3>1. held_esc_buffer(p) \in Seq(Byte) /\ Len(held_esc_buffer(p)) = m + n
      BY <1>1, ConcatProperties DEF held_esc_buffer, m, n
    <3>2. 3 * (0 + (m + n)) < Left(p)
      BY <1>1, <1>4, <1>9, <2>1
    <3> QED  BY <1>6, <1>8, <3>1, <3>2
  <2> QED  BY <1>7, <1>9, <2>2, <2>3 DEF consume_string, rest
<1>10. CASE p.held = <<>>
  <2>1. Progresses(p, abort_string(p, <<"CAN">>, rest))
    <3>1. 3 * (1 + (n - 1)) < Left(p)
      BY <1>1, <1>4, <1>10
    <3> QED  BY <1>2, <1>6, <1>8, <3>1
  <2>2. Progresses(p, Outcome([p EXCEPT !.held = <<"ESC">>, !.rest = rest], <<>>))
    <3>1. PICK next : next = [p EXCEPT !.held = <<"ESC">>, !.rest = rest]
      OBVIOUS
    <3>2. next.mode = "InString" /\ next.held # <<>> /\ next.rest = rest
      BY <3>1 DEF Parser
    <3>3. Left(next) = 3 * (n - 1) + 4
      BY <1>2, <3>2 DEF Left
    <3>4. Left(next) < Left(p)
      BY <1>1, <1>4, <1>10, <3>3
    <3> QED  BY <3>1, <3>2, <3>4 DEF Progresses, AtBoundary, Outcome
  <2>3. Progresses(p, Outcome([push_payload_byte(p, b) EXCEPT !.rest = rest], <<>>))
    <3>1. PICK next : next = [push_payload_byte(p, b) EXCEPT !.rest = rest]
      OBVIOUS
    <3>2. next.mode = "InString" /\ next.held = <<>> /\ next.rest = rest
      BY <1>10, <3>1 DEF Parser, push_payload_byte
    <3>3. Left(next) = 3 * (n - 1) + 2
      BY <1>2, <3>2 DEF Left
    <3>4. Left(next) < Left(p)
      BY <1>1, <1>4, <1>10, <3>3
    <3> QED  BY <3>1, <3>2, <3>4 DEF Progresses, AtBoundary, Outcome
  <2> QED  BY <1>7, <1>10, <2>1, <2>2, <2>3 DEF consume_string, rest, b
<1> QED  BY <1>9, <1>10

LEMMA PasteStepProgresses ==
  ASSUME NEW p \in Parser, p.mode = "InPaste", p.rest # <<>>
  PROVE  Progresses(p, consume_paste(p))
<1> DEFINE candidate == Append(p.held, Head(p.rest))
           rest == Tail(p.rest)
           shift == advance_after_break(candidate)
           n == Len(p.rest)
<1>1. p.rest \in Seq(Byte) /\ n \in Nat
  BY ParserParts
<1>2. rest \in Seq(Byte) /\ Len(rest) = n - 1 /\ n # 0
  <2>1. rest \in Seq(Byte) /\ Len(rest) = n - 1
    BY <1>1, HeadTailProperties
  <2> QED  BY <1>1, <2>1, EmptySeq
<1>3. Left(p) = 3 * n
  BY <1>1 DEF Left
<1>4. CASE candidate \in PasteEnds
  <2>1. 3 * Len(rest) < Left(p)
    BY <1>1, <1>2, <1>3
  <2> QED  BY <1>2, <1>4, <2>1, EmitProgresses DEF consume_paste
<1>5. CASE candidate \notin PasteEnds
  <2>1. PICK q : q = [p EXCEPT !.kept = p.kept \o Take(candidate, shift),
                              !.held = Cut(candidate, shift), !.rest = rest]
    OBVIOUS
  <2>2. consume_paste(p) = emit_segment(q)
    BY <1>5, <2>1 DEF consume_paste
  <2> HIDE DEF candidate, shift, rest
  <2>3. PICK next : next = emit_segment(q).parser
    OBVIOUS
  <2>4. next.mode = "InPaste" /\ next.rest = rest
    BY <2>1, <2>3 DEF Parser, emit_segment, Outcome
  <2>5. Left(next) < Left(p)
    <3>1. Left(next) = 3 * (n - 1)
      BY <1>1, <1>2, <2>4 DEF Left
    <3> QED  BY <1>1, <1>3, <3>1
  <2> QED  BY <2>2, <2>3, <2>4, <2>5 DEF Progresses, AtBoundary
<1> QED  BY <1>4, <1>5

LEMMA TurnProgresses ==
  ASSUME NEW p \in Parser, Bounded(p), Shape(p), p.rest # <<>>
  PROVE  Progresses(p, Turn(p))
<1>1. p.mode \in {"Ground", "InString", "InPaste"}
  BY DEF Parser, Mode, Shape
<1>2. CASE p.mode = "Ground"
  <2>1. p.held = <<>>
    BY <1>2 DEF Bounded
  <2> QED  BY <1>2, <2>1, StepProgresses DEF Turn
<1>3. CASE p.mode = "InString"
  BY <1>3, StringStepProgresses DEF Turn
<1>4. CASE p.mode = "InPaste"
  BY <1>4, PasteStepProgresses DEF Turn
<1> QED  BY <1>1, <1>2, <1>3, <1>4

-----------------------------------------------------------------------------
(***************************************************************************)
(* The turns of a call of feed: f[i] is the outcome of the first i.        *)
(***************************************************************************)
Runs(f, n, start) ==
  /\ f[0] = Outcome(start, <<>>)
  /\ \A i \in 1 .. n : f[i] = another_turn(f[i - 1])

Reaches(start, o) == \E n \in Nat : \E f : Runs(f, n, start) /\ f[n] = o

Lawful(o) == Good(o) /\ AtBoundary(o.parser)

LEMMA LeftIsNat ==
  ASSUME NEW p \in Parser
  PROVE  Left(p) \in Nat /\ Left(p) >= 3 * Len(p.rest)
<1> DEFINE n == Len(p.rest)
           more == IF p.mode = "InString" THEN IF p.held = <<>> THEN 2 ELSE 4 ELSE 0
<1>1. n \in Nat /\ more \in {0, 2, 4}
  BY ParserParts
<1>2. Left(p) = 3 * n + more
  BY DEF Left
<1> HIDE DEF n, more
<1>3. 3 * n + more \in Nat /\ 3 * n + more >= 3 * n
  BY <1>1
<1> QED  BY <1>2, <1>3 DEF n

LEMMA AnotherTurn ==
  ASSUME NEW o
  PROVE  another_turn(o) =
           IF o.parser.rest = <<>> THEN o
           ELSE Outcome(Turn(o.parser).parser, o.tokens \o Turn(o.parser).tokens)
<1> DEFINE next == Outcome(Turn(o.parser).parser, o.tokens \o Turn(o.parser).tokens)
<1>1. { Outcome(turn.parser, o.tokens \o turn.tokens) : turn \in {Turn(o.parser)} } = {next}
  OBVIOUS
<1>2. another_turn(o) = IF o.parser.rest = <<>> THEN o ELSE CHOOSE x \in {next} : TRUE
  BY <1>1 DEF another_turn
<1> HIDE DEF next
<1>3. (CHOOSE x \in {next} : TRUE) = next
  OBVIOUS
<1>4. another_turn(o) = IF o.parser.rest = <<>> THEN o ELSE next
  BY <1>2, <1>3
<1> QED  BY <1>4 DEF next

LEMMA TurnsAreLawful ==
  ASSUME NEW o, Lawful(o)
  PROVE  /\ Lawful(another_turn(o))
         /\ o.parser.rest # <<>> => Left(another_turn(o).parser) < Left(o.parser)
<1>1. /\ o.parser \in Parser /\ Bounded(o.parser) /\ Shape(o.parser) /\ o.tokens \in Seq(Tokens)
  BY DEF Lawful, Good
<1>2. CASE o.parser.rest = <<>>
  BY <1>2, AnotherTurn
<1>3. CASE o.parser.rest # <<>>
  <2>1. PICK turn : turn = Turn(o.parser)
    OBVIOUS
  <2>2. Good(turn) /\ Progresses(o.parser, turn)
    BY <1>1, <1>3, <2>1, TurnIsGood, TurnProgresses
  <2>3. PICK next : next = another_turn(o)
    OBVIOUS
  <2>4. next.parser = turn.parser /\ next.tokens = o.tokens \o turn.tokens
    BY <1>3, <2>1, <2>3, AnotherTurn DEF Outcome
  <2>5. next.tokens \in Seq(Tokens)
    BY <1>1, <2>2, <2>4, ConcatProperties DEF Good
  <2>6. Good(next) /\ AtBoundary(next.parser) /\ Left(next.parser) < Left(o.parser)
    BY <2>2, <2>4, <2>5 DEF Good, Progresses
  <2> QED  BY <2>3, <2>6 DEF Lawful
<1> QED  BY <1>2, <1>3

\* In a run every outcome is lawful, and each turn leaves less to do.
LEMMA RunsAreLawful ==
  ASSUME NEW start, Lawful(Outcome(start, <<>>)), NEW n \in Nat, NEW f, Runs(f, n, start)
  PROVE  \A i \in 0 .. n :
           /\ Lawful(f[i])
           /\ f[i].parser.rest = <<>> \/ Left(f[i].parser) + i <= Left(start)
<1> DEFINE Fine(i) == /\ Lawful(f[i])
                      /\ f[i].parser.rest = <<>> \/ Left(f[i].parser) + i <= Left(start)
           P == {i \in 0 .. n : Fine(i)}
<1>1. \A o : Lawful(o) => Left(o.parser) \in Nat
  <2>1. ASSUME NEW o, Lawful(o) PROVE Left(o.parser) \in Nat
    <3>1. o.parser \in Parser
      BY <2>1 DEF Lawful, Good
    <3> QED  BY <3>1, LeftIsNat
  <2> QED  BY <2>1
<1>2. 0 \in P
  <2>1. f[0] = Outcome(start, <<>>) /\ f[0].parser = start
    BY DEF Runs, Outcome
  <2>2. Left(start) \in Nat
    BY <1>1, <2>1
  <2>3. Left(f[0].parser) + 0 <= Left(start)
    BY <2>1, <2>2
  <2> QED  BY <2>1, <2>3
<1>3. ASSUME NEW i \in 1 .. n, i - 1 \in P PROVE i \in P
  <2>1. Lawful(f[i - 1]) /\ f[i] = another_turn(f[i - 1])
    BY <1>3 DEF Runs
  <2>2. Lawful(f[i])
    BY <2>1, TurnsAreLawful
  <2>3. CASE f[i - 1].parser.rest = <<>>
    <3>1. f[i] = f[i - 1]
      BY <2>1, <2>3, AnotherTurn
    <3> QED  BY <2>2, <2>3, <3>1
  <2>4. CASE f[i - 1].parser.rest # <<>>
    <3> DEFINE a == Left(f[i - 1].parser)
               b == Left(f[i].parser)
               s == Left(start)
    <3>1. a + (i - 1) <= s
      BY <1>3, <2>4
    <3>2. b < a
      BY <2>1, <2>4, TurnsAreLawful
    <3>3. a \in Nat /\ b \in Nat /\ s \in Nat
      <4>1. Outcome(start, <<>>).parser = start
        BY DEF Outcome
      <4> QED  BY <1>1, <2>1, <2>2, <4>1
    <3> HIDE DEF a, b, s
    <3>4. b + i <= s
      BY <3>1, <3>2, <3>3
    <3> QED  BY <2>2, <3>4 DEF b, s
  <2> QED  BY <2>3, <2>4
<1>4. P = 0 .. n
  <2>1. P \in SUBSET (0 .. n)
    OBVIOUS
  <2> HIDE DEF P
  <2> QED  BY <1>2, <1>3, <2>1, CountingUp
<1>5. \A i \in 0 .. n : Fine(i)
  <2> HIDE DEF Fine
  <2> QED  BY <1>4
<1> QED  BY <1>5

\* A run goes on from each of its outcomes in one way, and not at all once
\* the chunk is read.
LEMMA SameRuns ==
  ASSUME NEW start, NEW n \in Nat, NEW f, Runs(f, n, start),
         NEW m \in Nat, NEW g, Runs(g, m, start), n <= m
  PROVE  \A i \in 0 .. n : f[i] = g[i]
<1> DEFINE P == {i \in 0 .. n : f[i] = g[i]}
<1>1. 0 \in P
  BY DEF Runs
<1>2. ASSUME NEW i \in 1 .. n, i - 1 \in P PROVE i \in P
  <2>1. i \in 1 .. m /\ f[i - 1] = g[i - 1]
    BY <1>2
  <2> QED  BY <2>1 DEF Runs
<1>3. P = 0 .. n
  <2>1. P \in SUBSET (0 .. n)
    OBVIOUS
  <2> HIDE DEF P
  <2> QED  BY <1>1, <1>2, <2>1, CountingUp
<1> QED  BY <1>3

LEMMA RunsStopThere ==
  ASSUME NEW start, NEW n \in Nat, NEW f, Runs(f, n, start),
         NEW i \in 0 .. n, f[i].parser.rest = <<>>
  PROVE  f[n] = f[i]
<1> DEFINE N == n - i
           P == {k \in 0 .. N : f[i + k] = f[i]}
<1>1. N \in Nat /\ i + N = n /\ \A k \in 1 .. N : i + k \in 1 .. n /\ (i + k) - 1 = i + (k - 1)
  OBVIOUS
<1>2. 0 \in P
  OBVIOUS
<1>3. ASSUME NEW k \in 1 .. N, k - 1 \in P PROVE k \in P
  <2>1. f[i + (k - 1)] = f[i]
    BY <1>3
  <2>2. f[i + k] = another_turn(f[i])
    BY <1>1, <2>1 DEF Runs
  <2>3. f[i + k] = f[i]
    BY <2>2, AnotherTurn
  <2> QED  BY <2>3
<1>4. P = 0 .. N
  <2>1. P \in SUBSET (0 .. N)
    OBVIOUS
  <2> HIDE DEF P, N
  <2> QED  BY <1>1, <1>2, <1>3, <2>1, CountingUp
<1>5. f[i + N] = f[i]
  <2>1. N \in 0 .. N
    BY <1>1
  <2> HIDE DEF N
  <2> QED  BY <1>4, <2>1
<1> QED  BY <1>1, <1>5

LEMMA RunsEndAlike ==
  ASSUME NEW start, NEW n \in Nat, NEW f, Runs(f, n, start), f[n].parser.rest = <<>>,
         NEW m \in Nat, NEW g, Runs(g, m, start), g[m].parser.rest = <<>>
  PROVE  f[n] = g[m]
<1>1. CASE n <= m
  <2>1. f[n] = g[n] /\ n \in 0 .. m
    BY <1>1, SameRuns
  <2> QED  BY <2>1, RunsStopThere
<1>2. CASE m <= n
  <2>1. f[m] = g[m] /\ m \in 0 .. n
    BY <1>2, SameRuns
  <2> QED  BY <2>1, RunsStopThere
<1> QED  BY <1>1, <1>2

-----------------------------------------------------------------------------
LEMMA DrainedRuns ==
  ASSUME NEW start, NEW N, N = 3 * Len(start.rest), N \in Nat
  PROVE  \E f : Runs(f, N, start) /\ f[N] = Drained(start)
<1> DEFINE Turned(before) == CHOOSE o \in { another_turn(x) : x \in {before} } : TRUE
           E(f, m) == f = [i \in 0 .. m |-> IF i = 0 THEN Outcome(start, <<>>)
                             ELSE Turned(f[i - 1])]
           P == {m \in 0 .. N : \E f : E(f, m)}
<1>1. \A before : Turned(before) = another_turn(before)
  OBVIOUS
<1>2. Drained(start) = (CHOOSE f : E(f, N))[N]
  BY DEF Drained
<1> HIDE DEF Turned
<1>3. 0 \in P
  <2>1. E([i \in 0 .. 0 |-> Outcome(start, <<>>)], 0)
    OBVIOUS
  <2> HIDE DEF E
  <2> QED  BY <2>1
<1>4. ASSUME NEW m \in 1 .. N, m - 1 \in P
      PROVE  m \in P
  <2>1. PICK f : E(f, m - 1)
    BY <1>4
  <2> DEFINE g == [i \in 0 .. m |-> IF i = m THEN Turned(f[m - 1]) ELSE f[i]]
  <2>2. E(g, m)
    <3>1. ASSUME NEW i \in 0 .. m
          PROVE  g[i] = IF i = 0 THEN Outcome(start, <<>>) ELSE Turned(g[i - 1])
      BY <2>1
    <3> QED  BY <3>1
  <2> HIDE DEF E
  <2> QED  BY <2>2
<1>5. P = 0 .. N
  <2>1. P \in SUBSET (0 .. N)
    OBVIOUS
  <2> HIDE DEF P
  <2> QED  BY <1>3, <1>4, <2>1, CountingUp
<1>6. \E f : E(f, N)
  <2> HIDE DEF E
  <2> QED  BY <1>5
<1> DEFINE f == CHOOSE f : E(f, N)
<1>7. E(f, N)
  <2> HIDE DEF E
  <2> QED  BY <1>6
<1>8. Runs(f, N, start)
  <2> HIDE DEF f
  <2> QED  BY <1>1, <1>7 DEF Runs
<1> HIDE DEF E
<1> QED  BY <1>2, <1>8

\* A parser between two calls at a token boundary.
LEMMA GroundIsLawful ==
  ASSUME NEW limit \in Limits, NEW s \in Seq(Byte), NEW p, p = Ground(limit, s)
  PROVE  /\ Lawful(Outcome(p, <<>>)) /\ p \in Parser /\ p.mode = "Ground"
         /\ p.rest = s /\ Left(p) = 3 * Len(s)
<1>1. Good(Outcome(p, <<>>))
  BY GroundIsGood
<1>2. IsGround(p, limit, s)
  BY GroundParts
<1>3. p \in Parser /\ p.limit = limit /\ p.mode = "Ground" /\ p.rest = s
  BY <1>2 DEF IsGround
<1>4. AtBoundary(p)
  BY <1>3 DEF AtBoundary
<1>5. Left(p) = 3 * Len(s)
  <2>1. Len(s) \in Nat
    BY LenProperties
  <2> QED  BY <1>3, <2>1 DEF Left
<1>6. Lawful(Outcome(p, <<>>))
  BY <1>1, <1>4 DEF Lawful, Outcome
<1> QED  BY <1>3, <1>5, <1>6

(***************************************************************************)
(* A call of feed reads its chunk to the end, and what is reached with the *)
(* chunk read is what the call returns.                                    *)
(***************************************************************************)
LEMMA CallsEnd ==
  ASSUME NEW limit \in Limits, NEW s \in Seq(Byte),
         NEW o, Reaches(Ground(limit, s), o), o.parser.rest = <<>>
  PROVE  o = Drained(Ground(limit, s))
<1>1. PICK p : p = Ground(limit, s)
  OBVIOUS
<1>2. Lawful(Outcome(p, <<>>)) /\ p.rest = s /\ Left(p) = 3 * Len(s)
  BY <1>1, GroundIsLawful
<1>3. PICK N : N = 3 * Len(s) /\ N \in Nat
  <2>1. 3 * Len(s) \in Nat
    <3>1. Len(s) \in Nat
      BY LenProperties
    <3> QED  BY <3>1
  <2> QED  BY <2>1
<1>4. PICK g : Runs(g, N, p) /\ g[N] = Drained(p)
  BY <1>2, <1>3, DrainedRuns
<1>5. g[N].parser.rest = <<>>
  <2>1. N \in 0 .. N
    BY <1>3
  <2>2. Lawful(g[N]) /\ (g[N].parser.rest = <<>> \/ Left(g[N].parser) + N <= N)
    BY <1>2, <1>3, <1>4, <2>1, RunsAreLawful
  <2>3. ASSUME Left(g[N].parser) + N <= N PROVE g[N].parser.rest = <<>>
    <3>1. g[N].parser \in Parser
      BY <2>2 DEF Lawful, Good
    <3>2. g[N].parser.rest \in Seq(Byte) /\ Len(g[N].parser.rest) \in Nat
      BY <3>1, ParserParts
    <3>3. /\ Left(g[N].parser) \in Nat
          /\ Left(g[N].parser) >= 3 * Len(g[N].parser.rest)
      BY <3>1, LeftIsNat
    <3>4. Len(g[N].parser.rest) = 0
      BY <1>3, <2>3, <3>2, <3>3
    <3> QED  BY <3>2, <3>4, EmptySeq
  <2> QED  BY <2>2, <2>3
<1>6. PICK n \in Nat : \E f : Runs(f, n, p) /\ f[n] = o
  BY <1>1 DEF Reaches
<1>7. PICK f : Runs(f, n, p) /\ f[n] = o
  BY <1>6
<1>8. f[n] = g[N]
  BY <1>3, <1>4, <1>5, <1>7, RunsEndAlike
<1> QED  BY <1>1, <1>4, <1>7, <1>8

LEMMA ReachesItself ==
  ASSUME NEW start
  PROVE  Reaches(start, Outcome(start, <<>>))
<1> DEFINE f == [i \in {0} |-> Outcome(start, <<>>)]
<1>1. Runs(f, 0, start) /\ f[0] = Outcome(start, <<>>)
  BY DEF Runs
<1> HIDE DEF f
<1> QED  BY <1>1 DEF Reaches

LEMMA ReachesOneMore ==
  ASSUME NEW start, NEW o, Reaches(start, o)
  PROVE  Reaches(start, another_turn(o))
<1>0. PICK n \in Nat : \E f : Runs(f, n, start) /\ f[n] = o
  BY DEF Reaches
<1>1. PICK f : Runs(f, n, start) /\ f[n] = o
  BY <1>0
<1> DEFINE g == [i \in 0 .. n + 1 |-> IF i = n + 1 THEN another_turn(o) ELSE f[i]]
<1>2. g[0] = Outcome(start, <<>>)
  BY <1>1 DEF Runs
<1>3. ASSUME NEW i \in 1 .. n + 1 PROVE g[i] = another_turn(g[i - 1])
  <2>1. CASE i = n + 1
    <3>1. g[i] = another_turn(o) /\ g[i - 1] = f[n]
      BY <2>1
    <3> QED  BY <1>1, <3>1
  <2>2. CASE i # n + 1
    <3>1. i \in 1 .. n /\ g[i] = f[i] /\ g[i - 1] = f[i - 1]
      BY <2>2
    <3> QED  BY <1>1, <3>1 DEF Runs
  <2> QED  BY <2>1, <2>2
<1>4. g[n + 1] = another_turn(o) /\ n + 1 \in Nat
  OBVIOUS
<1> HIDE DEF g
<1> QED  BY <1>2, <1>3, <1>4 DEF Reaches, Runs

(***************************************************************************)
(* What is reached on an input is reached on a longer one, with what is    *)
(* behind still to read.                                                   *)
(***************************************************************************)
LEMMA ReachesWithMore ==
  ASSUME NEW start \in Parser, Lawful(Outcome(start, <<>>)), NEW c \in Seq(Byte),
         NEW o, Reaches(start, o)
  PROVE  Reaches(Extended(start, c), Outcome(Extended(o.parser, c), o.tokens))
<1>0. PICK n \in Nat : \E f : Runs(f, n, start) /\ f[n] = o
  BY DEF Reaches
<1>1. PICK f : Runs(f, n, start) /\ f[n] = o
  BY <1>0
<1> DEFINE longer == Extended(start, c)
           More(x) == Outcome(Extended(x.parser, c), x.tokens)
           P == {i \in 0 .. n : Reaches(longer, More(f[i]))}
<1>2. 0 \in P
  <2>1. f[0] = Outcome(start, <<>>)
    BY <1>1 DEF Runs
  <2>2. More(f[0]) = Outcome(longer, <<>>)
    BY <2>1 DEF Outcome
  <2> HIDE DEF longer, More
  <2> QED  BY <2>2, ReachesItself
<1>3. ASSUME NEW i \in 1 .. n, i - 1 \in P PROVE i \in P
  <2>1. PICK x : x = f[i - 1]
    OBVIOUS
  <2>2. f[i] = another_turn(x) /\ Reaches(longer, More(x))
    BY <1>1, <1>3, <2>1 DEF Runs
  <2>3. Lawful(x)
    <3>1. i - 1 \in 0 .. n
      OBVIOUS
    <3> QED  BY <1>1, <2>1, <3>1, RunsAreLawful
  <2>4. CASE x.parser.rest = <<>>
    <3>1. f[i] = x
      BY <2>2, <2>4, AnotherTurn
    <3> QED  BY <2>2, <3>1
  <2>5. CASE x.parser.rest # <<>>
    <3>1. PICK p, q, turn : p = x.parser /\ q = Extended(p, c) /\ turn = Turn(p)
      OBVIOUS
    <3>2. /\ p \in Parser /\ Bounded(p) /\ Shape(p) /\ p.rest # <<>> /\ x.tokens \in Seq(Tokens)
          /\ p.mode = "Ground" => p = Ground(p.limit, p.rest)
      BY <2>3, <2>5, <3>1 DEF Lawful, Good, AtBoundary
    <3>3. Agree(p, turn, Turn(q), c)
      BY <3>1, <3>2, TurnAgrees
    <3>4. f[i] = Outcome(turn.parser, x.tokens \o turn.tokens)
      BY <2>2, <2>5, <3>1, AnotherTurn
    <3>5. q.rest # <<>>
      <4>1. p.mode # "Partial" /\ p.rest \in Seq(Byte) /\ p \in Parser /\ q = Extended(p, c)
        BY <3>1, <3>2, ParserParts DEF Shape
      <4>2. q.rest = p.rest \o c
        BY <4>1, ExtendedParts
      <4> QED  BY <3>2, <4>1, <4>2, FirstByte
    <3>6. CASE Turn(q) = Outcome(Extended(turn.parser, c), turn.tokens)
      <4>1. More(x).parser = q /\ More(x).tokens = x.tokens
        BY <3>1 DEF Outcome
      <4>2. another_turn(More(x)) = Outcome(Turn(q).parser, x.tokens \o Turn(q).tokens)
        BY <3>5, <4>1, AnotherTurn
      <4>3. Turn(q).parser = Extended(turn.parser, c) /\ Turn(q).tokens = turn.tokens
        BY <3>6 DEF Outcome
      <4>4. More(f[i]) = another_turn(More(x))
        BY <3>4, <4>2, <4>3 DEF Outcome
      <4>5. Reaches(longer, another_turn(More(x)))
        BY <2>2, ReachesOneMore
      <4> QED  BY <4>4, <4>5
    <3>7. CASE turn.tokens = <<>> /\ Extended(turn.parser, c) = Extended(p, c)
      <4>1. x.tokens \o turn.tokens = x.tokens
        BY <3>2, <3>7, ConcatEmptySeq
      <4>2. f[i].parser = turn.parser /\ f[i].tokens = x.tokens
        BY <3>4, <4>1 DEF Outcome
      <4>3. More(f[i]) = More(x)
        BY <3>1, <3>7, <4>2
      <4> QED  BY <2>2, <4>3
    <3> QED  BY <3>3, <3>6, <3>7 DEF Agree
  <2> QED  BY <2>4, <2>5
<1>4. P = 0 .. n
  <2>1. P \in SUBSET (0 .. n)
    OBVIOUS
  <2> HIDE DEF P
  <2> QED  BY <1>2, <1>3, <2>1, CountingUp
<1>5. Reaches(longer, More(f[n]))
  <2>1. n \in P
    BY <1>4
  <2> QED  BY <2>1
<1> QED  BY <1>1, <1>5

\* A chunk is fed behind what was read.
LEMMA FedIsExtended ==
  ASSUME NEW p \in Parser, p.rest = <<>>, NEW c \in Seq(Byte)
  PROVE  fed_with(p, c) = Extended(p, c)
<1>1. <<>> \o c = c
  BY ConcatEmptySeq
<1>2. [p EXCEPT !.rest = @ \o c] = [p EXCEPT !.rest = c]
  BY <1>1
<1> QED  BY <1>2 DEF fed_with, Extended

LEMMA FlushesEnd ==
  ASSUME NEW p \in Parser, p.rest = <<>>, AtBoundary(p)
  PROVE  flushed(p).parser.rest = <<>> /\ AtBoundary(flushed(p).parser)
<1>1. ASSUME NEW r, NEW t
      PROVE  Emit(r, t, <<>>).parser.rest = <<>> /\ AtBoundary(Emit(r, t, <<>>).parser)
  BY DEF Emit, Outcome, Ground, AtBoundary
<1>2. CASE p.mode = "Ground"
  BY <1>2 DEF flushed, Outcome
<1>3. CASE p.mode \in {"Partial", "InString", "InPaste"}
  <2>1. \E r, t : flushed(p) = Emit(r, t, <<>>)
    BY <1>3 DEF flushed, emit_string_token
  <2> QED  BY <1>1, <2>1
<1> QED  BY <1>2, <1>3, ParserParts DEF Mode

\* Feeding a chunk keeps the limit, and a token boundary.
LEMMA FedKeepsBoundary ==
  ASSUME NEW p \in Parser, p.rest = <<>>, AtBoundary(p), NEW c \in Seq(Byte)
  PROVE  fed_with(p, c).limit = p.limit /\ AtBoundary(fed_with(p, c))
<1>1. CASE p.mode = "Partial"
  BY <1>1 DEF fed_with, Ground, AtBoundary
<1>2. CASE p.mode = "Ground"
  <2>1. p.limit \in Limits /\ p.rest \in Seq(Byte)
    BY ParserParts
  <2>2. p = Ground(p.limit, p.rest)
    BY <1>2 DEF AtBoundary
  <2>3. Extended(p, c) = Ground(p.limit, p.rest \o c)
    <3>1. Extended(Ground(p.limit, p.rest), c) = Ground(p.limit, p.rest \o c)
      BY <2>1, GroundExtends
    <3> QED  BY <2>2, <3>1
  <2>4. fed_with(p, c) = Ground(p.limit, p.rest \o c)
    BY <2>3, FedIsExtended
  <2> QED  BY <2>4 DEF Ground, AtBoundary
<1>3. CASE p.mode \in {"InString", "InPaste"}
  <2>1. fed_with(p, c) = [p EXCEPT !.rest = c]
    BY <1>3 DEF fed_with
  <2>2. fed_with(p, c).limit = p.limit /\ fed_with(p, c).mode = p.mode
    BY <2>1 DEF Parser
  <2> QED  BY <1>3, <2>2 DEF AtBoundary
<1> QED  BY <1>1, <1>2, <1>3, ParserParts DEF Mode

LEMMA OneChunkMore ==
  ASSUME NEW s \in Seq(Byte), NEW m \in Nat, NEW n \in Nat, m + n <= Len(s)
  PROVE  /\ Take(s, m) \in Seq(Byte) /\ SubSeq(s, m + 1, m + n) \in Seq(Byte)
         /\ Take(s, m + n) = Take(s, m) \o SubSeq(s, m + 1, m + n)
<1> DEFINE a == Take(s, m)
           b == SubSeq(s, m + 1, m + n)
           all == Take(s, m + n)
<1>1. Len(s) \in Nat /\ \A i \in 1 .. Len(s) : s[i] \in Byte
  BY LenProperties, ElementOfSeq
<1>2. m \in 0 .. Len(s) /\ m + n \in 0 .. Len(s)
  BY <1>1
<1>3. /\ a \in Seq(Byte) /\ Len(a) = m /\ all \in Seq(Byte) /\ Len(all) = m + n
  BY <1>2, TakeAndCut
<1>4. b \in Seq(Byte) /\ Len(b) = n /\ \A i \in 1 .. n : b[i] = s[m + i]
  <2> DEFINE from == m + 1
             to == m + n
  <2>1. from \in Int /\ to \in Int /\ \A i \in from .. to : i \in 1 .. Len(s)
    BY <1>1
  <2>2. /\ (IF from <= to THEN to - from + 1 ELSE 0) = n /\ to - from + 1 = n
        /\ \A i \in 1 .. n : from + i - 1 = m + i
    OBVIOUS
  <2> HIDE DEF from, to
  <2>3. \A i \in from .. to : s[i] \in Byte
    BY <1>1, <2>1
  <2>4. /\ SubSeq(s, from, to) \in Seq(Byte)
        /\ Len(SubSeq(s, from, to)) = IF from <= to THEN to - from + 1 ELSE 0
        /\ \A i \in 1 .. to - from + 1 : SubSeq(s, from, to)[i] = s[from + i - 1]
    BY <2>1, <2>3, SubSeqProperties
  <2>5. b = SubSeq(s, from, to)
    BY DEF from, to
  <2> HIDE DEF b
  <2> QED  BY <2>2, <2>4, <2>5
<1>5. /\ \A i \in 1 .. m : a[i] = s[i]
      /\ \A i \in 1 .. m + n : all[i] = s[i]
  <2>1. \A k \in 0 .. Len(s) : \A i \in 1 .. k : Take(s, k)[i] = s[i]
    BY <1>1, SubSeqProperties DEF Take
  <2> QED  BY <1>2, <2>1
<1> HIDE DEF a, b, all
<1>6. /\ a \o b \in Seq(Byte) /\ Len(a \o b) = m + n
      /\ \A i \in 1 .. m + n : (a \o b)[i] = IF i <= m THEN a[i] ELSE b[i - m]
  <2>1. /\ a \o b \in Seq(Byte) /\ Len(a \o b) = Len(a) + Len(b)
        /\ \A i \in 1 .. Len(a) + Len(b) :
             (a \o b)[i] = IF i <= Len(a) THEN a[i] ELSE b[i - Len(a)]
    BY <1>3, <1>4, ConcatProperties
  <2> QED  BY <1>3, <1>4, <2>1
<1>7. ASSUME NEW i \in 1 .. m + n PROVE all[i] = (a \o b)[i]
  <2>1. CASE i <= m
    <3>1. i \in 1 .. m
      BY <2>1
    <3> QED  BY <1>5, <1>6, <2>1, <3>1
  <2>2. CASE ~ (i <= m)
    <3>1. i - m \in 1 .. n /\ m + (i - m) = i
      BY <2>2
    <3> QED  BY <1>4, <1>5, <1>6, <2>2, <3>1
  <2> QED  BY <2>1, <2>2
<1>8. all = a \o b
  BY <1>3, <1>6, <1>7, SeqEqual
<1> QED  BY <1>3, <1>4, <1>8 DEF a, b, all

-----------------------------------------------------------------------------
(***************************************************************************)
(* Split equivalence.  Fed at once, all the input that was fed passes      *)
(* through the parser and the tokens there are.                            *)
(***************************************************************************)
PassedThrough ==
  /\ AtBoundary(parser)
  /\ \E o :
       /\ Reaches(Ground(parser.limit, Take(input, fed)), o)
       /\ IF finished
          THEN /\ o.parser.rest = <<>> /\ parser.rest = <<>>
               /\ parser = flushed(o.parser).parser
               /\ tokens = o.tokens \o flushed(o.parser).tokens
          ELSE o = Outcome(parser, tokens)

LEMMA PassedThroughNext ==
  ASSUME NEW q, NEW some, NEW to,
         parser' = q, tokens' = some, fed' = to, input' = input, finished' = FALSE,
         AtBoundary(q), Reaches(Ground(q.limit, Take(input, to)), Outcome(q, some))
  PROVE  PassedThrough'
<1>1. AtBoundary(parser')
  OBVIOUS
<1>2. Reaches(Ground(parser'.limit, Take(input', fed')), Outcome(parser', tokens'))
  OBVIOUS
<1> QED  BY <1>1, <1>2 DEF PassedThrough

LEMMA PassedThroughIsInvariant == Spec => []PassedThrough
<1>1. Init => PassedThrough
  <2> SUFFICES ASSUME Init PROVE PassedThrough
    OBVIOUS
  <2>1. PICK limit \in Limits : parser = Ground(limit, <<>>)
    BY DEF Init
  <2>2. tokens = <<>> /\ fed = 0 /\ finished = FALSE /\ input \in Seq(Byte)
    BY InputsAssumption DEF Init
  <2>3. Take(input, fed) = <<>>
    <3>1. 0 \in 0 .. Len(input)
      <4>1. Len(input) \in Nat
        BY <2>2, LenProperties
      <4> QED  BY <4>1
    <3>2. Take(input, 0) \in Seq(Byte) /\ Len(Take(input, 0)) = 0
      BY <2>2, <3>1, TakeAndCut
    <3> QED  BY <2>2, <3>2, EmptySeq
  <2>4. parser.limit = limit
    BY <2>1 DEF Ground
  <2>5. AtBoundary(parser)
    BY <2>1 DEF Ground, AtBoundary
  <2>6. Reaches(Ground(parser.limit, Take(input, fed)), Outcome(parser, tokens))
    BY <2>1, <2>2, <2>3, <2>4, ReachesItself
  <2> QED  BY <2>2, <2>5, <2>6 DEF PassedThrough
<1>2. IInv /\ Accounted /\ PassedThrough /\ [Next]_vars => PassedThrough'
  <2> SUFFICES ASSUME IInv, Accounted, PassedThrough, [Next]_vars PROVE PassedThrough'
    OBVIOUS
  <2> DEFINE last == ends(tokens)[Len(tokens)]
             read == Take(input, fed)
  <2>1. TypeOK /\ parser \in Parser /\ Bounded(parser) /\ Shape(parser)
    BY DEF IInv, TypeOK, MemoryIsBounded
  <2>2. Layout(parser) /\ Lies(parser, last, fed) /\ AtBoundary(parser)
    BY DEF Accounted, PassedThrough
  <2>3. /\ last \in Nat /\ fed \in Nat /\ fed <= Len(input) /\ Len(input) \in Nat
        /\ input \in Seq(Byte) /\ fed \in 0 .. Len(input) /\ parser.limit \in Limits
    BY <2>1, LastEndIsNat, ParserParts DEF TypeOK
  <2>4. read \in Seq(Byte)
    BY <2>3, TakeAndCut
  <2>5. ~ finished => Reaches(Ground(parser.limit, read), Outcome(parser, tokens))
    BY DEF PassedThrough
  <2> HIDE DEF last
  <2>6. CASE feed
    <3>1. PICK n \in 1 .. Len(input) - fed :
            /\ parser' = fed_with(parser, SubSeq(input, fed + 1, fed + n))
            /\ fed' = fed + n
      BY <2>6 DEF feed
    <3>2. /\ tokens' = tokens /\ input' = input /\ parser.rest = <<>>
          /\ ~ finished /\ finished' = FALSE
      BY <2>6, <2>1 DEF feed, TypeOK
    <3> DEFINE chunk == SubSeq(input, fed + 1, fed + n)
    <3>3. n \in Nat /\ fed + n <= Len(input)
      BY <2>3, <3>1
    <3>4. chunk \in Seq(Byte) /\ Take(input, fed + n) = read \o chunk
      BY <2>3, <3>3, OneChunkMore
    <3> HIDE DEF chunk, read
    <3>5. PICK q, start : q = fed_with(parser, chunk) /\ start = Ground(parser.limit, read)
      OBVIOUS
    <3>6. q = Extended(parser, chunk) /\ q.limit = parser.limit /\ AtBoundary(q)
      BY <2>1, <2>2, <3>2, <3>4, <3>5, FedIsExtended, FedKeepsBoundary
    <3>7. Extended(start, chunk) = Ground(q.limit, Take(input, fed + n))
      BY <2>3, <2>4, <3>4, <3>5, <3>6, GroundExtends
    <3>8. Lawful(Outcome(start, <<>>)) /\ start \in Parser
      BY <2>3, <2>4, <3>5, GroundIsLawful
    <3>9. PICK o : o = Outcome(parser, tokens)
      OBVIOUS
    <3>10. Reaches(start, o) /\ o.parser = parser /\ o.tokens = tokens
      BY <2>5, <3>2, <3>5, <3>9 DEF Outcome
    <3>11. Reaches(Extended(start, chunk), Outcome(Extended(o.parser, chunk), o.tokens))
      BY <3>4, <3>8, <3>10, ReachesWithMore
    <3>12. PICK some, to : some = tokens /\ to = fed + n
      OBVIOUS
    <3>13. Reaches(Ground(q.limit, Take(input, to)), Outcome(q, some))
      BY <3>6, <3>7, <3>10, <3>11, <3>12
    <3>14. parser' = q /\ tokens' = some /\ fed' = to
      BY <3>1, <3>2, <3>5, <3>12 DEF chunk
    <3> QED  BY <3>2, <3>6, <3>13, <3>14, PassedThroughNext
  <2>7. CASE Scan
    <3>1. parser.rest # <<>> /\ Took(Turn(parser)) /\ UNCHANGED <<input, fed, finished>>
      BY <2>7 DEF Scan
    <3>2. finished = FALSE
      BY <2>1, <3>1 DEF PassedThrough, TypeOK
    <3>3. PICK turn, some, to : turn = Turn(parser) /\ some = tokens \o turn.tokens /\ to = fed
      OBVIOUS
    <3>4. PICK q : q = turn.parser
      OBVIOUS
    <3>5. Accounts(turn, parser.limit, last, fed) /\ Progresses(parser, turn)
      BY <2>1, <2>2, <2>3, <3>1, <3>3, TurnAccounts, TurnProgresses
    <3>6. q.limit = parser.limit /\ AtBoundary(q)
      BY <3>4, <3>5 DEF Accounts, Progresses
    <3>7. another_turn(Outcome(parser, tokens)) = Outcome(q, some)
      <4>1. PICK o : o = Outcome(parser, tokens)
        OBVIOUS
      <4>2. o.parser = parser /\ o.tokens = tokens
        BY <4>1 DEF Outcome
      <4> QED  BY <3>1, <3>3, <3>4, <4>1, <4>2, AnotherTurn
    <3>8. Reaches(Ground(parser.limit, read), Outcome(q, some))
      BY <2>5, <3>2, <3>7, ReachesOneMore
    <3>9. parser' = q /\ tokens' = some /\ fed' = to /\ input' = input /\ finished' = FALSE
      BY <3>1, <3>2, <3>3, <3>4 DEF Took
    <3>10. Reaches(Ground(q.limit, Take(input, to)), Outcome(q, some))
      BY <3>3, <3>6, <3>8
    <3> QED  BY <3>6, <3>9, <3>10, PassedThroughNext
  <2>8. CASE finish
    <3>1. /\ ~ finished /\ parser.rest = <<>> /\ Took(flushed(parser))
          /\ UNCHANGED <<input, fed>> /\ finished' = TRUE
      BY <2>8 DEF finish
    <3>2. PICK last_one, q, some :
            last_one = flushed(parser) /\ q = last_one.parser
            /\ some = tokens \o last_one.tokens
      OBVIOUS
    <3>3. parser' = q /\ tokens' = some
      BY <3>1, <3>2 DEF Took
    <3>4. Accounts(last_one, parser.limit, last, fed)
      BY <2>1, <2>2, <2>3, <3>1, <3>2, FlushAccounts
    <3>5. q.limit = parser.limit
      BY <3>2, <3>4 DEF Accounts
    <3>6. q.rest = <<>> /\ AtBoundary(q)
      BY <2>1, <2>2, <3>1, <3>2, FlushesEnd
    <3>7. PICK o : o = Outcome(parser, tokens)
      OBVIOUS
    <3>8. o.parser = parser /\ o.tokens = tokens
      BY <3>7 DEF Outcome
    <3>9. Reaches(Ground(q.limit, Take(input, fed)), o)
      BY <2>5, <3>1, <3>5, <3>7
    <3>10. /\ o.parser.rest = <<>> /\ q = flushed(o.parser).parser
           /\ some = o.tokens \o flushed(o.parser).tokens
      BY <3>1, <3>2, <3>8
    <3>11. AtBoundary(parser') /\ finished'
      BY <3>1, <3>3, <3>6
    <3>12. /\ Reaches(Ground(parser'.limit, Take(input', fed')), o)
           /\ o.parser.rest = <<>> /\ parser'.rest = <<>>
           /\ parser' = flushed(o.parser).parser
           /\ tokens' = o.tokens \o flushed(o.parser).tokens
      BY <3>1, <3>3, <3>6, <3>9, <3>10
    <3> QED  BY <3>11, <3>12 DEF PassedThrough
  <2>9. CASE UNCHANGED vars
    <3>1. /\ parser' = parser /\ tokens' = tokens /\ input' = input /\ fed' = fed
          /\ finished' = finished
      BY <2>9 DEF vars
    <3>2. PICK o :
            /\ Reaches(Ground(parser.limit, Take(input, fed)), o)
            /\ IF finished
               THEN /\ o.parser.rest = <<>> /\ parser.rest = <<>>
                    /\ parser = flushed(o.parser).parser
                    /\ tokens = o.tokens \o flushed(o.parser).tokens
               ELSE o = Outcome(parser, tokens)
      BY DEF PassedThrough
    <3>3. AtBoundary(parser')
      BY <2>2, <3>1
    <3>4. /\ Reaches(Ground(parser'.limit, Take(input', fed')), o)
          /\ IF finished'
             THEN /\ o.parser.rest = <<>> /\ parser'.rest = <<>>
                  /\ parser' = flushed(o.parser).parser
                  /\ tokens' = o.tokens \o flushed(o.parser).tokens
             ELSE o = Outcome(parser', tokens')
      BY <3>1, <3>2
    <3> QED  BY <3>3, <3>4 DEF PassedThrough
  <2> QED  BY <2>6, <2>7, <2>8, <2>9 DEF Next
<1> QED  BY <1>1, <1>2, InductiveInvariant, AccountedIsInvariant, PTL DEF Spec

(***************************************************************************)
(* Split equivalence: wherever the reads cut what the terminal sends, in a *)
(* sequence, a character, a string, a bracket or between them, the tokens  *)
(* and what is pending are those of one read of the same bytes, and so is  *)
(* what finish makes of them, for every input and every limit.             *)
(***************************************************************************)
THEOREM TokensIgnoreTheSplit == Spec => []SplitEquivalent
<1>1. TypeOK /\ PassedThrough => SplitEquivalent
  <2> SUFFICES ASSUME TypeOK, PassedThrough, parser.rest = <<>> PROVE SplitEquivalent
    BY DEF SplitEquivalent
  <2> DEFINE s == Take(input, fed)
             start == Ground(parser.limit, s)
  <2>1. parser.limit \in Limits /\ s \in Seq(Byte)
    <3>1. parser \in Parser /\ input \in Seq(Byte) /\ fed \in 0 .. Len(input)
      BY DEF TypeOK
    <3> QED  BY <3>1, TakeAndCut, ParserParts
  <2>2. fed_with(Ground(parser.limit, <<>>), s) = start
    <3>1. PICK p : p = Ground(parser.limit, <<>>)
      OBVIOUS
    <3>2. <<>> \in Seq(Byte) /\ <<>> \o s = s
      BY <2>1, EmptySeq, ConcatEmptySeq
    <3>3. p \in Parser /\ p.rest = <<>>
      BY <2>1, <3>1, <3>2, GroundIsLawful
    <3>4. fed_with(p, s) = Extended(p, s)
      BY <2>1, <3>3, FedIsExtended
    <3>5. Extended(p, s) = Ground(parser.limit, <<>> \o s)
      BY <2>1, <3>1, <3>2, GroundExtends
    <3> QED  BY <3>1, <3>2, <3>4, <3>5
  <2>3. PICK o :
          /\ Reaches(start, o)
          /\ IF finished
             THEN /\ o.parser.rest = <<>> /\ parser.rest = <<>>
                  /\ parser = flushed(o.parser).parser
                  /\ tokens = o.tokens \o flushed(o.parser).tokens
             ELSE o = Outcome(parser, tokens)
    BY DEF PassedThrough
  <2>4. ~ finished => o.parser = parser /\ o.tokens = tokens
    BY <2>3 DEF Outcome
  <2>5. o.parser.rest = <<>>
    BY <2>3, <2>4
  <2> HIDE DEF s
  <2>6. o = Drained(start)
    BY <2>1, <2>3, <2>5, CallsEnd
  <2> HIDE DEF start
  <2>7. IF finished THEN /\ parser = flushed(o.parser).parser
                         /\ tokens = o.tokens \o flushed(o.parser).tokens
        ELSE parser = o.parser /\ tokens = o.tokens
    BY <2>3, <2>4
  <2>8. Drained(fed_with(Ground(parser.limit, <<>>), Take(input, fed))) = o
    BY <2>2, <2>6 DEF s
  <2> QED  BY <2>7, <2>8 DEF SplitEquivalent
<1> QED  BY <1>1, PassedThroughIsInvariant, TypeCorrect, PTL

-----------------------------------------------------------------------------
(***************************************************************************)
(* Where a paste ends.  Of what a paste has brought so far, s, the last h  *)
(* bytes are held: the longest end of s that begins an end bracket.        *)
(***************************************************************************)
HasEnd(s) ==
  \E end \in PasteEnds : \E n \in 0 .. Len(s) - Len(end) :
    \A j \in 1 .. Len(end) : s[n + j] = end[j]

\* The last k bytes of s begin an end bracket.
Begins(s, k) ==
  \E end \in PasteEnds : k <= Len(end) /\ \A j \in 1 .. k : s[Len(s) - k + j] = end[j]

Clean(s, h) ==
  /\ ~ HasEnd(s)
  /\ h \in 0 .. Len(s) /\ Begins(s, h)
  /\ \A k \in h + 1 .. Len(s) : ~ Begins(s, k)

LEMMA EndBrackets ==
  ASSUME NEW end \in PasteEnds
  PROVE  /\ end \in Seq(Byte) /\ Len(end) \in {5, 6} /\ DOMAIN end = 1 .. Len(end)
         /\ end[1] \in {"ESC", "CSI"} /\ end[Len(end)] = "~" /\ end[Len(end) - 1] = "1"
         /\ \A j \in 2 .. Len(end) : end[j] \notin {"ESC", "CSI"}
         /\ \A j \in 1 .. Len(end) - 1 : end[j] # "~"
<1>1. {"ESC", "[", "2", "0", "1", "~", "CSI"} \subseteq Byte
  BY DEF Byte, Printable, EscapeFinal, Final, Param, Boundary, Control, C0, Introducer8
<1>2. \/ end = <<"ESC", "[", "2", "0", "1", "~">>
      \/ end = <<"CSI", "2", "0", "1", "~">>
  BY DEF PasteEnds
<1>3. CASE end = <<"ESC", "[", "2", "0", "1", "~">>
  BY <1>1, <1>3
<1>4. CASE end = <<"CSI", "2", "0", "1", "~">>
  BY <1>1, <1>4
<1> QED  BY <1>2, <1>3, <1>4

LEMMA ContainsEnd ==
  ASSUME NEW s \in Seq(Byte)
  PROVE  contains_end(s) <=> HasEnd(s)
<1>1. Len(s) \in Nat /\ DOMAIN s = 1 .. Len(s)
  BY LenProperties
<1>2. ASSUME NEW end \in PasteEnds, NEW n \in 0 .. Len(s) - Len(end)
      PROVE  SubSeq(s, n + 1, n + Len(end)) = end
               <=> \A j \in 1 .. Len(end) : s[n + j] = end[j]
  <2>1. end \in Seq(Byte) /\ Len(end) \in {5, 6} /\ DOMAIN end = 1 .. Len(end)
    BY EndBrackets
  <2>2. PICK piece : piece = SubSeq(s, n + 1, n + Len(end))
    OBVIOUS
  <2>3. /\ piece \in Seq(Byte) /\ Len(piece) = Len(end)
        /\ \A j \in 1 .. Len(end) : piece[j] = s[n + j]
    <3>1. n + 1 \in 1 .. Len(s) + 1 /\ n + Len(end) \in n + 1 - 1 .. Len(s)
      BY <1>1, <2>1
    <3>2. /\ piece \in Seq(Byte) /\ Len(piece) = n + Len(end) - (n + 1) + 1
          /\ \A j \in 1 .. n + Len(end) - (n + 1) + 1 : piece[j] = s[n + 1 + j - 1]
      BY <2>2, <3>1, SubSeqProperties
    <3>3. n + Len(end) - (n + 1) + 1 = Len(end) /\ \A j \in 1 .. Len(end) : n + 1 + j - 1 = n + j
      BY <2>1
    <3> QED  BY <3>2, <3>3
  <2>4. piece = end <=> \A j \in 1 .. Len(end) : piece[j] = end[j]
    BY <2>1, <2>3, SeqEqual
  <2> QED  BY <2>2, <2>3, <2>4
<1> QED  BY <1>2 DEF contains_end, HasEnd

LEMMA TakeAndCutElements ==
  ASSUME NEW s \in Seq(Byte), NEW n \in 0 .. Len(s)
  PROVE  /\ \A j \in 1 .. n : Take(s, n)[j] = s[j]
         /\ \A j \in 1 .. Len(s) - n : Cut(s, n)[j] = s[n + j]
<1>1. Len(s) \in Nat
  BY LenProperties
<1>2. \A i \in 1 .. Len(s) : s[i] \in Byte
  BY ElementOfSeq
<1>3. ASSUME NEW j \in 1 .. n PROVE Take(s, n)[j] = s[j]
  <2>1. 1 \in 1 .. Len(s) + 1 /\ n \in 1 - 1 .. Len(s) /\ j \in 1 .. n - 1 + 1 /\ 1 + j - 1 = j
    BY <1>1
  <2> QED  BY <2>1, SubSeqProperties DEF Take
<1>4. ASSUME NEW j \in 1 .. Len(s) - n PROVE Cut(s, n)[j] = s[n + j]
  <2>1. /\ n + 1 \in 1 .. Len(s) + 1 /\ Len(s) \in n + 1 - 1 .. Len(s)
        /\ j \in 1 .. Len(s) - (n + 1) + 1 /\ n + 1 + j - 1 = n + j
    BY <1>1
  <2>2. \A i \in 1 .. Len(s) - (n + 1) + 1 : SubSeq(s, n + 1, Len(s))[i] = s[n + 1 + i - 1]
    BY <2>1, SubSeqProperties
  <2> QED  BY <2>1, <2>2 DEF Cut
<1> QED  BY <1>3, <1>4

LEMMA Prefixes ==
  ASSUME NEW c \in Seq(Byte), NEW n \in 0 .. Len(c)
  PROVE  is_paste_end_prefix(Cut(c, n)) <=> Begins(c, Len(c) - n)
<1>1. Len(c) \in Nat
  BY LenProperties
<1>2. PICK d : d = Cut(c, n)
  OBVIOUS
<1>3. /\ d \in Seq(Byte) /\ Len(d) = Len(c) - n /\ Len(d) \in Nat
      /\ \A j \in 1 .. Len(d) : d[j] = c[n + j]
  <2>1. d \in Seq(Byte) /\ Len(d) = Len(c) - n
    BY <1>1, <1>2, TakeAndCut
  <2>2. \A j \in 1 .. Len(c) - n : d[j] = c[n + j]
    BY <1>2, TakeAndCutElements
  <2> QED  BY <1>1, <2>1, <2>2
<1>4. ASSUME NEW end \in PasteEnds, Len(d) <= Len(end)
      PROVE  d = Take(end, Len(d)) <=> \A j \in 1 .. Len(d) : d[j] = end[j]
  <2>1. end \in Seq(Byte) /\ Len(d) \in 0 .. Len(end)
    BY <1>3, <1>4, EndBrackets
  <2>2. PICK t : t = Take(end, Len(d))
    OBVIOUS
  <2>3. t \in Seq(Byte) /\ Len(t) = Len(d) /\ \A j \in 1 .. Len(d) : t[j] = end[j]
    BY <2>1, <2>2, TakeAndCut, TakeAndCutElements
  <2>4. d = t <=> \A j \in 1 .. Len(d) : d[j] = t[j]
    BY <1>3, <2>3, SeqEqual
  <2> QED  BY <2>2, <2>3, <2>4
<1>5. \A j \in 1 .. Len(d) : Len(c) - (Len(c) - n) + j = n + j
  BY <1>1, <1>3
<1>6. is_paste_end_prefix(d)
        <=> \E end \in PasteEnds : Len(d) <= Len(end) /\ \A j \in 1 .. Len(d) : d[j] = end[j]
  BY <1>4 DEF is_paste_end_prefix
<1>7. PICK k : k = Len(c) - n
  OBVIOUS
<1>8. k = Len(d) /\ \A j \in 1 .. k : c[Len(c) - k + j] = d[j]
  <2>1. k = Len(d)
    BY <1>3, <1>7
  <2>2. ASSUME NEW j \in 1 .. k PROVE c[Len(c) - k + j] = d[j]
    <3>1. j \in 1 .. Len(d)
      BY <2>1
    <3>2. Len(c) - k + j = n + j
      BY <1>5, <1>7, <3>1
    <3> QED  BY <1>3, <3>1, <3>2
  <2> QED  BY <2>1, <2>2
<1>9. Begins(c, k)
        <=> \E end \in PasteEnds : k <= Len(end) /\ \A j \in 1 .. k : d[j] = end[j]
  <2>1. ASSUME NEW end
        PROVE  (\A j \in 1 .. k : c[Len(c) - k + j] = end[j])
                 <=> \A j \in 1 .. k : d[j] = end[j]
    BY <1>8
  <2> QED  BY <2>1 DEF Begins
<1> QED  BY <1>2, <1>6, <1>7, <1>8, <1>9

LEMMA ShiftsAreLeast ==
  ASSUME NEW c \in Seq(Byte), Len(c) <= 6, c \notin PasteEnds
  PROVE  LET n == advance_after_break(c)
         IN  /\ n \in 0 .. Len(c) /\ Begins(c, Len(c) - n)
             /\ \A k \in Len(c) - n + 1 .. Len(c) : ~ Begins(c, k)
<1> DEFINE P(n) == is_paste_end_prefix(Cut(c, n))
           S == { n \in 0 .. Len(c) : P(n) }
<1>1. Len(c) \in Nat
  BY LenProperties
<1>2. \A n \in 0 .. Len(c) : P(n) <=> Begins(c, Len(c) - n)
  BY Prefixes
<1>3. PICK shift : shift = advance_after_break(c)
  OBVIOUS
<1>4. shift = CHOOSE n \in 0 .. Len(c) : P(n) /\ \A m \in 0 .. n - 1 : ~ P(m)
  BY <1>3 DEF advance_after_break
<1> HIDE DEF P
<1>5. Len(c) \in S
  <2>1. <<"CSI", "2", "0", "1", "~">> \in PasteEnds
    BY DEF PasteEnds
  <2>2. Begins(c, 0)
    <3>1. 0 <= Len(<<"CSI", "2", "0", "1", "~">>)
      BY <2>1, EndBrackets
    <3> QED  BY <2>1, <3>1 DEF Begins
  <2> QED  BY <1>1, <1>2, <2>2
<1>6. PICK least \in S : \A m \in S : least <= m
  <2>1. S \in SUBSET Nat /\ S # {}
    BY <1>1, <1>5
  <2> HIDE DEF S
  <2> QED  BY <2>1, LeastElement
<1>7. least \in 0 .. Len(c) /\ P(least) /\ \A m \in 0 .. least - 1 : ~ P(m)
  BY <1>1, <1>6
<1>8. shift \in 0 .. Len(c) /\ P(shift) /\ \A m \in 0 .. shift - 1 : ~ P(m)
  BY <1>4, <1>7
<1>9. ASSUME NEW k \in Len(c) - shift + 1 .. Len(c)
      PROVE  ~ Begins(c, k)
  <2>1. Len(c) - k \in 0 .. shift - 1 /\ Len(c) - k \in 0 .. Len(c)
        /\ Len(c) - (Len(c) - k) = k
    BY <1>1, <1>8
  <2>2. ~ P(Len(c) - k)
    BY <1>8, <2>1
  <2> QED  BY <1>2, <2>1, <2>2
<1> QED  BY <1>2, <1>3, <1>8, <1>9

\* A byte more, and the candidate does not end the paste: the bytes that are
\* held then are again the longest end that begins an end bracket.
LEMMA CleanGoesOn ==
  ASSUME NEW s \in Seq(Byte), NEW h \in Nat, Clean(s, h), NEW b \in Byte,
         NEW c \in Seq(Byte), Len(c) = h + 1, c[h + 1] = b, c \notin PasteEnds,
         \A j \in 1 .. h : c[j] = s[Len(s) - h + j]
  PROVE  Clean(Append(s, b), Len(c) - advance_after_break(c))
<1>0. PICK N : N = Len(s)
  OBVIOUS
<1>1. N \in Nat /\ h \in 0 .. N
  BY <1>0, LenProperties DEF Clean
<1>2. PICK w : w = Append(s, b)
  OBVIOUS
<1>3. /\ w \in Seq(Byte) /\ Len(w) = N + 1 /\ w[N + 1] = b
      /\ \A i \in 1 .. N : w[i] = s[i]
  BY <1>0, <1>2, AppendProperties
<1>4. \A j \in 1 .. h + 1 : c[j] = w[N - h + j]
  <2>1. ASSUME NEW j \in 1 .. h + 1 PROVE c[j] = w[N - h + j]
    <3>1. CASE j = h + 1
      <4>1. N - h + j = N + 1
        BY <1>1, <3>1
      <4> QED  BY <1>3, <3>1, <4>1
    <3>2. CASE j # h + 1
      <4>1. j \in 1 .. h /\ N - h + j \in 1 .. N
        BY <1>1, <2>1, <3>2
      <4> QED  BY <1>0, <1>3, <4>1
    <3> QED  BY <3>1, <3>2
  <2> QED  BY <2>1
\* What ends the longer string, but for its last byte, ended the shorter.
<1>5. ASSUME NEW end \in PasteEnds, NEW k \in 1 .. N + 1, k <= Len(end),
             \A j \in 1 .. k : w[N + 1 - k + j] = end[j]
      PROVE  k - 1 \in 0 .. h
  <2>1. Len(end) \in {5, 6}
    BY EndBrackets
  <2>2. \A j \in 1 .. k - 1 : s[N - (k - 1) + j] = end[j]
    <3>1. ASSUME NEW j \in 1 .. k - 1 PROVE s[N - (k - 1) + j] = end[j]
      <4>1. /\ N - (k - 1) + j = N + 1 - k + j /\ N + 1 - k + j \in 1 .. N
            /\ j \in 1 .. k
        BY <1>1, <3>1
      <4> QED  BY <1>3, <1>5, <4>1
    <3> QED  BY <3>1
  <2>3. Begins(s, k - 1)
    <3>1. k - 1 <= Len(end)
      BY <1>5, <2>1
    <3> QED  BY <1>0, <2>2, <3>1 DEF Begins
  <2>4. k - 1 \in 0 .. N
    BY <1>1
  <2> QED  BY <1>0, <1>1, <2>3, <2>4 DEF Clean
<1>6. \A k \in 1 .. h + 1 : Begins(w, k) <=> Begins(c, k)
  <2>1. ASSUME NEW k \in 1 .. h + 1, NEW j \in 1 .. k
        PROVE  w[Len(w) - k + j] = c[Len(c) - k + j]
    <3>1. /\ Len(c) - k + j \in 1 .. h + 1 /\ N - h + (Len(c) - k + j) = Len(w) - k + j
      BY <1>1, <1>3, <2>1
    <3> QED  BY <1>4, <3>1
  <2>2. ASSUME NEW k \in 1 .. h + 1, NEW end \in PasteEnds
        PROVE  (\A j \in 1 .. k : w[Len(w) - k + j] = end[j])
                 <=> \A j \in 1 .. k : c[Len(c) - k + j] = end[j]
    BY <2>1
  <2> QED  BY <2>2 DEF Begins
<1>7. ~ HasEnd(w)
  <2>1. SUFFICES ASSUME NEW end \in PasteEnds, NEW n \in 0 .. N + 1 - Len(end),
                        \A j \in 1 .. Len(end) : w[n + j] = end[j]
                 PROVE  FALSE
    <3>1. \A end \in PasteEnds : Len(w) - Len(end) = N + 1 - Len(end)
      BY <1>1, <1>3, EndBrackets
    <3> QED  BY <3>1 DEF HasEnd
  <2>2. /\ end \in Seq(Byte) /\ Len(end) \in {5, 6} /\ end[1] \in {"ESC", "CSI"}
    BY EndBrackets
  <2>3. CASE n + Len(end) <= N
    <3>1. \A j \in 1 .. Len(end) : n + j \in 1 .. N
      BY <1>1, <2>2, <2>3
    <3>2. \A j \in 1 .. Len(end) : s[n + j] = end[j]
      BY <1>3, <2>1, <3>1
    <3>3. n \in 0 .. N - Len(end)
      BY <1>1, <2>2, <2>3
    <3> QED  BY <1>0, <3>2, <3>3 DEF Clean, HasEnd
  <2>4. CASE n + Len(end) > N
    <3>1. n = N + 1 - Len(end) /\ Len(end) \in 1 .. N + 1
      BY <1>1, <2>2, <2>4
    <3>2. Len(end) - 1 \in 0 .. h
      <4>1. PICK k : k = Len(end)
        OBVIOUS
      <4>2. n = N + 1 - k /\ k \in 1 .. N + 1 /\ k <= Len(end)
        BY <2>2, <3>1, <4>1
      <4>3. \A j \in 1 .. k : w[N + 1 - k + j] = end[j]
        BY <2>1, <4>1, <4>2
      <4>4. k - 1 \in 0 .. h
        BY <1>5, <4>2, <4>3
      <4> QED  BY <4>1, <4>4
    <3>3. CASE Len(end) - 1 = h
      <4>1. \A j \in 1 .. Len(c) : c[j] = end[j]
        <5>1. Len(c) = Len(end) /\ N - h = n
          BY <1>1, <2>2, <3>1, <3>3
        <5> QED  BY <1>4, <2>1, <5>1
      <4>2. Len(c) = Len(end)
        BY <2>2, <3>3
      <4>3. c = end
        BY <2>2, <4>1, <4>2, SeqEqual
      <4> QED  BY <4>3
    <3>4. CASE Len(end) - 1 # h
      <4>1. PICK i : i = h + 2 - Len(end)
        OBVIOUS
      <4>2. i \in 2 .. h /\ N - h + i = n + 1
        <5>1. CASE Len(end) = 5
          BY <1>1, <3>1, <3>2, <3>4, <4>1, <5>1
        <5>2. CASE Len(end) = 6
          BY <1>1, <3>1, <3>2, <3>4, <4>1, <5>2
        <5> QED  BY <2>2, <5>1, <5>2
      <4>3. PICK first \in PasteEnds :
              h <= Len(first) /\ \A j \in 1 .. h : s[N - h + j] = first[j]
        BY <1>0 DEF Clean, Begins
      <4>4. Len(first) \in Nat /\ i \in 2 .. Len(first) /\ i \in 1 .. h
        BY <1>1, <4>2, <4>3, EndBrackets
      <4>5. first[i] \notin {"ESC", "CSI"}
        BY <4>4, EndBrackets
      <4>6. s[n + 1] = first[i]
        BY <4>2, <4>3, <4>4
      <4>7. n + 1 \in 1 .. N /\ 1 \in 1 .. Len(end)
        BY <1>1, <2>2, <4>2
      <4>8. s[n + 1] = end[1]
        BY <1>3, <2>1, <4>7
      <4> QED  BY <2>2, <4>5, <4>6, <4>8
    <3> QED  BY <3>3, <3>4
  <2> QED  BY <1>1, <2>2, <2>3, <2>4
<1>8. Len(c) <= 6
  <2>1. h <= 5
    <3>1. PICK end \in PasteEnds :
            h <= Len(end) /\ \A j \in 1 .. h : s[N - h + j] = end[j]
      BY <1>0 DEF Clean, Begins
    <3>2. Len(end) \in {5, 6}
      BY EndBrackets
    <3>3. CASE h = Len(end)
      <4>1. N - h \in 0 .. N - Len(end)
        BY <1>1, <3>2, <3>3
      <4> QED  BY <1>0, <3>1, <3>3, <4>1 DEF Clean, HasEnd
    <3>4. CASE h # Len(end)
      <4>1. h <= Len(end)
        BY <3>1
      <4>2. CASE Len(end) = 5
        BY <4>1, <4>2
      <4>3. CASE Len(end) = 6
        BY <3>4, <4>1, <4>3
      <4> QED  BY <3>2, <4>2, <4>3
    <3> QED  BY <3>3, <3>4
  <2> QED  BY <2>1
<1>9. PICK n : n = advance_after_break(c)
  OBVIOUS
<1>10. /\ n \in 0 .. Len(c) /\ Begins(c, Len(c) - n)
       /\ \A k \in Len(c) - n + 1 .. Len(c) : ~ Begins(c, k)
  BY <1>8, <1>9, ShiftsAreLeast
<1>11. PICK k0 : k0 = Len(c) - n
  OBVIOUS
<1>12. k0 \in 0 .. h + 1 /\ k0 \in 0 .. Len(w)
  BY <1>1, <1>3, <1>10, <1>11
<1>13. Begins(w, k0)
  <2>1. CASE k0 = 0
    <3>1. PICK end \in PasteEnds : TRUE
      BY DEF PasteEnds
    <3>2. Len(end) \in {5, 6}
      BY EndBrackets
    <3> QED  BY <2>1, <3>2 DEF Begins
  <2>2. CASE k0 # 0
    BY <1>6, <1>10, <1>11, <1>12, <2>2
  <2> QED  BY <2>1, <2>2
<1>14. ASSUME NEW k \in k0 + 1 .. Len(w), Begins(w, k)
       PROVE  FALSE
  <2>1. k \in 1 .. N + 1
    BY <1>1, <1>3, <1>12
  <2>2. PICK end \in PasteEnds :
          k <= Len(end) /\ \A j \in 1 .. k : w[N + 1 - k + j] = end[j]
    <3>1. PICK end \in PasteEnds :
            k <= Len(end) /\ \A j \in 1 .. k : w[Len(w) - k + j] = end[j]
      BY <1>14 DEF Begins
    <3>2. ASSUME NEW j \in 1 .. k PROVE w[N + 1 - k + j] = end[j]
      <4>1. Len(w) - k + j = N + 1 - k + j
        BY <1>1, <1>3, <1>12
      <4> QED  BY <3>1, <4>1
    <3> QED  BY <3>1, <3>2
  <2>3. k - 1 \in 0 .. h
    BY <1>5, <2>1, <2>2
  <2>4. k \in 1 .. h + 1 /\ k \in Len(c) - n + 1 .. Len(c)
    BY <1>1, <1>11, <1>12, <2>1, <2>3
  <2> QED  BY <1>6, <1>10, <1>14, <2>4
<1>15. Clean(w, k0)
  BY <1>7, <1>12, <1>13, <1>14 DEF Clean
<1> QED  BY <1>2, <1>9, <1>11, <1>15

\* What a string contains, a longer string contains.
LEMMA EndsStay ==
  ASSUME NEW s \in Seq(Byte), NEW more \in Seq(Byte), HasEnd(s)
  PROVE  HasEnd(s \o more)
<1>1. PICK w : w = s \o more
  OBVIOUS
<1>2. /\ Len(s) \in Nat /\ Len(w) \in Nat /\ Len(s) <= Len(w)
      /\ \A i \in 1 .. Len(s) : w[i] = s[i]
  <2>1. Len(s) \in Nat /\ Len(more) \in Nat
    BY LenProperties
  <2>2. Len(w) = Len(s) + Len(more) /\ \A i \in 1 .. Len(s) : w[i] = s[i]
    <3>1. Len(w) = Len(s) + Len(more)
      BY <1>1, ConcatProperties
    <3>2. \A i \in 1 .. Len(s) + Len(more) :
            w[i] = IF i <= Len(s) THEN s[i] ELSE more[i - Len(s)]
      BY <1>1, ConcatProperties
    <3>3. \A i \in 1 .. Len(s) : i \in 1 .. Len(s) + Len(more) /\ i <= Len(s)
      BY <2>1
    <3> QED  BY <3>1, <3>2, <3>3
  <2> QED  BY <2>1, <2>2
<1>3. PICK end \in PasteEnds : \E n \in 0 .. Len(s) - Len(end) :
        \A j \in 1 .. Len(end) : s[n + j] = end[j]
  BY DEF HasEnd
<1>4. PICK n \in 0 .. Len(s) - Len(end) : \A j \in 1 .. Len(end) : s[n + j] = end[j]
  BY <1>3
<1>5. Len(end) \in {5, 6}
  BY EndBrackets
<1>6. n \in 0 .. Len(w) - Len(end) /\ \A j \in 1 .. Len(end) : n + j \in 1 .. Len(s)
  BY <1>2, <1>5
<1>7. \A j \in 1 .. Len(end) : w[n + j] = end[j]
  BY <1>2, <1>4, <1>6
<1> QED  BY <1>1, <1>6, <1>7 DEF HasEnd

\* The bracket that begins a paste contains no end and begins none.
LEMMA StartIsClean ==
  ASSUME NEW s \in Seq(Byte), NEW intro \in 1 .. 2, NEW end \in Nat, end <= Len(s),
         intro <= end, SubSeq(s, intro + 1, end) = PasteStart
  PROVE  Clean(Take(s, end), 0)
<1>1. Len(s) \in Nat
  BY LenProperties
<1>2. PICK piece : piece = SubSeq(s, intro + 1, end)
  OBVIOUS
<1>3. /\ Len(piece) = 4 /\ piece[2] = "0" /\ piece[3] = "0" /\ piece[4] = "~"
  <2>1. piece = PasteStart
    BY <1>2
  <2>2. piece = <<"2", "0", "0", "~">>
    BY <2>1 DEF PasteStart
  <2>3. /\ Len(<<"2", "0", "0", "~">>) = 4 /\ <<"2", "0", "0", "~">>[2] = "0"
        /\ <<"2", "0", "0", "~">>[3] = "0" /\ <<"2", "0", "0", "~">>[4] = "~"
    OBVIOUS
  <2> QED  BY <2>2, <2>3
<1>4. /\ Len(piece) = end - (intro + 1) + 1
      /\ \A j \in 1 .. end - (intro + 1) + 1 : piece[j] = s[intro + 1 + j - 1]
  <2>1. intro + 1 \in 1 .. Len(s) + 1 /\ end \in intro + 1 - 1 .. Len(s)
    BY <1>1
  <2> QED  BY <1>2, <2>1, SubSeqProperties
<1>5. end = intro + 4 /\ end \in 5 .. 6
  <2>1. end - (intro + 1) + 1 = 4
    BY <1>3, <1>4
  <2>2. CASE intro = 1
    BY <2>1, <2>2
  <2>3. CASE intro = 2
    BY <2>1, <2>3
  <2> QED  BY <2>2, <2>3
<1>6. s[end] = "~" /\ s[end - 1] = "0" /\ s[end - 2] = "0"
  <2>1. /\ 2 \in 1 .. end - (intro + 1) + 1 /\ intro + 1 + 2 - 1 = end - 2
        /\ 3 \in 1 .. end - (intro + 1) + 1 /\ intro + 1 + 3 - 1 = end - 1
        /\ 4 \in 1 .. end - (intro + 1) + 1 /\ intro + 1 + 4 - 1 = end
    BY <1>5
  <2> QED  BY <1>3, <1>4, <2>1
<1>7. PICK t : t = Take(s, end)
  OBVIOUS
<1>8. t \in Seq(Byte) /\ Len(t) = end /\ \A j \in 1 .. end : t[j] = s[j]
  <2>1. end \in 0 .. Len(s)
    BY <1>1
  <2> QED  BY <1>7, <2>1, TakeAndCut, TakeAndCutElements
<1>9. t[end] = "~" /\ t[end - 1] = "0" /\ t[end - 2] = "0"
  <2>1. end \in 1 .. end /\ end - 1 \in 1 .. end /\ end - 2 \in 1 .. end
    BY <1>5
  <2> QED  BY <1>6, <1>8, <2>1
<1>10. ~ HasEnd(t)
  <2>1. SUFFICES ASSUME NEW e \in PasteEnds, NEW n \in 0 .. Len(t) - Len(e),
                        \A j \in 1 .. Len(e) : t[n + j] = e[j]
                 PROVE  FALSE
    BY DEF HasEnd
  <2>2. Len(e) \in {5, 6} /\ e[Len(e)] = "~" /\ e[Len(e) - 1] = "1"
    BY EndBrackets
  <2>3. Len(e) \in 1 .. Len(e) /\ Len(e) - 1 \in 1 .. Len(e)
    <3>1. CASE Len(e) = 5
      BY <3>1
    <3>2. CASE Len(e) = 6
      BY <3>2
    <3> QED  BY <2>2, <3>1, <3>2
  <2>4. t[n + Len(e)] = "~" /\ t[n + (Len(e) - 1)] = "1"
    BY <2>1, <2>2, <2>3
  <2>5. CASE n + Len(e) = end
    <3>1. n + (Len(e) - 1) = end - 1
      BY <1>5, <2>2, <2>5
    <3> QED  BY <1>9, <2>4, <3>1
  <2>6. CASE n + Len(e) = end - 1
    BY <1>9, <2>4, <2>6
  <2>7. n + Len(e) = end \/ n + Len(e) = end - 1
    <3>1. CASE Len(e) = 5
      BY <1>5, <1>8, <3>1
    <3>2. CASE Len(e) = 6
      BY <1>5, <1>8, <3>2
    <3> QED  BY <2>2, <3>1, <3>2
  <2> QED  BY <2>5, <2>6, <2>7
<1>11. ASSUME NEW k \in 1 .. Len(t), Begins(t, k)
       PROVE  FALSE
  <2>1. PICK e \in PasteEnds : k <= Len(e) /\ \A j \in 1 .. k : t[Len(t) - k + j] = e[j]
    BY <1>11 DEF Begins
  <2>2. /\ Len(e) \in {5, 6} /\ e[Len(e) - 1] = "1"
        /\ \A j \in 1 .. Len(e) - 1 : e[j] # "~"
    BY EndBrackets
  <2>3. k \in 1 .. k /\ Len(t) - k + k = end
    BY <1>5, <1>8
  <2>4. e[k] = "~"
    BY <1>9, <2>1, <2>3
  <2>5. k = Len(e)
    <3>1. k \notin 1 .. Len(e) - 1
      BY <2>2, <2>4
    <3>2. CASE Len(e) = 5
      BY <2>1, <3>1, <3>2
    <3>3. CASE Len(e) = 6
      BY <2>1, <3>1, <3>3
    <3> QED  BY <2>2, <3>2, <3>3
  <2>6. k - 1 \in 1 .. k /\ Len(t) - k + (k - 1) = end - 1
    BY <1>5, <1>8, <2>2, <2>5
  <2>7. e[k - 1] = "0"
    BY <1>9, <2>1, <2>6
  <2> QED  BY <2>2, <2>5, <2>7
<1>12. Begins(t, 0)
  <2>1. PICK e \in PasteEnds : TRUE
    BY DEF PasteEnds
  <2>2. Len(e) \in {5, 6}
    BY EndBrackets
  <2> QED  BY <2>2 DEF Begins
<1>13. 0 \in 0 .. Len(t) /\ 0 + 1 = 1
  BY <1>5, <1>8
<1> QED  BY <1>7, <1>10, <1>11, <1>12, <1>13 DEF Clean

(***************************************************************************)
(* What a step does to a paste that has brought the bytes before: a token  *)
(* of a paste brings no end, and what the parser keeps begins one at most. *)
(***************************************************************************)
Opaque(p, before) == p.mode = "InPaste" => Clean(pasted(p, before), Len(p.held))

OpaqueTo(t, after) == t.type = "Paste" => ~ HasEnd(after)

StaysOpaque(o, before) ==
  \/ o.tokens = <<>> /\ Opaque(o.parser, before)
  \/ \E t : /\ o.tokens = <<t>> /\ OpaqueTo(t, Brings(t, before))
            /\ Opaque(o.parser, Brings(t, before))

LEMMA EmitStaysOpaque ==
  ASSUME NEW p, NEW t, NEW rest, NEW before, OpaqueTo(t, Brings(t, before))
  PROVE  StaysOpaque(Emit(p, t, rest), before)
BY DEF StaysOpaque, Opaque, Emit, Outcome, Ground

LEMMA StepEmitStaysOpaque ==
  ASSUME NEW p, NEW type \in TokenType \ {"Paste"}, NEW n, NEW before
  PROVE  StaysOpaque(Step_Emit(p, type, n), before)
<1>1. PICK t : t = Token(type, Take(p.rest, n))
  OBVIOUS
<1>2. t.type # "Paste"
  BY <1>1 DEF Token
<1> QED  BY <1>1, <1>2, EmitStaysOpaque DEF Step_Emit, OpaqueTo

LEMMA NeedMoreStaysOpaque ==
  ASSUME NEW p \in Parser, NEW before
  PROVE  StaysOpaque(NeedMore(p), before)
<1>1. [p EXCEPT !.mode = "Partial", !.kept = p.rest, !.rest = <<>>].mode = "Partial"
  BY DEF Parser
<1> QED  BY <1>1 DEF StaysOpaque, Opaque, NeedMore, Outcome

LEMMA EnterStringStaysOpaque ==
  ASSUME NEW p \in Parser, NEW kind, NEW intro, NEW end, NEW before
  PROVE  StaysOpaque(EnterString(p, kind, intro, end), before)
<1>1. [p EXCEPT !.mode = "InString", !.kind = kind, !.intro = intro,
                !.kept = Take(p.rest, end - 1), !.start = end - 1,
                !.rest = Cut(p.rest, end - 1)].mode = "InString"
  BY DEF Parser
<1> QED  BY <1>1 DEF StaysOpaque, Opaque, EnterString, Outcome

LEMMA EnterPasteStaysOpaque ==
  ASSUME NEW p \in Parser, NEW end \in 1 .. Len(p.rest) + 1, NEW before,
         p.held = <<>>, Clean(Take(p.rest, end - 1), 0)
  PROVE  StaysOpaque(EnterPaste(p, end), before)
<1> DEFINE next == [p EXCEPT !.mode = "InPaste", !.kept = Take(p.rest, end - 1),
                             !.start = end - 1, !.first = TRUE,
                             !.rest = Cut(p.rest, end - 1)]
<1>1. next.kept = Take(p.rest, end - 1) /\ next.first = TRUE /\ next.held = <<>>
  BY DEF Parser
<1>2. Take(p.rest, end - 1) \in Seq(Byte)
  <2>1. p.rest \in Seq(Byte) /\ Len(p.rest) \in Nat
    BY LenProperties DEF Parser
  <2>2. end - 1 \in 0 .. Len(p.rest)
    BY <2>1
  <2> QED  BY <2>1, <2>2, TakeAndCut
<1>3. EnterPaste(p, end) = Outcome(next, <<>>)
  BY DEF EnterPaste
<1> HIDE DEF next
<1>4. pasted(next, before) = Take(p.rest, end - 1)
  <2>1. <<>> \o Take(p.rest, end - 1) = Take(p.rest, end - 1)
    BY <1>2, ConcatEmptySeq
  <2>2. Take(p.rest, end - 1) \o <<>> = Take(p.rest, end - 1)
    BY <1>2, ConcatEmptySeq
  <2> QED  BY <1>1, <2>1, <2>2 DEF pasted
<1>5. Len(next.held) = 0
  BY <1>1
<1> QED  BY <1>3, <1>4, <1>5 DEF StaysOpaque, Opaque, Outcome

-----------------------------------------------------------------------------
LEMMA CsiStaysOpaque ==
  ASSUME NEW p \in Parser, p.held = <<>>, NEW intro \in 1 .. 2, intro <= Len(p.rest),
         NEW before
  PROVE  StaysOpaque(parse_csi(p, intro), before)
<1> DEFINE prefix == scan_control_prefix(p.rest, intro + 1, p.limit)
<1>1. p.rest \in Seq(Byte) /\ Len(p.rest) \in Nat /\ p.limit \in Nat
  BY LenProperties, LimitsAssumption DEF Parser
<1>2. intro + 1 \in 1 .. Len(p.rest) + 1
  BY <1>1
<1>3. prefix.ends # "NeedMore" => prefix.at \in intro + 1 .. Len(p.rest) + 1
  BY <1>1, <1>2, PrefixesEnd
<1>4. parse_csi(p, intro) =
        CASE prefix.ends = "NeedMore" -> NeedMore(p)
          [] prefix.ends = "Complete" ->
               IF SubSeq(p.rest, intro + 1, prefix.at - 1) = PasteStart
               THEN EnterPaste(p, prefix.at)
               ELSE Step_Emit(p, "Csi", prefix.at - 1)
          [] OTHER -> Step_Emit(p, "Malformed", prefix.at - 1)
  BY DEF parse_csi
<1> HIDE DEF prefix
<1>5. StaysOpaque(NeedMore(p), before)
  BY NeedMoreStaysOpaque
<1>6. /\ StaysOpaque(Step_Emit(p, "Csi", prefix.at - 1), before)
      /\ StaysOpaque(Step_Emit(p, "Malformed", prefix.at - 1), before)
  BY StepEmitStaysOpaque DEF TokenType
<1>7. ASSUME prefix.ends = "Complete",
             SubSeq(p.rest, intro + 1, prefix.at - 1) = PasteStart
      PROVE  StaysOpaque(EnterPaste(p, prefix.at), before)
  <2>1. /\ prefix.at - 1 \in Nat /\ prefix.at - 1 <= Len(p.rest) /\ intro <= prefix.at - 1
        /\ prefix.at \in 1 .. Len(p.rest) + 1
    BY <1>1, <1>3, <1>7
  <2>2. Clean(Take(p.rest, prefix.at - 1), 0)
    BY <1>1, <1>7, <2>1, StartIsClean
  <2> QED  BY <2>1, <2>2, EnterPasteStaysOpaque
<1> QED  BY <1>4, <1>5, <1>6, <1>7

LEMMA StringStaysOpaque ==
  ASSUME NEW p \in Parser, NEW kind, NEW intro, NEW before
  PROVE  StaysOpaque(parse_string(p, kind, intro), before)
<1>1. \A end, at : StaysOpaque(EnterString(p, kind, at, end), before)
  BY EnterStringStaysOpaque
<1>2. StaysOpaque(NeedMore(p), before)
  BY NeedMoreStaysOpaque
<1>3. \A n : StaysOpaque(Step_Emit(p, "Malformed", n), before)
  BY StepEmitStaysOpaque DEF TokenType
<1> QED  BY <1>1, <1>2, <1>3 DEF parse_string

LEMMA PlainEscapeStaysOpaque ==
  ASSUME NEW p \in Parser, NEW before
  PROVE  StaysOpaque(parse_plain_escape(p), before)
<1>1. StaysOpaque(NeedMore(p), before)
  BY NeedMoreStaysOpaque
<1>2. \A n : /\ StaysOpaque(Step_Emit(p, "Malformed", n), before)
             /\ StaysOpaque(Step_Emit(p, "Esc", n), before)
  BY StepEmitStaysOpaque DEF TokenType
<1> QED  BY <1>1, <1>2 DEF parse_plain_escape

LEMMA EscapeStaysOpaque ==
  ASSUME NEW p \in Parser, p.held = <<>>, p.rest # <<>>, NEW before
  PROVE  StaysOpaque(parse_escape(p), before)
<1>1. p.rest \in Seq(Byte) /\ Len(p.rest) \in Nat
  BY LenProperties DEF Parser
<1>2. StaysOpaque(NeedMore(p), before) /\ StaysOpaque(parse_plain_escape(p), before)
  BY NeedMoreStaysOpaque, PlainEscapeStaysOpaque
<1>3. \A kind : StaysOpaque(parse_string(p, kind, 2), before)
  BY StringStaysOpaque
<1>4. StaysOpaque(Step_Emit(p, "Malformed", 2), before)
  BY StepEmitStaysOpaque DEF TokenType
<1>5. CASE Len(p.rest) = 1
  BY <1>2, <1>5 DEF parse_escape
<1>6. CASE Len(p.rest) # 1
  <2>1. 2 <= Len(p.rest)
    <3>1. Len(p.rest) # 0
      BY <1>1, EmptySeq
    <3>2. \A n \in Nat : n # 0 /\ n # 1 => 2 <= n
      OBVIOUS
    <3> QED  BY <1>1, <1>6, <3>1, <3>2
  <2>2. StaysOpaque(parse_csi(p, 2), before)
    BY <2>1, CsiStaysOpaque
  <2> QED  BY <1>2, <1>3, <1>4, <1>6, <2>2 DEF parse_escape
<1> QED  BY <1>5, <1>6

LEMMA TextStaysOpaque ==
  ASSUME NEW p \in Parser, NEW before
  PROVE  StaysOpaque(parse_text(p), before)
<1>1. StaysOpaque(NeedMore(p), before)
  BY NeedMoreStaysOpaque
<1>2. \A n : /\ StaysOpaque(Step_Emit(p, "Malformed", n), before)
             /\ StaysOpaque(Step_Emit(p, "Text", n), before)
  BY StepEmitStaysOpaque DEF TokenType
<1> QED  BY <1>1, <1>2 DEF parse_text

LEMMA StepStaysOpaque ==
  ASSUME NEW p \in Parser, p.held = <<>>, p.rest # <<>>, NEW before
  PROVE  StaysOpaque(step(p), before)
<1>1. 1 <= Len(p.rest)
  <2>1. p.rest \in Seq(Byte) /\ Len(p.rest) \in Nat
    BY LenProperties DEF Parser
  <2> QED  BY <2>1, EmptySeq
<1>2. /\ StaysOpaque(parse_escape(p), before) /\ StaysOpaque(parse_text(p), before)
      /\ StaysOpaque(parse_csi(p, 1), before)
  BY <1>1, EscapeStaysOpaque, TextStaysOpaque, CsiStaysOpaque
<1>3. \A kind : StaysOpaque(parse_string(p, kind, 1), before)
  BY StringStaysOpaque
<1>4. /\ StaysOpaque(Step_Emit(p, "Malformed", 1), before)
      /\ StaysOpaque(Step_Emit(p, "Control", 1), before)
  BY StepEmitStaysOpaque DEF TokenType
<1> QED  BY <1>2, <1>3, <1>4 DEF step

LEMMA EndedStringsStayOpaque ==
  ASSUME NEW p, p.kind # "Paste", NEW terminator, NEW rest, NEW before
  PROVE  StaysOpaque(emit_string_token(p, terminator, rest), before)
<1>1. PICK t : t = string_token(p, terminator)
  OBVIOUS
<1>2. t.type # "Paste"
  BY <1>1 DEF string_token
<1> QED  BY <1>1, <1>2, EmitStaysOpaque DEF emit_string_token, OpaqueTo

LEMMA AbortedStringsStayOpaque ==
  ASSUME NEW p, p.kind # "Paste", NEW aborting, NEW again, NEW before
  PROVE  StaysOpaque(abort_string(p, aborting, again), before)
<1>1. PICK t : t = Token("Malformed", p.kept \o aborting)
  OBVIOUS
<1>2. t.type # "Paste"
  BY <1>1 DEF Token
<1>3. StaysOpaque(Emit(p, t, again), before)
  BY <1>2, EmitStaysOpaque DEF OpaqueTo
<1>4. StaysOpaque(emit_string_token(p, <<>>, aborting \o again), before)
  BY EndedStringsStayOpaque
<1> QED  BY <1>1, <1>3, <1>4 DEF abort_string

LEMMA StringStepStaysOpaque ==
  ASSUME NEW p \in Parser, p.mode = "InString", NEW before
  PROVE  StaysOpaque(consume_string(p), before)
<1> DEFINE b == Head(p.rest)
           rest == Tail(p.rest)
<1>1. p.kind # "Paste"
  BY DEF Parser
<1>2. \A terminator : StaysOpaque(emit_string_token(p, terminator, rest), before)
  BY <1>1, EndedStringsStayOpaque
<1>3. \A aborting, again : StaysOpaque(abort_string(p, aborting, again), before)
  BY <1>1, AbortedStringsStayOpaque
<1>4. StaysOpaque(Outcome([p EXCEPT !.held = <<"ESC">>, !.rest = rest], <<>>), before)
  <2>1. [p EXCEPT !.held = <<"ESC">>, !.rest = rest].mode = "InString"
    BY DEF Parser
  <2> QED  BY <2>1 DEF StaysOpaque, Opaque, Outcome
<1>5. StaysOpaque(Outcome([push_payload_byte(p, b) EXCEPT !.rest = rest], <<>>), before)
  <2>1. [push_payload_byte(p, b) EXCEPT !.rest = rest].mode = "InString"
    BY DEF Parser, push_payload_byte
  <2> QED  BY <2>1 DEF StaysOpaque, Opaque, Outcome
<1> QED  BY <1>2, <1>3, <1>4, <1>5 DEF consume_string

LEMMA TakeCutJoin ==
  ASSUME NEW s \in Seq(Byte), NEW n \in 0 .. Len(s)
  PROVE  Take(s, n) \o Cut(s, n) = s
<1>1. Len(s) \in Nat
  BY LenProperties
<1>2. PICK u, v : u = Take(s, n) /\ v = Cut(s, n)
  OBVIOUS
<1>3. /\ u \in Seq(Byte) /\ Len(u) = n /\ v \in Seq(Byte) /\ Len(v) = Len(s) - n
      /\ (\A j \in 1 .. n : u[j] = s[j]) /\ \A j \in 1 .. Len(s) - n : v[j] = s[n + j]
  BY <1>2, TakeAndCut, TakeAndCutElements
<1>4. PICK w : w = u \o v
  OBVIOUS
<1>5. /\ w \in Seq(Byte) /\ Len(w) = Len(s)
      /\ \A i \in 1 .. Len(s) : w[i] = IF i <= n THEN u[i] ELSE v[i - n]
  <2>1. Len(u) + Len(v) = Len(s)
    BY <1>1, <1>3
  <2>2. /\ w \in Seq(Byte) /\ Len(w) = Len(u) + Len(v)
        /\ \A i \in 1 .. Len(u) + Len(v) : w[i] = IF i <= Len(u) THEN u[i] ELSE v[i - Len(u)]
    BY <1>3, <1>4, ConcatProperties
  <2> QED  BY <1>3, <2>1, <2>2
<1>6. ASSUME NEW i \in 1 .. Len(s) PROVE w[i] = s[i]
  <2>1. CASE i <= n
    <3>1. i \in 1 .. n
      BY <1>1, <2>1
    <3> QED  BY <1>3, <1>5, <2>1, <3>1
  <2>2. CASE ~ (i <= n)
    <3>1. i - n \in 1 .. Len(s) - n /\ n + (i - n) = i
      BY <1>1, <2>2
    <3> QED  BY <1>3, <1>5, <2>2, <3>1
  <2> QED  BY <2>1, <2>2
<1>7. w = s
  BY <1>5, <1>6, SeqEqual
<1> QED  BY <1>2, <1>4, <1>7

LEMMA AppendJoins ==
  ASSUME NEW s \in Seq(Byte), NEW t \in Seq(Byte), NEW b \in Byte
  PROVE  s \o Append(t, b) = Append(s \o t, b)
<1>1. <<b>> \in Seq(Byte) /\ s \o t \in Seq(Byte)
  BY ConcatProperties
<1>2. Append(t, b) = t \o <<b>> /\ Append(s \o t, b) = (s \o t) \o <<b>>
  BY <1>1, AppendIsConcat
<1>3. (s \o t) \o <<b>> = s \o (t \o <<b>>)
  BY <1>1, ConcatAssociative
<1> QED  BY <1>2, <1>3

\* The last bytes of what a paste has brought are the ones that are held.
LEMMA HeldIsLast ==
  ASSUME NEW s \in Seq(Byte), NEW held \in Seq(Byte)
  PROVE  /\ s \o held \in Seq(Byte)
         /\ \A j \in 1 .. Len(held) :
              (s \o held)[Len(s \o held) - Len(held) + j] = held[j]
<1>1. Len(s) \in Nat /\ Len(held) \in Nat
  BY LenProperties
<1>2. PICK w : w = s \o held
  OBVIOUS
<1>3. /\ w \in Seq(Byte) /\ Len(w) = Len(s) + Len(held)
      /\ \A i \in 1 .. Len(s) + Len(held) :
           w[i] = IF i <= Len(s) THEN s[i] ELSE held[i - Len(s)]
  BY <1>2, ConcatProperties
<1>4. ASSUME NEW j \in 1 .. Len(held) PROVE w[Len(w) - Len(held) + j] = held[j]
  <2>1. /\ Len(w) - Len(held) + j = Len(s) + j /\ Len(s) + j \in 1 .. Len(s) + Len(held)
        /\ ~ (Len(s) + j <= Len(s)) /\ Len(s) + j - Len(s) = j
    BY <1>1, <1>3
  <2> QED  BY <1>3, <2>1
<1> QED  BY <1>2, <1>3, <1>4

\* What the segment a paste is in continues.
Behind(p, before) == IF p.first THEN <<>> ELSE before

Continues(t, p, raw, before) == Brings(t, before) = Behind(p, before) \o raw

\* Of what the paste has brought, a segment takes what is kept, or all of it.
LEMMA SegmentsBring ==
  ASSUME NEW p \in Parser, NEW before \in Seq(Byte), NEW raw \in Seq(Byte),
         NEW tail \in Seq(Byte), NEW flags \in SUBSET {"final", "terminated"}
  PROVE  Continues(paste_token(p, raw, tail, flags), p, raw, before)
<1>1. PICK t : t = paste_token(p, raw, tail, flags)
  OBVIOUS
<1>2. t.raw = raw \o tail /\ t.tail = tail
  BY <1>1 DEF paste_token
<1>3. "first" \in t.flags <=> p.first
  <2>1. t.flags = flags \cup (IF p.first THEN {"first"} ELSE {})
    BY <1>1 DEF paste_token
  <2>2. "first" \notin flags
    OBVIOUS
  <2> QED  BY <2>1, <2>2
<1>4. Take(raw \o tail, Len(raw \o tail) - Len(tail)) = raw
  <2>1. Len(raw) \in Nat /\ Len(tail) \in Nat
    BY LenProperties
  <2>2. PICK w : w = raw \o tail
    OBVIOUS
  <2>3. /\ w \in Seq(Byte) /\ Len(w) = Len(raw) + Len(tail)
        /\ \A i \in 1 .. Len(raw) + Len(tail) :
             w[i] = IF i <= Len(raw) THEN raw[i] ELSE tail[i - Len(raw)]
    BY <2>2, ConcatProperties
  <2>4. Len(w) - Len(tail) = Len(raw) /\ Len(raw) \in 0 .. Len(w)
    BY <2>1, <2>3
  <2>5. PICK u : u = Take(w, Len(raw))
    OBVIOUS
  <2>6. u \in Seq(Byte) /\ Len(u) = Len(raw) /\ \A j \in 1 .. Len(raw) : u[j] = w[j]
    BY <2>3, <2>4, <2>5, TakeAndCut, TakeAndCutElements
  <2>7. \A j \in 1 .. Len(raw) : j \in 1 .. Len(raw) + Len(tail) /\ j <= Len(raw)
    BY <2>1
  <2>8. \A j \in 1 .. Len(raw) : u[j] = raw[j]
    BY <2>3, <2>6, <2>7
  <2>9. u = raw
    BY <2>6, <2>8, SeqEqual
  <2> QED  BY <2>2, <2>4, <2>5, <2>9
<1>5. (IF "first" \in t.flags THEN <<>> ELSE before) = Behind(p, before)
  BY <1>3 DEF Behind
<1> QED  BY <1>1, <1>2, <1>4, <1>5 DEF Brings, Continues

\* Cutting a segment leaves what the paste has brought as it was.
LEMMA SegmentsStayOpaque ==
  ASSUME NEW p \in Parser, p.mode = "InPaste", NEW before \in Seq(Byte),
         Clean(pasted(p, before), Len(p.held))
  PROVE  StaysOpaque(emit_segment(p), before)
<1>1. p.kept \in Seq(Byte) /\ p.held \in Seq(Byte) /\ <<>> \in Seq(Byte)
  BY EmptySeq DEF Parser
<1>2. PICK so_far : so_far = Behind(p, before)
  OBVIOUS
<1>3. so_far \in Seq(Byte) /\ so_far \o p.kept \in Seq(Byte)
  BY <1>1, <1>2, ConcatProperties DEF Behind
<1>4. CASE segment_payload_len(p) >= p.limit
  <2> DEFINE next == [p EXCEPT !.kept = <<>>, !.start = 0, !.first = FALSE]
             t == paste_token(p, p.kept, <<>>, {})
  <2>1. next.kept = <<>> /\ next.first = FALSE /\ next.held = p.held /\ next.mode = p.mode
    BY DEF Parser
  <2>2. Brings(t, before) = so_far \o p.kept
    <3>1. PICK raw \in Seq(Byte), tail \in Seq(Byte),
               flags \in SUBSET {"final", "terminated"} :
            raw = p.kept /\ tail = <<>> /\ flags = {}
      BY <1>1
    <3>2. Continues(paste_token(p, raw, tail, flags), p, raw, before)
      BY SegmentsBring
    <3> QED  BY <1>2, <3>1, <3>2 DEF Continues
  <2>3. emit_segment(p) = Outcome(next, <<t>>)
    BY <1>4 DEF emit_segment
  <2> HIDE DEF next, t
  <2>4. pasted(next, Brings(t, before)) = pasted(p, before)
    <3>1. pasted(next, Brings(t, before)) = (so_far \o p.kept) \o <<>> \o p.held
      BY <2>1, <2>2 DEF pasted, Behind
    <3>2. (so_far \o p.kept) \o <<>> = so_far \o p.kept
      BY <1>3, ConcatEmptySeq
    <3> QED  BY <1>2, <3>1, <3>2 DEF pasted, Behind
  <2>5. ~ HasEnd(so_far \o p.kept)
    <3>1. pasted(p, before) = (so_far \o p.kept) \o p.held
      BY <1>2 DEF pasted, Behind
    <3> QED  BY <1>1, <1>3, <3>1, EndsStay DEF Clean
  <2>6. OpaqueTo(t, Brings(t, before)) /\ Opaque(next, Brings(t, before))
    BY <2>1, <2>2, <2>4, <2>5 DEF OpaqueTo, Opaque
  <2> QED  BY <2>3, <2>6 DEF StaysOpaque, Outcome
<1>5. CASE ~ (segment_payload_len(p) >= p.limit)
  BY <1>5 DEF StaysOpaque, Opaque, emit_segment, Outcome
<1> QED  BY <1>4, <1>5

LEMMA PasteStepStaysOpaque ==
  ASSUME NEW p \in Parser, p.mode = "InPaste", Bounded(p), p.rest # <<>>,
         NEW before \in Seq(Byte), Opaque(p, before)
  PROVE  StaysOpaque(consume_paste(p), before)
<1> DEFINE b == Head(p.rest)
           candidate == Append(p.held, b)
           rest == Tail(p.rest)
           n == advance_after_break(candidate)
<1>1. /\ p.held \in Seq(Byte) /\ p.kept \in Seq(Byte) /\ b \in Byte /\ rest \in Seq(Byte)
      /\ Len(p.held) \in Nat /\ <<>> \in Seq(Byte)
  BY HeadTailProperties, LenProperties, EmptySeq DEF Parser
<1>2. Len(p.held) <= 5
  BY DEF Bounded
<1>3. /\ candidate \in Seq(Byte) /\ Len(candidate) = Len(p.held) + 1
      /\ candidate[Len(p.held) + 1] = b /\ \A j \in 1 .. Len(p.held) : candidate[j] = p.held[j]
  BY <1>1, AppendProperties
<1>4. PICK so_far : so_far = Behind(p, before)
  OBVIOUS
<1>5. so_far \in Seq(Byte) /\ so_far \o p.kept \in Seq(Byte)
  BY <1>1, <1>4, ConcatProperties DEF Behind
<1>6. PICK s : s = (so_far \o p.kept) \o p.held
  OBVIOUS
<1>7. Clean(s, Len(p.held)) /\ s \in Seq(Byte)
      /\ \A j \in 1 .. Len(p.held) : s[Len(s) - Len(p.held) + j] = p.held[j]
  <2>1. s = pasted(p, before)
    BY <1>4, <1>6 DEF pasted, Behind
  <2>2. Clean(pasted(p, before), Len(p.held))
    BY DEF Opaque
  <2>3. PICK joined \in Seq(Byte) : joined = so_far \o p.kept
    BY <1>5
  <2>4. s = joined \o p.held
    BY <1>6, <2>3
  <2>5. /\ s \in Seq(Byte)
        /\ \A j \in 1 .. Len(p.held) : s[Len(s) - Len(p.held) + j] = p.held[j]
    BY <1>1, <2>3, <2>4, HeldIsLast
  <2> QED  BY <2>1, <2>2, <2>5
<1> HIDE DEF b, candidate, rest
<1>8. CASE candidate \in PasteEnds
  <2>1. PICK t : t = paste_token(p, p.kept, candidate, {"final", "terminated"})
    OBVIOUS
  <2>2. Brings(t, before) = so_far \o p.kept
    <3>1. PICK flags \in SUBSET {"final", "terminated"} : flags = {"final", "terminated"}
      OBVIOUS
    <3>2. Brings(paste_token(p, p.kept, candidate, flags), before) = Behind(p, before) \o p.kept
      <4>1. PICK raw \in Seq(Byte), tail \in Seq(Byte) : raw = p.kept /\ tail = candidate
        BY <1>1, <1>3
      <4>2. Continues(paste_token(p, raw, tail, flags), p, raw, before)
        BY SegmentsBring
      <4> QED  BY <4>1, <4>2 DEF Continues
    <3> QED  BY <1>4, <2>1, <3>1, <3>2
  <2>3. ~ HasEnd(so_far \o p.kept)
    BY <1>1, <1>5, <1>6, <1>7, EndsStay DEF Clean
  <2>4. StaysOpaque(Emit(p, t, rest), before)
    BY <2>2, <2>3, EmitStaysOpaque DEF OpaqueTo
  <2> QED  BY <1>8, <2>1, <2>4 DEF consume_paste, candidate, rest, b
<1>9. CASE candidate \notin PasteEnds
  <2> DEFINE q == [p EXCEPT !.kept = p.kept \o Take(candidate, n),
                            !.held = Cut(candidate, n), !.rest = rest]
  <2>1. Len(candidate) <= 6 /\ Len(candidate) \in Nat
    BY <1>1, <1>2, <1>3
  <2>2. n \in 0 .. Len(candidate)
    BY <1>3, <1>9, <2>1, ShiftsLeaveAPrefix
  <2>3. /\ Take(candidate, n) \in Seq(Byte) /\ Cut(candidate, n) \in Seq(Byte)
        /\ Len(Cut(candidate, n)) = Len(candidate) - n
    BY <1>3, <2>2, TakeAndCut
  <2>4. q \in Parser
    <3>1. p.kept \o Take(candidate, n) \in Seq(Byte)
      BY <1>1, <2>3, ConcatProperties
    <3> QED  BY <1>1, <2>3, <3>1 DEF Parser
  <2>5. /\ q.mode = "InPaste" /\ q.first = p.first /\ q.held = Cut(candidate, n)
        /\ q.kept = p.kept \o Take(candidate, n)
    BY DEF Parser
  <2>6. consume_paste(p) = emit_segment(q)
    BY <1>9 DEF consume_paste, candidate, rest, b
  <2>7. Clean(Append(s, b), Len(candidate) - n)
    <3>1. PICK c : c = candidate
      OBVIOUS
    <3>2. PICK h : h = Len(p.held)
      OBVIOUS
    <3>3. /\ h \in Nat /\ c \in Seq(Byte) /\ Len(c) = h + 1 /\ c[h + 1] = b /\ c \notin PasteEnds
          /\ s \in Seq(Byte) /\ Clean(s, h) /\ b \in Byte
      BY <1>1, <1>3, <1>7, <1>9, <3>1, <3>2
    <3>4. \A j \in 1 .. h : c[j] = s[Len(s) - h + j]
      BY <1>3, <1>7, <3>1, <3>2
    <3>5. Clean(Append(s, b), Len(c) - advance_after_break(c))
      BY <3>3, <3>4, CleanGoesOn
    <3> QED  BY <3>1, <3>5
  <2> HIDE DEF q
  <2>8. pasted(q, before) = Append(s, b)
    <3>1. PICK front, back, all : /\ front = Take(candidate, n) /\ back = Cut(candidate, n)
                                  /\ all = so_far \o p.kept
      OBVIOUS
    <3>2. front \in Seq(Byte) /\ back \in Seq(Byte) /\ all \in Seq(Byte)
      BY <1>5, <2>3, <3>1
    <3>3. pasted(q, before) = (so_far \o (p.kept \o front)) \o back
      BY <1>4, <2>5, <3>1 DEF pasted, Behind
    <3>4. so_far \o (p.kept \o front) = all \o front
      <4>1. PICK a \in Seq(Byte), k \in Seq(Byte), f \in Seq(Byte) :
              a = so_far /\ k = p.kept /\ f = front
        BY <1>1, <1>5, <3>2
      <4>2. a \o (k \o f) = (a \o k) \o f
        BY Joined
      <4> QED  BY <3>1, <4>1, <4>2
    <3>5. (all \o front) \o back = all \o (front \o back)
      BY <3>2, Joined
    <3>6. front \o back = candidate
      BY <1>3, <2>2, <3>1, TakeCutJoin
    <3>7. all \o candidate = Append(all \o p.held, b)
      BY <1>1, <3>2, AppendJoins DEF candidate
    <3> QED  BY <1>6, <3>1, <3>3, <3>4, <3>5, <3>6, <3>7
  <2>9. StaysOpaque(emit_segment(q), before)
    BY <2>3, <2>4, <2>5, <2>7, <2>8, SegmentsStayOpaque
  <2> QED  BY <2>6, <2>9
<1> QED  BY <1>8, <1>9

LEMMA TurnStaysOpaque ==
  ASSUME NEW p \in Parser, Bounded(p), Shape(p), p.rest # <<>>,
         NEW before \in Seq(Byte), Opaque(p, before)
  PROVE  StaysOpaque(Turn(p), before)
<1>1. p.mode \in {"Ground", "InString", "InPaste"}
  BY DEF Parser, Mode, Shape
<1>2. CASE p.mode = "Ground"
  <2>1. p.held = <<>>
    BY <1>2 DEF Bounded
  <2>2. StaysOpaque(step(p), before)
    BY <2>1, StepStaysOpaque
  <2> QED  BY <1>2, <2>2 DEF Turn
<1>3. CASE p.mode = "InString"
  <2>1. StaysOpaque(consume_string(p), before)
    BY <1>3, StringStepStaysOpaque
  <2> QED  BY <1>3, <2>1 DEF Turn
<1>4. CASE p.mode = "InPaste"
  <2>1. StaysOpaque(consume_paste(p), before)
    BY <1>4, PasteStepStaysOpaque
  <2> QED  BY <1>4, <2>1 DEF Turn
<1> QED  BY <1>1, <1>2, <1>3, <1>4

LEMMA PastedWhole ==
  ASSUME NEW p \in Parser, NEW before \in Seq(Byte)
  PROVE  Behind(p, before) \o (p.kept \o p.held) = pasted(p, before)
<1>1. PICK a \in Seq(Byte), k \in Seq(Byte), f \in Seq(Byte) :
        a = Behind(p, before) /\ k = p.kept /\ f = p.held
  BY EmptySeq DEF Parser, Behind
<1>2. a \o (k \o f) = (a \o k) \o f
  BY Joined
<1> QED  BY <1>1, <1>2 DEF pasted, Behind

\* A paste that was not ended brings what is held too when it is flushed.
LEMMA FlushStaysOpaque ==
  ASSUME NEW p \in Parser, NEW before \in Seq(Byte), Opaque(p, before)
  PROVE  StaysOpaque(flushed(p), before)
<1>1. p.mode \in {"Ground", "Partial", "InString", "InPaste"}
  BY DEF Parser, Mode
<1>2. CASE p.mode = "Ground"
  BY <1>2 DEF flushed, StaysOpaque, Opaque, Outcome
<1>3. CASE p.mode = "Partial"
  <2>1. PICK t : t = finish_pending(p)
    OBVIOUS
  <2>2. t.type # "Paste"
    BY <2>1 DEF finish_pending, Token
  <2>3. StaysOpaque(Emit(p, t, <<>>), before)
    BY <2>2, EmitStaysOpaque DEF OpaqueTo
  <2> QED  BY <1>3, <2>1, <2>3 DEF flushed
<1>4. CASE p.mode = "InString"
  <2>1. PICK q : q = IF p.held = <<>> THEN p ELSE push_payload_byte(p, "ESC")
    OBVIOUS
  <2>2. q.kind # "Paste"
    <3>1. p.kind # "Paste"
      BY DEF Parser
    <3>2. push_payload_byte(p, "ESC").kind = p.kind
      BY DEF Parser, push_payload_byte
    <3> QED  BY <2>1, <3>1, <3>2
  <2>3. StaysOpaque(emit_string_token(q, <<>>, <<>>), before)
    BY <2>2, EndedStringsStayOpaque
  <2> QED  BY <1>4, <2>1, <2>3 DEF flushed
<1>5. CASE p.mode = "InPaste"
  <2>1. /\ p.kept \in Seq(Byte) /\ p.held \in Seq(Byte)
        /\ Behind(p, before) \in Seq(Byte) /\ <<>> \in Seq(Byte)
    BY EmptySeq DEF Parser, Behind
  <2>2. PICK raw \in Seq(Byte), tail \in Seq(Byte), flags \in SUBSET {"final", "terminated"} :
          raw = p.kept \o p.held /\ tail = <<>> /\ flags = {"final"}
    <3>1. p.kept \o p.held \in Seq(Byte)
      BY <2>1, ConcatProperties
    <3> QED  BY <2>1, <3>1
  <2>3. PICK segment : segment = paste_token(p, raw, tail, flags)
    OBVIOUS
  <2>4. Continues(segment, p, raw, before)
    BY <2>3, SegmentsBring
  <2>5. Brings(segment, before) = pasted(p, before)
    <3>1. Brings(segment, before) = Behind(p, before) \o (p.kept \o p.held)
      BY <2>2, <2>4 DEF Continues
    <3> QED  BY <3>1, PastedWhole
  <2>6. ~ HasEnd(Brings(segment, before))
    BY <1>5, <2>5 DEF Opaque, Clean
  <2>7. StaysOpaque(Emit(p, segment, <<>>), before)
    BY <2>6, EmitStaysOpaque DEF OpaqueTo
  <2> QED  BY <1>5, <2>2, <2>3, <2>7 DEF flushed
<1> QED  BY <1>1, <1>2, <1>3, <1>4, <1>5

LEMMA FedStaysOpaque ==
  ASSUME NEW p \in Parser, NEW chunk, NEW before, Opaque(p, before)
  PROVE  Opaque(fed_with(p, chunk), before)
<1>1. CASE p.mode = "Partial"
  BY <1>1 DEF fed_with, Opaque, Ground
<1>2. CASE p.mode # "Partial"
  <2>1. PICK q : q = [p EXCEPT !.rest = chunk]
    OBVIOUS
  <2>2. /\ q.mode = p.mode /\ q.first = p.first /\ q.kept = p.kept /\ q.held = p.held
    BY <2>1 DEF Parser
  <2>3. Opaque(q, before)
    BY <2>2 DEF Opaque, pasted
  <2> QED  BY <1>2, <2>1, <2>3 DEF fed_with
<1> QED  BY <1>1, <1>2

-----------------------------------------------------------------------------
LEMMA PayloadsRun ==
  ASSUME NEW some, Len(some) \in Nat
  PROVE  /\ payloads(some)[0] = <<>>
         /\ \A i \in 1 .. Len(some) :
              payloads(some)[i] = Brings(some[i], payloads(some)[i - 1])
<1> DEFINE N == Len(some)
           E(f, m) == f = [i \in 0 .. m |-> IF i = 0 THEN <<>> ELSE Brings(some[i], f[i - 1])]
           P == {m \in 0 .. N : \E f : E(f, m)}
<1>1. 0 \in P
  <2>1. E([i \in 0 .. 0 |-> <<>>], 0)
    OBVIOUS
  <2> HIDE DEF E
  <2> QED  BY <2>1
<1>2. ASSUME NEW m \in 1 .. N, m - 1 \in P
      PROVE  m \in P
  <2>1. PICK f : E(f, m - 1)
    BY <1>2
  <2> DEFINE g == [i \in 0 .. m |-> IF i = m THEN Brings(some[m], f[m - 1]) ELSE f[i]]
  <2>2. E(g, m)
    <3>1. ASSUME NEW i \in 0 .. m
          PROVE  g[i] = IF i = 0 THEN <<>> ELSE Brings(some[i], g[i - 1])
      BY <2>1
    <3> QED  BY <3>1
  <2> HIDE DEF E
  <2> QED  BY <2>2
<1>3. P = 0 .. N
  <2>1. P \in SUBSET (0 .. N)
    OBVIOUS
  <2> HIDE DEF P
  <2> QED  BY <1>1, <1>2, <2>1, CountingUp
<1>4. \E f : E(f, N)
  <2> HIDE DEF E
  <2> QED  BY <1>3
<1> DEFINE f == CHOOSE f : E(f, N)
<1>5. E(f, N)
  <2> HIDE DEF E
  <2> QED  BY <1>4
<1>6. payloads(some) = f
  BY DEF payloads
<1>7. f[0] = <<>> /\ \A i \in 1 .. N : f[i] = Brings(some[i], f[i - 1])
  <2> HIDE DEF f
  <2> QED  BY <1>5
<1> QED  BY <1>6, <1>7

\* One token more brings its own; what the others have brought stays.
LEMMA PayloadsOfOneMore ==
  ASSUME NEW some \in Seq(Tokens), NEW t \in Tokens, NEW more, more = some \o <<t>>
  PROVE  /\ \A i \in 0 .. Len(some) : payloads(more)[i] = payloads(some)[i]
         /\ payloads(more)[Len(some) + 1] = Brings(t, payloads(some)[Len(some)])
<1> DEFINE N == Len(some)
           at == payloads(some)
           next == payloads(more)
           P == {n \in 0 .. N : next[n] = at[n]}
<1>1. N \in Nat
  BY LenProperties
<1>2. /\ Len(more) = N + 1 /\ more[N + 1] = t
      /\ \A i \in 1 .. N : more[i] = some[i]
  BY EndsOfOneMore
<1>3. at[0] = <<>> /\ \A i \in 1 .. N : at[i] = Brings(some[i], at[i - 1])
  BY <1>1, PayloadsRun
<1>4. next[0] = <<>> /\ \A i \in 1 .. N + 1 : next[i] = Brings(more[i], next[i - 1])
  <2>1. Len(more) \in Nat
    BY <1>1, <1>2
  <2> QED  BY <1>2, <2>1, PayloadsRun
<1> HIDE DEF N, at, next
<1>5. 0 \in P
  BY <1>1, <1>3, <1>4
<1>6. ASSUME NEW n \in 1 .. N, n - 1 \in P PROVE n \in P
  <2>1. n \in 1 .. N + 1
    BY <1>1
  <2> QED  BY <1>2, <1>3, <1>4, <1>6, <2>1
<1>7. P = 0 .. N
  <2>1. P \in SUBSET (0 .. N)
    OBVIOUS
  <2> HIDE DEF P
  <2> QED  BY <1>1, <1>5, <1>6, <2>1, CountingUp
<1>8. \A i \in 0 .. N : next[i] = at[i]
  BY <1>7
<1>9. next[N + 1] = Brings(t, at[N])
  <2>1. N + 1 \in 1 .. N + 1 /\ N + 1 - 1 = N /\ N \in 0 .. N
    BY <1>1
  <2> QED  BY <1>2, <1>4, <1>8, <2>1
<1> QED  BY <1>8, <1>9 DEF N, at, next

(***************************************************************************)
(* What every paste has brought is free of end brackets.                   *)
(***************************************************************************)
PastesAreOpaque ==
  LET payload == payloads(tokens)
  IN  /\ \A i \in 0 .. Len(tokens) : payload[i] \in Seq(Byte)
      /\ \A i \in 1 .. Len(tokens) : OpaqueTo(tokens[i], payload[i])
      /\ Opaque(parser, payload[Len(tokens)])

\* What is so of the parser and the tokens is so of them in the next state.
LEMMA OpaqueNext ==
  ASSUME NEW q, NEW some, parser' = q, tokens' = some,
         \A i \in 0 .. Len(some) : payloads(some)[i] \in Seq(Byte),
         \A i \in 1 .. Len(some) : OpaqueTo(some[i], payloads(some)[i]),
         Opaque(q, payloads(some)[Len(some)])
  PROVE  PastesAreOpaque'
BY DEF PastesAreOpaque

LEMMA SegmentsAreBytes ==
  ASSUME NEW t \in Tokens, Len(t.raw) - Len(t.tail) \in Nat, NEW before \in Seq(Byte)
  PROVE  Brings(t, before) \in Seq(Byte)
<1>1. t.raw \in Seq(Byte) /\ Len(t.raw) \in Nat /\ Len(t.tail) \in Nat
  BY TokenParts
<1>2. Len(t.raw) - Len(t.tail) \in 0 .. Len(t.raw)
  <2>1. \A n, m \in Nat : n - m \in Nat => n - m \in 0 .. n
    OBVIOUS
  <2> QED  BY <1>1, <2>1
<1>3. PICK body \in Seq(Byte) : body = Take(t.raw, Len(t.raw) - Len(t.tail))
  BY <1>1, <1>2, TakeAndCut
<1>4. <<>> \o body \in Seq(Byte) /\ before \o body \in Seq(Byte)
  BY EmptySeq, ConcatProperties
<1>5. CASE "first" \in t.flags
  BY <1>3, <1>4, <1>5 DEF Brings
<1>6. CASE "first" \notin t.flags
  BY <1>3, <1>4, <1>6 DEF Brings
<1> QED  BY <1>5, <1>6

LEMMA TookStaysOpaque ==
  ASSUME TypeOK, PastesAreOpaque, NEW outcome, NEW limit, NEW at, NEW to,
         Accounts(outcome, limit, at, to),
         StaysOpaque(outcome, payloads(tokens)[Len(tokens)]), Took(outcome)
  PROVE  PastesAreOpaque'
<1> DEFINE N == Len(tokens)
           before == payloads(tokens)[N]
<1>1. tokens \in Seq(Tokens) /\ N \in Nat
  BY LenProperties DEF TypeOK
<1>2. PICK q, some : q = outcome.parser /\ some = tokens \o outcome.tokens
  OBVIOUS
<1>3. parser' = q /\ tokens' = some
  BY <1>2 DEF Took
<1>4. /\ \A i \in 0 .. N : payloads(tokens)[i] \in Seq(Byte)
      /\ \A i \in 1 .. N : OpaqueTo(tokens[i], payloads(tokens)[i])
  BY DEF PastesAreOpaque
<1>5. before \in Seq(Byte)
  BY <1>1, <1>4
<1>6. CASE outcome.tokens = <<>>
  <2>1. some = tokens
    BY <1>1, <1>2, <1>6, ConcatEmptySeq
  <2>2. Opaque(q, before)
    BY <1>2, <1>6 DEF StaysOpaque
  <2> QED  BY <1>3, <1>4, <2>1, <2>2, OpaqueNext
<1>7. CASE outcome.tokens # <<>>
  <2>1. PICK t \in Tokens : outcome.tokens = <<t>> /\ Covers(t, at, limit)
    BY <1>7 DEF Accounts
  <2>2. OpaqueTo(t, Brings(t, before)) /\ Opaque(q, Brings(t, before))
    <3>1. PICK u : /\ outcome.tokens = <<u>> /\ OpaqueTo(u, Brings(u, before))
                   /\ Opaque(outcome.parser, Brings(u, before))
      BY <1>7 DEF StaysOpaque
    <3>2. u = t
      <4>1. <<u>> = <<t>>
        BY <2>1, <3>1
      <4> QED  BY <4>1
    <3> QED  BY <1>2, <3>1, <3>2
  <2>3. Brings(t, before) \in Seq(Byte)
    BY <1>5, <2>1, SegmentsAreBytes DEF Covers
  <2> HIDE DEF before
  <2>4. some = tokens \o <<t>>
    BY <1>2, <2>1
  <2>5. /\ Len(some) = N + 1 /\ some[N + 1] = t
        /\ \A i \in 1 .. N : some[i] = tokens[i]
    BY <1>1, <2>4, EndsOfOneMore
  <2>6. /\ \A i \in 0 .. N : payloads(some)[i] = payloads(tokens)[i]
        /\ payloads(some)[N + 1] = Brings(t, before)
    BY <1>1, <2>4, PayloadsOfOneMore DEF before
  <2>7. ASSUME NEW i \in 0 .. Len(some) PROVE payloads(some)[i] \in Seq(Byte)
    <3>1. i \in 0 .. N \/ i = N + 1
      BY <1>1, <2>5
    <3> QED  BY <1>4, <2>3, <2>6, <3>1
  <2>8. ASSUME NEW i \in 1 .. Len(some) PROVE OpaqueTo(some[i], payloads(some)[i])
    <3>1. CASE i = N + 1
      BY <2>2, <2>5, <2>6, <3>1
    <3>2. CASE i # N + 1
      <4>1. i \in 1 .. N /\ i \in 0 .. N
        BY <1>1, <2>5, <3>2
      <4> QED  BY <1>4, <2>5, <2>6, <4>1
    <3> QED  BY <3>1, <3>2
  <2>9. Opaque(q, payloads(some)[Len(some)])
    BY <2>2, <2>5, <2>6
  <2> QED  BY <1>3, <2>7, <2>8, <2>9, OpaqueNext
<1> QED  BY <1>6, <1>7

LEMMA PastesStayOpaque == Spec => []PastesAreOpaque
<1>1. Init => PastesAreOpaque
  <2> SUFFICES ASSUME Init PROVE PastesAreOpaque
    OBVIOUS
  <2>1. PICK limit \in Limits : parser = Ground(limit, <<>>)
    BY DEF Init
  <2>2. parser.mode = "Ground" /\ tokens = <<>> /\ Len(tokens) = 0
    BY <2>1 DEF Ground, Init
  <2>3. payloads(tokens)[0] = <<>> /\ <<>> \in Seq(Byte)
    BY <2>2, PayloadsRun, EmptySeq
  <2>4. Opaque(parser, <<>>)
    BY <2>2 DEF Opaque
  <2>5. \A i \in 0 .. Len(tokens) : payloads(tokens)[i] \in Seq(Byte)
    <3>1. \A i \in 0 .. Len(tokens) : i = 0
      BY <2>2
    <3> QED  BY <2>3, <3>1
  <2>6. \A i \in 1 .. Len(tokens) : OpaqueTo(tokens[i], payloads(tokens)[i])
    <3>1. 1 .. Len(tokens) = {}
      BY <2>2
    <3> QED  BY <3>1
  <2> QED  BY <2>2, <2>3, <2>4, <2>5, <2>6 DEF PastesAreOpaque
<1>2. IInv /\ Accounted /\ PastesAreOpaque /\ [Next]_vars => PastesAreOpaque'
  <2> SUFFICES ASSUME IInv, Accounted, PastesAreOpaque, [Next]_vars PROVE PastesAreOpaque'
    OBVIOUS
  <2> DEFINE last == ends(tokens)[Len(tokens)]
             before == payloads(tokens)[Len(tokens)]
  <2>1. TypeOK /\ parser \in Parser /\ Bounded(parser) /\ Shape(parser)
    BY DEF IInv, TypeOK, MemoryIsBounded
  <2>2. Layout(parser) /\ Lies(parser, last, fed) /\ last \in Nat /\ fed \in Nat
    BY <2>1, LastEndIsNat DEF Accounted
  <2>3. before \in Seq(Byte) /\ Opaque(parser, before)
    <3>1. Len(tokens) \in 0 .. Len(tokens)
      BY <2>1, LastEndIsNat
    <3> QED  BY <3>1 DEF PastesAreOpaque
  <2>4. CASE feed
    <3>1. PICK chunk : parser' = fed_with(parser, chunk)
      BY <2>4 DEF feed
    <3>2. PICK q, some : q = fed_with(parser, chunk) /\ some = tokens
      OBVIOUS
    <3>3. parser' = q /\ tokens' = some
      BY <2>4, <3>1, <3>2 DEF feed
    <3>4. Opaque(q, payloads(some)[Len(some)])
      BY <2>1, <2>3, <3>2, FedStaysOpaque
    <3>5. /\ \A i \in 0 .. Len(some) : payloads(some)[i] \in Seq(Byte)
          /\ \A i \in 1 .. Len(some) : OpaqueTo(some[i], payloads(some)[i])
      BY <3>2 DEF PastesAreOpaque
    <3> QED  BY <3>3, <3>4, <3>5, OpaqueNext
  <2>5. CASE Scan
    <3>1. parser.rest # <<>> /\ Took(Turn(parser))
      BY <2>5 DEF Scan
    <3>2. Accounts(Turn(parser), parser.limit, last, fed)
      BY <2>1, <2>2, <3>1, TurnAccounts
    <3>3. StaysOpaque(Turn(parser), before)
      BY <2>1, <2>3, <3>1, TurnStaysOpaque
    <3> QED  BY <2>1, <3>1, <3>2, <3>3, TookStaysOpaque
  <2>6. CASE finish
    <3>1. parser.rest = <<>> /\ Took(flushed(parser))
      BY <2>6 DEF finish
    <3>2. Accounts(flushed(parser), parser.limit, last, fed)
      BY <2>1, <2>2, <3>1, FlushAccounts
    <3>3. StaysOpaque(flushed(parser), before)
      BY <2>1, <2>3, FlushStaysOpaque
    <3> QED  BY <2>1, <3>1, <3>2, <3>3, TookStaysOpaque
  <2>7. CASE UNCHANGED vars
    <3>1. PICK q, some : q = parser /\ some = tokens
      OBVIOUS
    <3>2. parser' = q /\ tokens' = some
      BY <2>7, <3>1 DEF vars
    <3>3. /\ \A i \in 0 .. Len(some) : payloads(some)[i] \in Seq(Byte)
          /\ \A i \in 1 .. Len(some) : OpaqueTo(some[i], payloads(some)[i])
          /\ Opaque(q, payloads(some)[Len(some)])
      BY <3>1 DEF PastesAreOpaque
    <3> QED  BY <3>2, <3>3, OpaqueNext
  <2> QED  BY <2>4, <2>5, <2>6, <2>7 DEF Next
<1> QED  BY <1>1, <1>2, InductiveInvariant, AccountedIsInvariant, PTL DEF Spec

(***************************************************************************)
(* A paste ends at its first end bracket: however the reads and the limit  *)
(* cut a paste into segments, what they bring together, with the bytes     *)
(* that are still held, contains neither form of the bracket.              *)
(***************************************************************************)
THEOREM PastesEndAtTheirBracket == Spec => []PasteEndsAtItsBracket
<1>1. IInv /\ PastesAreOpaque => PasteEndsAtItsBracket
  <2> SUFFICES ASSUME IInv, PastesAreOpaque PROVE PasteEndsAtItsBracket
    OBVIOUS
  <2> DEFINE payload == payloads(tokens)
             N == Len(tokens)
  <2>1. TypeOK /\ parser \in Parser /\ N \in Nat
    BY LastEndIsNat DEF IInv, TypeOK
  <2>2. /\ \A i \in 0 .. N : payload[i] \in Seq(Byte)
        /\ \A i \in 1 .. N : OpaqueTo(tokens[i], payload[i])
        /\ Opaque(parser, payload[N])
    BY DEF PastesAreOpaque
  <2> HIDE DEF payload, N
  <2>3. ASSUME NEW i \in 1 .. N, tokens[i].type = "Paste"
        PROVE  ~ contains_end(payload[i])
    <3>1. payload[i] \in Seq(Byte) /\ ~ HasEnd(payload[i])
      BY <2>1, <2>2, <2>3 DEF OpaqueTo
    <3> QED  BY <3>1, ContainsEnd
  <2>4. ASSUME parser.mode = "InPaste"
        PROVE  ~ contains_end(pasted(parser, payload[N]))
    <3>1. payload[N] \in Seq(Byte)
      BY <2>1, <2>2
    <3>2. ~ HasEnd(pasted(parser, payload[N]))
      BY <2>2, <2>4 DEF Opaque, Clean
    <3>3. pasted(parser, payload[N]) \in Seq(Byte)
      <4>1. PICK a \in Seq(Byte), k \in Seq(Byte), f \in Seq(Byte) :
              a = Behind(parser, payload[N]) /\ k = parser.kept /\ f = parser.held
        BY <2>1, <3>1, EmptySeq DEF Parser, Behind
      <4>2. (a \o k) \o f \in Seq(Byte)
        BY ConcatProperties
      <4> QED  BY <4>1, <4>2 DEF pasted, Behind
    <3> QED  BY <3>2, <3>3, ContainsEnd
  <2> QED  BY <2>3, <2>4 DEF PasteEndsAtItsBracket, payload, N
<1> QED  BY <1>1, PastesStayOpaque, InductiveInvariant, PTL

=============================================================================
