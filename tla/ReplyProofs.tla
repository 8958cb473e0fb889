---------------------------- MODULE ReplyProofs -----------------------------
(***************************************************************************)
(* Theorems about replies.  How they are told apart: the matchers, for     *)
(* every token, and the machine of MCReplyMatchers, for any tokens and     *)
(* discriminators it is given.  What is made of them: CapabilityProbe, for *)
(* any environments and terminals, whatever they answer, in whatever       *)
(* batches and order.                                                      *)
(***************************************************************************)
EXTENDS MCReplyMatchers, CapabilityProbe, FiniteSetTheorems, SequenceTheorems,
        WellFoundedInduction, TLAPS

(***************************************************************************)
(* An expectation is its kind and its discriminator.                       *)
(***************************************************************************)
LEMMA KindArgRecord ==
  ASSUME NEW K, NEW A, NEW e \in [kind : K, arg : A]
  PROVE  e = [kind |-> e.kind, arg |-> e.arg] /\ e.kind \in K /\ e.arg \in A
  OBVIOUS

LEMMA ExpectationRecord ==
  ASSUME NEW e \in Expectation
  PROVE  /\ e = [kind |-> e.kind, arg |-> e.arg]
         /\ e.kind \in Fieldless => e.arg = 0
<1>1. \/ e \in [kind : Fieldless, arg : {0}]
      \/ e \in [kind : {"DecPrivateMode"}, arg : ModeNumber]
      \/ e \in [kind : {"OscColor"}, arg : ColorSelector]
      \/ e \in [kind : {"KittyGraphics"}, arg : Nat]
  BY DEF Expectation
<1>2. CASE e \in [kind : Fieldless, arg : {0}]
  BY <1>2, KindArgRecord
<1>3. CASE e \in [kind : {"DecPrivateMode"}, arg : ModeNumber]
  <2>1. e.kind \notin Fieldless
    BY <1>3, KindArgRecord DEF Fieldless
  <2> QED
    BY <1>3, <2>1, KindArgRecord
<1>4. CASE e \in [kind : {"OscColor"}, arg : ColorSelector]
  <2>1. e.kind \notin Fieldless
    BY <1>4, KindArgRecord DEF Fieldless
  <2> QED
    BY <1>4, <2>1, KindArgRecord
<1>5. CASE e \in [kind : {"KittyGraphics"}, arg : Nat]
  <2>1. e.kind \notin Fieldless
    BY <1>5, KindArgRecord DEF Fieldless
  <2> QED
    BY <1>5, <2>1, KindArgRecord
<1> QED
  BY <1>1, <1>2, <1>3, <1>4, <1>5

(***************************************************************************)
(* What the kind of an expectation says of the tokens it accepts: frame,   *)
(* final byte and markers, and the operation code of the two size reports. *)
(***************************************************************************)
Signature(e, t) ==
  /\ e.kind = "CursorPosition" =>
        t.frame = "csi" /\ t.final = "R" /\ t.markers = "" /\ t.fields[1].value # 1
  /\ e.kind = "TerminalStatus" => t.frame = "csi" /\ t.final = "n"
  /\ e.kind = "PrimaryDeviceAttributes" => t.frame = "csi" /\ t.final = "c"
  /\ e.kind = "KittyKeyboardFlags" => t.frame = "csi" /\ t.final = "u" /\ t.markers = "?"
  /\ e.kind = "DecPrivateMode" => t.frame = "csi" /\ t.final = "y"
  /\ e.kind = "XtVersion" => t.frame = "dcs"
  /\ e.kind = "OscColor" => t.frame = "osc"
  /\ e.kind = "KittyGraphics" => t.frame = "apc"
  /\ e.kind = "TextAreaPixels" => t.frame = "csi" /\ t.final = "t" /\ t.fields[1].value = 4
  /\ e.kind = "CellSize" => t.frame = "csi" /\ t.final = "t" /\ t.fields[1].value = 6

Kinds == Fieldless \cup {"DecPrivateMode", "OscColor", "KittyGraphics"}

LEMMA MatchHasSignature ==
  ASSUME NEW t, NEW e, match_event(e, t)
  PROVE  Signature(e, t) /\ e.kind \in Kinds
<1>1. CASE e.kind = "CursorPosition"
  BY <1>1 DEF match_event, match_cursor_position, cursor_position_report, shape,
              Signature, Kinds, Fieldless
<1>2. CASE e.kind = "TerminalStatus"
  BY <1>2 DEF match_event, match_terminal_status, shape, Signature, Kinds, Fieldless
<1>3. CASE e.kind = "PrimaryDeviceAttributes"
  BY <1>3 DEF match_event, match_primary_device_attributes, shape, Signature, Kinds, Fieldless
<1>4. CASE e.kind = "KittyKeyboardFlags"
  BY <1>4 DEF match_event, match_keyboard_flags, shape, Signature, Kinds, Fieldless
<1>5. CASE e.kind = "DecPrivateMode"
  BY <1>5 DEF match_event, match_private_mode, shape, Signature, Kinds, Fieldless
<1>6. CASE e.kind = "XtVersion"
  BY <1>6 DEF match_event, match_xtversion, Signature, Kinds, Fieldless
<1>7. CASE e.kind = "OscColor"
  BY <1>7 DEF match_event, match_osc_color, Signature, Kinds, Fieldless
<1>8. CASE e.kind = "KittyGraphics"
  BY <1>8 DEF match_event, match_kitty_graphics, Signature, Kinds, Fieldless
<1>9. CASE e.kind = "TextAreaPixels"
  <2>1. t.frame = "csi" /\ t.final = "t" /\ t.fields[1] = Plain(4)
    BY <1>9 DEF match_event, parse_xtwinops_report, shape
  <2>2. t.fields[1].value = 4
    BY <2>1 DEF Plain
  <2> QED
    BY <1>9, <2>1, <2>2 DEF Signature, Kinds, Fieldless
<1>10. CASE e.kind = "CellSize"
  <2>1. t.frame = "csi" /\ t.final = "t" /\ t.fields[1] = Plain(6)
    BY <1>10 DEF match_event, parse_xtwinops_report, shape
  <2>2. t.fields[1].value = 6
    BY <2>1 DEF Plain
  <2> QED
    BY <1>10, <2>1, <2>2 DEF Signature, Kinds, Fieldless
<1>11. e.kind \in Kinds
  BY DEF match_event, Kinds, Fieldless
<1> QED
  BY <1>1, <1>2, <1>3, <1>4, <1>5, <1>6, <1>7, <1>8, <1>9, <1>10, <1>11 DEF Kinds, Fieldless

(***************************************************************************)
(* distinguishes (correlate.rs) is sound: no event completes two different *)
(* expectations.  This is the assumption MatchersDisjoint that the         *)
(* correlator is built on.                                                 *)
(***************************************************************************)
THEOREM MatchersAreDisjoint ==
  ASSUME NEW t, NEW a \in Expectation, NEW b \in Expectation,
         match_event(a, t), match_event(b, t)
  PROVE  a = b
<1>0. Signature(a, t) /\ Signature(b, t) /\ a.kind \in Kinds /\ b.kind \in Kinds
  BY MatchHasSignature
<1>1. a.kind = b.kind
  <2>1. CASE t.frame # "csi"
    BY <1>0, <2>1 DEF Signature, Kinds, Fieldless
  <2>2. CASE t.frame = "csi" /\ t.final # "t"
    BY <1>0, <2>2 DEF Signature, Kinds, Fieldless
  <2>3. CASE t.frame = "csi" /\ t.final = "t"
    <3>1. /\ a.kind \in {"TextAreaPixels", "CellSize"}
          /\ b.kind \in {"TextAreaPixels", "CellSize"}
      BY <1>0, <2>3 DEF Signature, Kinds, Fieldless
    <3>2. CASE a.kind = "TextAreaPixels" /\ b.kind = "CellSize"
      <4>1. t.fields[1].value = 4 /\ t.fields[1].value = 6
        BY <1>0, <3>2 DEF Signature
      <4> QED
        BY <4>1
    <3>3. CASE a.kind = "CellSize" /\ b.kind = "TextAreaPixels"
      <4>1. t.fields[1].value = 4 /\ t.fields[1].value = 6
        BY <1>0, <3>3 DEF Signature
      <4> QED
        BY <4>1
    <3> QED
      BY <3>1, <3>2, <3>3
  <2> QED
    BY <2>1, <2>2, <2>3
<1>2. a.arg = b.arg
  <2>1. CASE a.kind \in Fieldless
    BY <1>1, <2>1, ExpectationRecord
  <2>2. CASE a.kind = "DecPrivateMode"
    BY <1>1, <2>2 DEF match_event, match_private_mode
  <2>3. CASE a.kind = "OscColor"
    BY <1>1, <2>3 DEF match_event, match_osc_color, Plain
  <2>4. CASE a.kind = "KittyGraphics"
    BY <1>1, <2>4 DEF match_event, match_kitty_graphics
  <2> QED
    BY <2>1, <2>2, <2>3, <2>4, MatchHasSignature DEF Kinds
<1> QED
  BY <1>1, <1>2, ExpectationRecord

(***************************************************************************)
(* No typed decoder takes a reply away from the correlator.                *)
(***************************************************************************)
THEOREM RepliesStaySyntax ==
  ASSUME NEW t, NEW e \in Expectation, match_event(e, t)
  PROVE  map_token(t) = "Syntax"
<1>0. Signature(e, t) /\ e.kind \in Kinds
  BY MatchHasSignature
<1>1. ~ win32_key(t)
  BY <1>0 DEF win32_key, bare, Signature, Kinds, Fieldless
<1>2. ~ kitty_key(t)
  BY <1>0 DEF kitty_key, bare, Signature, Kinds, Fieldless
<1>3. ~ sgr_mouse(t)
  BY <1>0 DEF sgr_mouse, Signature, Kinds, Fieldless
<1>4. ~ focus_report(t)
  BY <1>0 DEF focus_report, bare, Signature, Kinds, Fieldless
<1>5. ~ resize_report(t)
  <2>1. SUFFICES ASSUME resize_report(t) PROVE FALSE
    OBVIOUS
  <2>2. t.frame = "csi" /\ t.final = "t" /\ t.fields[1].value = 48
    BY <2>1 DEF resize_report, bare
  <2>3. e.kind \in {"TextAreaPixels", "CellSize"}
    BY <1>0, <2>2 DEF Signature, Kinds, Fieldless
  <2>4. t.fields[1].value = 4 \/ t.fields[1].value = 6
    BY <1>0, <2>3 DEF Signature
  <2> QED
    BY <2>2, <2>4
<1> QED
  BY <1>1, <1>2, <1>3, <1>4, <1>5 DEF map_token

(***************************************************************************)
(* A modified F3 never completes a query (the CPR/F3 rule).                *)
(***************************************************************************)
THEOREM ModifiedF3IsNoReply ==
  ASSUME NEW t, NEW e \in Expectation, modified_f3(t)
  PROVE  ~ match_event(e, t)
<1>1. SUFFICES ASSUME match_event(e, t) PROVE FALSE
  OBVIOUS
<1>2. Signature(e, t) /\ e.kind \in Kinds
  BY <1>1, MatchHasSignature
<1>3. t.frame = "csi" /\ t.final = "R" /\ t.fields[1].value = 1
  BY DEF modified_f3, shape
<1> QED
  BY <1>2, <1>3 DEF Signature, Kinds, Fieldless

-----------------------------------------------------------------------------
(***************************************************************************)
(* What has been said of the token is what the operators say of it.        *)
(***************************************************************************)
Faithful ==
  /\ variant \in {"undecoded", map_token(token)}
  /\ claimed \subseteq {e \in MCExpectation : match_event(e, token)}

LEMMA FaithfulAlways == TokenSpec => []Faithful
<1>1. TokenInit => Faithful
  BY DEF TokenInit, Faithful
<1>2. Faithful /\ [TokenNext]_token_vars => Faithful'
  BY DEF Faithful, TokenNext, Decode, Feed, token_vars
<1> QED
  BY <1>1, <1>2, PTL DEF TokenSpec

LEMMA AskedAreExpectations == MCExpectation \subseteq Expectation
<1>1. ModeNumber \subseteq Nat
  BY DEF ModeNumber
<1>2. ASSUME NEW e \in [kind : {"DecPrivateMode", "KittyGraphics"}, arg : Discriminators]
      PROVE  \/ e \in [kind : {"DecPrivateMode"}, arg : ModeNumber]
             \/ e \in [kind : {"KittyGraphics"}, arg : Nat]
  <2>1. e = [kind |-> e.kind, arg |-> e.arg]
    BY <1>2, KindArgRecord
  <2>2. e.arg \in ModeNumber /\ e.arg \in Nat /\ e.kind \in {"DecPrivateMode", "KittyGraphics"}
    BY <1>1, DiscriminatorsAssumption
  <2> QED
    BY <2>1, <2>2
<1> QED
  BY <1>2 DEF MCExpectation, Expectation

(***************************************************************************)
(* Rule 1 of correlate.rs: an event completes at most one expectation.     *)
(***************************************************************************)
THEOREM OneExpectationClaims == TokenSpec => []OneClaimant
<1>1. Faithful => OneClaimant
  <2> SUFFICES ASSUME Faithful PROVE Cardinality(claimed) <= 1
    BY DEF OneClaimant
  <2>1. \A a, b \in claimed : a = b
    BY MatchersAreDisjoint, AskedAreExpectations DEF Faithful
  <2>2. CASE claimed = {}
    BY <2>2, FS_EmptySet
  <2>3. CASE claimed # {}
    <3>1. PICK e : e \in claimed
      BY <2>3
    <3>2. claimed = {e}
      BY <2>1, <3>1
    <3>3. Cardinality({e}) = 1
      BY FS_Singleton
    <3> QED
      BY <3>2, <3>3
  <2> QED
    BY <2>2, <2>3
<1> QED
  BY <1>1, FaithfulAlways, PTL

(***************************************************************************)
(* The typed decoders are tried before the correlator (event.rs:417), and  *)
(* none of them takes a reply.                                             *)
(***************************************************************************)
THEOREM DecodersLeaveReplies == TokenSpec => []RepliesReachCorrelator
<1>1. Faithful => RepliesReachCorrelator
  BY RepliesStaySyntax, AskedAreExpectations DEF Faithful, RepliesReachCorrelator
<1> QED
  BY <1>1, FaithfulAlways, PTL

-----------------------------------------------------------------------------
LEMMA MaxValues == U16_MAX \in Nat /\ U8_MAX \in Nat /\ 31 <= U8_MAX
  BY DEF U16_MAX, U8_MAX

(***************************************************************************)
(* A field that is written plainly and reads as a number is that number.   *)
(***************************************************************************)
LEMMA PlainField ==
  ASSUME NEW f \in Field, f.plain, parse_u16(f)
  PROVE  f = Plain(f.value) /\ f.value \in 0 .. U16_MAX
<1>1. f.plain = TRUE
  BY DEF Field
<1>2. f = [value |-> f.value, plain |-> f.plain]
  BY DEF Field
<1> QED
  BY <1>1, <1>2 DEF Plain, parse_u16

LEMMA ReportFieldsArePlain ==
  ASSUME NEW t, t.fields \in Seq(Field), NEW final, NEW markers, NEW intermediates,
         report(t, final, markers, intermediates)
  PROVE  /\ shape(t, final, markers, intermediates)
         /\ \A i \in 1 .. Len(t.fields) :
              t.fields[i] = Plain(t.fields[i].value) /\ t.fields[i].value \in 0 .. U16_MAX
<1>1. shape(t, final, markers, intermediates)
  BY Zenon DEF report
<1>2. \A i \in 1 .. Len(t.fields) : t.fields[i].plain /\ parse_u16(t.fields[i])
  BY Zenon DEF report
<1>3. \A i \in 1 .. Len(t.fields) : t.fields[i] \in Field
  BY ElementOfSeq, Zenon
<1> QED
  BY <1>1, <1>2, <1>3, PlainField, Zenon

\* The fields of an XTWINOPS report after parsing.
SizeFields(t, op) ==
  /\ t.fields[1] = Plain(op)
  /\ t.fields[2].value \in 0 .. U16_MAX /\ t.fields[3].value \in 0 .. U16_MAX

LEMMA SizeReportFields ==
  ASSUME NEW t, NEW op, Len(t.fields) = 3, t.fields[1].value = op,
         \A i \in 1 .. Len(t.fields) :
            t.fields[i] = Plain(t.fields[i].value) /\ t.fields[i].value \in 0 .. U16_MAX
  PROVE  SizeFields(t, op)
<1>1. 1 \in 1 .. 3 /\ 2 \in 1 .. 3 /\ 3 \in 1 .. 3
  OBVIOUS
<1> QED
  BY <1>1, Zenon DEF SizeFields

(***************************************************************************)
(* What a terminal sends in answer to a query is accepted by the matcher   *)
(* of that query (the match_ functions of correlate.rs).                   *)
(***************************************************************************)
THEOREM AnswersMatch ==
  ASSUME NEW t, NEW e, t.fields \in Seq(Field), answers(t, e)
  PROVE  match_event(e, t)
<1>1. CASE e.kind = "CursorPosition"
  <2>1. report(t, "R", "", "") /\ Len(t.fields) = 2
    BY <1>1, Zenon DEF answers
  <2>2. t.fields[1].value > 1 /\ t.fields[2].value > 0
    BY <1>1, Zenon DEF answers
  <2>3. shape(t, "R", "", "")
    BY <2>1, ReportFieldsArePlain, Zenon
  <2>4. \A i \in 1 .. Len(t.fields) : t.fields[i].value \in 0 .. U16_MAX
    BY <2>1, ReportFieldsArePlain, Zenon
  <2>5. t.fields[1].value \in 1 .. U16_MAX /\ t.fields[2].value \in 1 .. U16_MAX /\ t.fields[1].value # 1
    <3> DEFINE r == t.fields[1].value
               c == t.fields[2].value
               n == Len(t.fields)
    <3>1. n = 2 /\ (1 \in 1 .. n => r \in 0 .. U16_MAX) /\ (2 \in 1 .. n => c \in 0 .. U16_MAX)
      BY <2>1, <2>4, Zenon
    <3>2. r > 1 /\ c > 0
      BY <2>2
    <3> HIDE DEF r, c, n
    <3>3. r \in 1 .. U16_MAX /\ c \in 1 .. U16_MAX /\ r # 1
      BY <3>1, <3>2, MaxValues
    <3> QED
      BY <3>3 DEF r, c
  <2> QED
    BY <1>1, <2>1, <2>3, <2>5, Zenon
    DEF match_event, match_cursor_position, cursor_position_report, parse_one_based_u16
<1>2. CASE e.kind = "TerminalStatus"
  <2>1. report(t, "n", "", "") /\ Len(t.fields) = 1 /\ t.fields[1].value \in {0, 3}
    BY <1>2, Zenon DEF answers
  <2>2. shape(t, "n", "", "") /\ \A i \in 1 .. Len(t.fields) : t.fields[i] = Plain(t.fields[i].value)
    BY <2>1, ReportFieldsArePlain, Zenon
  <2>3. t.fields = <<t.fields[1]>> /\ 1 \in 1 .. Len(t.fields)
    <3> DEFINE f == t.fields
    <3>1. f \in Seq(Field) /\ Len(f) = 1
      BY <2>1
    <3> HIDE DEF f
    <3>2. f = <<f[1]>> /\ 1 \in 1 .. Len(f)
      BY <3>1
    <3> QED
      BY <3>2 DEF f
  <2>4. t.fields \in {<<Plain(0)>>, <<Plain(3)>>}
    BY <2>1, <2>2, <2>3, Zenon
  <2> QED
    BY <1>2, <2>2, <2>4, Zenon DEF match_event, match_terminal_status
<1>3. CASE e.kind = "PrimaryDeviceAttributes"
  <2>1. report(t, "c", "?", "")
    BY <1>3, Zenon DEF answers
  <2>2. shape(t, "c", "?", "")
    BY <2>1, ReportFieldsArePlain, Zenon
  <2> QED
    BY <1>3, <2>2, Zenon DEF match_event, match_primary_device_attributes
<1>4. CASE e.kind = "KittyKeyboardFlags"
  <2>1. report(t, "u", "?", "") /\ Len(t.fields) = 1 /\ t.fields[1].value <= 31
    BY <1>4, Zenon DEF answers
  <2>2. shape(t, "u", "?", "") /\ \A i \in 1 .. Len(t.fields) : t.fields[i].value \in 0 .. U16_MAX
    BY <2>1, ReportFieldsArePlain, Zenon
  <2>3. t.fields[1].value \in 0 .. U8_MAX
    <3> DEFINE r == t.fields[1].value
               n == Len(t.fields)
    <3>1. n = 1 /\ (1 \in 1 .. n => r \in 0 .. U16_MAX) /\ r <= 31
      BY <2>1, <2>2, Zenon
    <3> HIDE DEF r, n
    <3>2. r \in 0 .. U8_MAX
      BY <3>1, MaxValues
    <3> QED
      BY <3>2 DEF r
  <2> QED
    BY <1>4, <2>1, <2>2, <2>3, Zenon DEF match_event, match_keyboard_flags
<1>5. CASE e.kind = "DecPrivateMode"
  <2>1. /\ report(t, "y", "?", "$") /\ Len(t.fields) = 2
        /\ t.fields[1].value = e.arg /\ t.fields[2].value <= 4
    BY <1>5, Zenon DEF answers
  <2>2. shape(t, "y", "?", "$") /\ \A i \in 1 .. Len(t.fields) : t.fields[i].value \in 0 .. U16_MAX
    BY <2>1, ReportFieldsArePlain, Zenon
  <2>3. t.fields[1].value \in 0 .. U16_MAX /\ t.fields[2].value \in 0 .. 4
    <3> DEFINE r == t.fields[1].value
               c == t.fields[2].value
               n == Len(t.fields)
    <3>1. /\ n = 2 /\ c <= 4
          /\ (1 \in 1 .. n => r \in 0 .. U16_MAX) /\ (2 \in 1 .. n => c \in 0 .. U16_MAX)
      BY <2>1, <2>2, Zenon
    <3> HIDE DEF r, c, n
    <3>2. r \in 0 .. U16_MAX /\ c \in 0 .. 4
      BY <3>1, MaxValues
    <3> QED
      BY <3>2 DEF r, c
  <2> QED
    BY <1>5, <2>1, <2>2, <2>3, Zenon DEF match_event, match_private_mode, parse_u16
<1>6. CASE e.kind = "TextAreaPixels"
  <2>1. report(t, "t", "", "") /\ Len(t.fields) = 3 /\ t.fields[1].value = 4
    BY <1>6, Zenon DEF answers
  <2>2. shape(t, "t", "", "") /\ SizeFields(t, 4)
    BY <2>1, ReportFieldsArePlain, SizeReportFields, Zenon
  <2> QED
    BY <1>6, <2>1, <2>2, Zenon DEF match_event, parse_xtwinops_report, parse_u16, SizeFields
<1>7. CASE e.kind = "CellSize"
  <2>1. report(t, "t", "", "") /\ Len(t.fields) = 3 /\ t.fields[1].value = 6
    BY <1>7, Zenon DEF answers
  <2>2. shape(t, "t", "", "") /\ SizeFields(t, 6)
    BY <2>1, ReportFieldsArePlain, SizeReportFields, Zenon
  <2> QED
    BY <1>7, <2>1, <2>2, Zenon DEF match_event, parse_xtwinops_report, parse_u16, SizeFields
<1> QED
  BY <1>1, <1>2, <1>3, <1>4, <1>5, <1>6, <1>7, Zenon DEF answers

(***************************************************************************)
(* Whatever token the machine holds, each expectation it answers takes it. *)
(***************************************************************************)
THEOREM AnswersAccepted ==
  ASSUME token.fields \in Seq(Field)
  PROVE  AnswersAreAccepted
  BY AnswersMatch, Zenon DEF AnswersAreAccepted

-----------------------------------------------------------------------------
(***************************************************************************)
(* The bundle: what its expectations are, and that each fills a field of   *)
(* its own.                                                                *)
(***************************************************************************)
LEMMA MembersOfBoth ==
  ASSUME NEW S, NEW s \in Seq(S), NEW t \in Seq(S)
  PROVE  /\ ToSet(s \o t) = ToSet(s) \cup ToSet(t)
         /\ s \o t \in Seq(S)
<1> DEFINE u == s \o t
<1>1. /\ DOMAIN s = 1 .. Len(s) /\ DOMAIN t = 1 .. Len(t) /\ Len(s) \in Nat /\ Len(t) \in Nat
      /\ DOMAIN u = 1 .. (Len(s) + Len(t))
      /\ \A i \in 1 .. (Len(s) + Len(t)) : u[i] = IF i <= Len(s) THEN s[i] ELSE t[i - Len(s)]
  OBVIOUS
<1> HIDE DEF u
<1>2. ASSUME NEW i \in DOMAIN u PROVE u[i] \in ToSet(s) \cup ToSet(t)
  <2>1. CASE i <= Len(s)
    BY <1>1, <2>1 DEF ToSet
  <2>2. CASE ~ (i <= Len(s))
    <3>1. u[i] = t[i - Len(s)] /\ i - Len(s) \in DOMAIN t
      BY <1>1, <2>2
    <3> QED
      BY <3>1 DEF ToSet
  <2> QED
    BY <2>1, <2>2
<1>3. ASSUME NEW i \in DOMAIN s PROVE s[i] \in ToSet(u)
  <2>1. i \in DOMAIN u /\ u[i] = s[i]
    BY <1>1
  <2> QED
    BY <2>1 DEF ToSet
<1>4. ASSUME NEW i \in DOMAIN t PROVE t[i] \in ToSet(u)
  <2>1. i + Len(s) \in DOMAIN u /\ u[i + Len(s)] = t[i]
    BY <1>1
  <2> QED
    BY <2>1 DEF ToSet
<1>5. ToSet(u) = ToSet(s) \cup ToSet(t)
  BY <1>2, <1>3, <1>4 DEF ToSet
<1> QED
  BY <1>5 DEF u

LEMMA MembersOfTwelve ==
  ASSUME NEW a1, NEW a2, NEW a3, NEW a4, NEW a5, NEW a6, NEW a7,
         NEW b1, NEW b2, NEW b3, NEW b4, NEW c
  PROVE  ToSet(<<a1, a2, a3, a4, a5, a6, a7>> \o <<b1, b2, b3, b4>> \o <<c>>)
           = {a1, a2, a3, a4, a5, a6, a7, b1, b2, b3, b4, c}
<1> DEFINE S == {a1, a2, a3, a4, a5, a6, a7, b1, b2, b3, b4, c}
           s == <<a1, a2, a3, a4, a5, a6, a7>>
           t == <<b1, b2, b3, b4>>
           u == <<c>>
<1>1. /\ a1 \in S /\ a2 \in S /\ a3 \in S /\ a4 \in S /\ a5 \in S /\ a6 \in S /\ a7 \in S
      /\ b1 \in S /\ b2 \in S /\ b3 \in S /\ b4 \in S /\ c \in S
  OBVIOUS
<1>2. s \in Seq(S) /\ t \in Seq(S) /\ u \in Seq(S)
  <2> HIDE DEF S
  <2> QED  BY <1>1
<1>3. ToSet(s) = {a1, a2, a3, a4, a5, a6, a7}
  <2>1. 1 .. 7 = {1, 2, 3, 4, 5, 6, 7}
    OBVIOUS
  <2>2. /\ s[1] = a1 /\ s[2] = a2 /\ s[3] = a3 /\ s[4] = a4 /\ s[5] = a5 /\ s[6] = a6 /\ s[7] = a7
        /\ DOMAIN s = 1 .. 7
    OBVIOUS
  <2> HIDE DEF s
  <2>3. {s[i] : i \in 1 .. 7} = {s[1], s[2], s[3], s[4], s[5], s[6], s[7]}
    BY <2>1
  <2> QED  BY <2>2, <2>3, Zenon DEF ToSet
<1>4. ToSet(t) = {b1, b2, b3, b4} /\ ToSet(u) = {c}
  BY DEF ToSet
<1>5. ToSet(s \o t) = ToSet(s) \cup ToSet(t) /\ s \o t \in Seq(S)
  <2> HIDE DEF s, t, S
  <2> QED  BY <1>2, MembersOfBoth
<1>6. ToSet((s \o t) \o u) = ToSet(s \o t) \cup ToSet(u)
  <2> DEFINE v == s \o t
  <2>1. v \in Seq(S)
    BY <1>5
  <2> HIDE DEF s, t, u, v, S
  <2>2. ToSet(v \o u) = ToSet(v) \cup ToSet(u)
    BY <1>2, <2>1, MembersOfBoth
  <2> QED  BY <2>2 DEF v
<1> HIDE DEF s, t, u
<1>7. ToSet((s \o t) \o u) = {a1, a2, a3, a4, a5, a6, a7} \cup {b1, b2, b3, b4} \cup {c}
  BY <1>3, <1>4, <1>5, <1>6, Zenon
<1> QED
  BY <1>7 DEF s, t, u

LEMMA ModeRequests ==
  ToSet(PROBE_MODES) =
    { [asks |-> "2026", field |-> "synchronized_output"],
      [asks |-> "2027", field |-> "grapheme_clustering"],
      [asks |-> "2048", field |-> "in_band_resize"],
      [asks |-> "2004", field |-> "bracketed_paste"] }
  BY DEF PROBE_MODES, ToSet

LEMMA ModesAre == Mode = {"2026", "2027", "2048", "2004"}
  BY ModeRequests DEF Mode

LEMMA RequestsAre ==
  ToSet(probe_bundle_commands) =
    { [asks |-> "XtVersion",          field |-> "identity"],
      [asks |-> "KittyKeyboardFlags", field |-> "kitty_keyboard"],
      [asks |-> "KittyGraphics",      field |-> "kitty_graphics"],
      [asks |-> "TextAreaPixels",     field |-> "text_area_pixels"],
      [asks |-> "CellSize",           field |-> "cell_size"],
      [asks |-> "Foreground",         field |-> "foreground_color"],
      [asks |-> "Background",         field |-> "background_color"],
      [asks |-> "2026",               field |-> "synchronized_output"],
      [asks |-> "2027",               field |-> "grapheme_clustering"],
      [asks |-> "2048",               field |-> "in_band_resize"],
      [asks |-> "2004",               field |-> "bracketed_paste"],
      [asks |-> "DA1",                field |-> "primary_device_attributes"] }
<1> DEFINE a1 == [asks |-> "XtVersion",          field |-> "identity"]
           a2 == [asks |-> "KittyKeyboardFlags", field |-> "kitty_keyboard"]
           a3 == [asks |-> "KittyGraphics",      field |-> "kitty_graphics"]
           a4 == [asks |-> "TextAreaPixels",     field |-> "text_area_pixels"]
           a5 == [asks |-> "CellSize",           field |-> "cell_size"]
           a6 == [asks |-> "Foreground",         field |-> "foreground_color"]
           a7 == [asks |-> "Background",         field |-> "background_color"]
           b1 == [asks |-> "2026",               field |-> "synchronized_output"]
           b2 == [asks |-> "2027",               field |-> "grapheme_clustering"]
           b3 == [asks |-> "2048",               field |-> "in_band_resize"]
           b4 == [asks |-> "2004",               field |-> "bracketed_paste"]
           c  == [asks |-> "DA1",                field |-> "primary_device_attributes"]
<1>1. probe_bundle_commands = <<a1, a2, a3, a4, a5, a6, a7>> \o <<b1, b2, b3, b4>> \o <<c>>
  BY Zenon DEF probe_bundle_commands, PROBE_MODES
<1> HIDE DEF a1, a2, a3, a4, a5, a6, a7, b1, b2, b3, b4, c
<1>2. ToSet(probe_bundle_commands) = {a1, a2, a3, a4, a5, a6, a7, b1, b2, b3, b4, c}
  <2>1. ToSet(<<a1, a2, a3, a4, a5, a6, a7>> \o <<b1, b2, b3, b4>> \o <<c>>)
          = {a1, a2, a3, a4, a5, a6, a7, b1, b2, b3, b4, c}
    BY ONLY MembersOfTwelve
  <2> QED
    BY <1>1, <2>1, Zenon
<1> QED
  BY <1>2, Zenon DEF a1, a2, a3, a4, a5, a6, a7, b1, b2, b3, b4, c

LEMMA IdsAre ==
  ids = { "XtVersion", "KittyKeyboardFlags", "KittyGraphics", "TextAreaPixels", "CellSize",
          "Foreground", "Background", "2026", "2027", "2048", "2004", "DA1" }
  BY RequestsAre DEF ids

LEMMA FieldsAre ==
  /\ field_of("KittyKeyboardFlags") = "kitty_keyboard"
  /\ field_of("KittyGraphics") = "kitty_graphics"
  /\ field_of("TextAreaPixels") = "text_area_pixels"
  /\ field_of("CellSize") = "cell_size"
  /\ field_of("Foreground") = "foreground_color"
  /\ field_of("Background") = "background_color"
  /\ field_of("2026") = "synchronized_output"
  /\ field_of("2027") = "grapheme_clustering"
  /\ field_of("2048") = "in_band_resize"
  /\ field_of("2004") = "bracketed_paste"
  /\ field_of("XtVersion") = "identity"
  /\ field_of("DA1") = "primary_device_attributes"
<1> DEFINE S == ToSet(probe_bundle_commands)
<1>1. ASSUME NEW a, NEW f, [asks |-> a, field |-> f] \in S,
             \A r \in S : r.asks = a => r = [asks |-> a, field |-> f]
      PROVE  field_of(a) = f
  <2> DEFINE r == [asks |-> a, field |-> f]
  <2>1. r \in S /\ r.asks = a /\ r.field = f /\ \A q \in S : q.asks = a => q = r
    BY <1>1
  <2> HIDE DEF S, r
  <2>2. (CHOOSE request \in S : request.asks = a) = r
    BY <2>1
  <2> QED
    BY <2>1, <2>2 DEF field_of, S
<1>2. field_of("KittyKeyboardFlags") = "kitty_keyboard"
  BY <1>1, RequestsAre
<1>3. field_of("KittyGraphics") = "kitty_graphics"
  BY <1>1, RequestsAre
<1>4. field_of("TextAreaPixels") = "text_area_pixels"
  BY <1>1, RequestsAre
<1>5. field_of("CellSize") = "cell_size"
  BY <1>1, RequestsAre
<1>6. field_of("Foreground") = "foreground_color"
  BY <1>1, RequestsAre
<1>7. field_of("Background") = "background_color"
  BY <1>1, RequestsAre
<1>8. field_of("2026") = "synchronized_output"
  BY <1>1, RequestsAre
<1>9. field_of("2027") = "grapheme_clustering"
  BY <1>1, RequestsAre
<1>10. field_of("2048") = "in_band_resize"
  BY <1>1, RequestsAre
<1>11. field_of("2004") = "bracketed_paste"
  BY <1>1, RequestsAre
<1>12. field_of("DA1") = "primary_device_attributes"
  BY <1>1, RequestsAre
<1>13. field_of("XtVersion") = "identity"
  BY <1>1, RequestsAre
<1> QED
  BY <1>2, <1>3, <1>4, <1>5, <1>6, <1>7, <1>8, <1>9, <1>10, <1>11, <1>12, <1>13

LEMMA FieldsApart ==
  /\ \A e, d \in ids \ {"XtVersion"} : field_of(e) = field_of(d) => e = d
  /\ \A e \in ids : field_of(e) \in Fields
  /\ \A e \in ids \ {"XtVersion"} :
       field_of(e) \notin {"identity", "hyperlinks", "truecolor", "iterm2_images", "probe_skip"}
  /\ {"identity", "hyperlinks", "truecolor", "iterm2_images", "probe_skip"} \subseteq Fields
<1>1. \A e, d \in ids \ {"XtVersion"} : field_of(e) = field_of(d) => e = d
  BY IdsAre, FieldsAre
<1>2. \A e \in ids : field_of(e) \in Fields
  BY DEF Fields
<1>3. \A e \in ids \ {"XtVersion"} :
       field_of(e) \notin {"identity", "hyperlinks", "truecolor", "iterm2_images", "probe_skip"}
  BY IdsAre, FieldsAre
<1>4. {"identity", "hyperlinks", "truecolor", "iterm2_images", "probe_skip"} \subseteq Fields
  <2>1. "identity" \in Fields
    BY <1>2, IdsAre, FieldsAre
  <2> QED
    BY <2>1 DEF Fields
<1> QED
  BY <1>1, <1>2, <1>3, <1>4

-----------------------------------------------------------------------------
(***************************************************************************)
(* The value a query's reply stands for.                                   *)
(***************************************************************************)
Told(t, e) ==
  CASE e \in Mode -> is_enabled(t[e])
    [] e \in {"TextAreaPixels", "CellSize"} -> pixel_size(t[e])
    [] OTHER -> t[e]

(***************************************************************************)
(* What has been found says of each query what its reply says, when it has *)
(* been heard, and nothing when it has not.                                *)
(***************************************************************************)
Honest(t, v, found, heard) ==
  /\ found = [f \in Fields |-> found[f]]
  /\ \A e \in ids \ {"XtVersion"} :
       found[field_of(e)] = IF e \in heard THEN probed(Told(t, e)) ELSE unknown
  /\ "XtVersion" \in heard =>
       found["iterm2_images"] = infer_iterm2_images(identity_from_env(t["XtVersion"], v))

LEMMA SeedIsHonest ==
  /\ Honest(terminal, env, env_seeded_capabilities(env), {})
  /\ env_seeded_capabilities(env)["probe_skip"] = NoValue
<1> DEFINE seed == env_seeded_capabilities(env)
<1>1. /\ seed = [f \in Fields |-> seed[f]]
      /\ seed["probe_skip"] = NoValue
      /\ \A f \in Fields :
           f \notin {"identity", "hyperlinks", "truecolor", "iterm2_images", "probe_skip"} => seed[f] = unknown
  BY FieldsApart DEF env_seeded_capabilities
<1> HIDE DEF seed
<1>2. Honest(terminal, env, seed, {})
  BY <1>1, FieldsApart DEF Honest
<1> QED
  BY <1>1, <1>2 DEF seed

LEMMA SkippingIsHonest ==
  ASSUME NEW skip
  PROVE  /\ Honest(terminal, env, skipped_capabilities(skip, env), {})
         /\ skipped_capabilities(skip, env)["probe_skip"] = skip
<1> DEFINE seed == env_seeded_capabilities(env)
           s == skipped_capabilities(skip, env)
<1>1. s = [seed EXCEPT !["probe_skip"] = skip]
  BY DEF skipped_capabilities
<1>2. Honest(terminal, env, seed, {})
  BY SeedIsHonest
<1> HIDE DEF seed, s
<1>3. /\ s = [f \in Fields |-> s[f]] /\ s["probe_skip"] = skip
      /\ \A f \in Fields \ {"probe_skip"} : s[f] = seed[f]
  BY <1>1, <1>2, FieldsApart DEF Honest
<1>4. Honest(terminal, env, s, {})
  BY <1>2, <1>3, FieldsApart DEF Honest
<1> QED
  BY <1>3, <1>4 DEF s

(***************************************************************************)
(* A reply is stored in its own field, and a name tells of images as well. *)
(***************************************************************************)
LEMMA StoringIsHonest ==
  ASSUME NEW found, NEW heard, NEW e \in ids, Honest(terminal, env, found, heard), e \notin heard
  PROVE  LET s == store_bundle_reply(env, found, e, terminal[e])
         IN Honest(terminal, env, s, heard \cup {e}) /\ s["probe_skip"] = found["probe_skip"]
<1> DEFINE s == store_bundle_reply(env, found, e, terminal[e])
<1>1. CASE e = "XtVersion"
  <2> DEFINE identity == identity_from_env(terminal[e], env)
             images == infer_iterm2_images(identity)
  <2>1. s = [found EXCEPT !["identity"] = identity, !["iterm2_images"] = images]
    BY <1>1 DEF store_bundle_reply
  <2> HIDE DEF s, identity, images
  <2>2. /\ s = [f \in Fields |-> s[f]] /\ s["iterm2_images"] = images
        /\ \A f \in Fields \ {"identity", "iterm2_images"} : s[f] = found[f]
    BY <2>1, FieldsApart DEF Honest
  <2>3. images = infer_iterm2_images(identity_from_env(terminal["XtVersion"], env))
    BY <1>1 DEF images, identity
  <2>4. s["probe_skip"] = found["probe_skip"]
    BY <2>2, FieldsApart
  <2>5. \A d \in ids \ {"XtVersion"} : s[field_of(d)] = found[field_of(d)]
    BY <2>2, FieldsApart
  <2>6. \A d \in ids \ {"XtVersion"} : d \in heard \cup {e} <=> d \in heard
    BY <1>1
  <2>7. Honest(terminal, env, s, heard \cup {e})
    BY <2>2, <2>3, <2>5, <2>6 DEF Honest
  <2> QED
    BY <2>4, <2>7 DEF s
<1>2. CASE e # "XtVersion"
  <2> DEFINE p == probed(Told(terminal, e))
  <2>1. s = [found EXCEPT ![field_of(e)] = p]
    BY <1>2, Zenon DEF store_bundle_reply, Told
  <2> HIDE DEF s, p
  <2>2. field_of(e) \in Fields /\ field_of(e) \notin {"iterm2_images", "probe_skip"}
    BY <1>2, FieldsApart
  <2>3. /\ s = [f \in Fields |-> s[f]] /\ s[field_of(e)] = p
        /\ \A f \in Fields \ {field_of(e)} : s[f] = found[f]
    BY <2>1, <2>2 DEF Honest
  <2>4. s["probe_skip"] = found["probe_skip"] /\ s["iterm2_images"] = found["iterm2_images"]
    BY <2>2, <2>3, FieldsApart
  <2>5. \A d \in ids \ {"XtVersion", e} : s[field_of(d)] = found[field_of(d)]
    BY <1>2, <2>3, FieldsApart
  <2>6. \A d \in ids \ {"XtVersion"} :
          s[field_of(d)] = IF d \in heard \cup {e} THEN probed(Told(terminal, d)) ELSE unknown
    <3> SUFFICES ASSUME NEW d \in ids \ {"XtVersion"}
                 PROVE  s[field_of(d)] = IF d \in heard \cup {e} THEN probed(Told(terminal, d)) ELSE unknown
      OBVIOUS
    <3>1. CASE d = e
      BY <2>3, <3>1 DEF p
    <3>2. CASE d # e
      BY <2>5, <3>2 DEF Honest
    <3> QED
      BY <3>1, <3>2
  <2>7. Honest(terminal, env, s, heard \cup {e})
    BY <1>2, <2>3, <2>4, <2>6 DEF Honest
  <2> QED
    BY <2>4, <2>7 DEF s
<1> QED
  BY <1>1, <1>2

-----------------------------------------------------------------------------
(***************************************************************************)
(* Counting up to N.                                                       *)
(***************************************************************************)
LEMMA LeastElement ==
  ASSUME NEW S \in SUBSET Nat, S # {}
  PROVE  \E n \in S : \A m \in S : n <= m
<1>1. PICK n \in S : \A m \in S : ~ (<<m, n>> \in OpToRel(<, Nat))
  BY NatLessThanWellFounded, WFMin
<1>2. \A m, k \in Nat : <<m, k>> \in OpToRel(<, Nat) <=> m < k
  BY DEF OpToRel
<1>3. \A m \in S : ~ (m < n)
  BY <1>1, <1>2
<1>4. \A m \in S : n <= m
  BY <1>3
<1> QED
  BY <1>4

LEMMA CountingUp ==
  ASSUME NEW N \in Nat, NEW P \in SUBSET (0 .. N),
         0 \in P, \A n \in 1 .. N : n - 1 \in P => n \in P
  PROVE  P = 0 .. N
<1> SUFFICES ASSUME P # 0 .. N PROVE FALSE
  OBVIOUS
<1> DEFINE S == (0 .. N) \ P
<1>1. S \in SUBSET Nat /\ S # {}
  <2>1. PICK x \in 0 .. N : x \notin P
    OBVIOUS
  <2>2. x \in S
    BY <2>1
  <2> QED  BY <2>2
<1>2. PICK n \in S : \A m \in S : n <= m
  <2> HIDE DEF S
  <2> QED  BY <1>1, LeastElement
<1>3. n \in 1 .. N /\ n \notin P
  BY <1>2
<1>4. n - 1 \notin P
  BY <1>3
<1>5. n - 1 \in S
  BY <1>3, <1>4
<1> QED
  BY <1>2, <1>3, <1>5

(***************************************************************************)
(* The loop over a batch has a run, and its result is where the run ends.  *)
(***************************************************************************)
LEMMA StoringRuns ==
  ASSUME NEW batch, Len(batch) \in Nat
  PROVE  \E f : /\ f[0] = [outstanding |-> outstanding, found |-> gathering]
                /\ \A n \in 1 .. Len(batch) : f[n] = fed(f[n - 1], batch[n])
                /\ stored(batch) = f[Len(batch)]
<1> DEFINE N == Len(batch)
           b == [outstanding |-> outstanding, found |-> gathering]
           E(f, m) == f = [n \in 0 .. m |-> IF n = 0 THEN b ELSE fed(f[n - 1], batch[n])]
           P == {m \in 0 .. N : \E f : E(f, m)}
<1> HIDE DEF b
<1>1. 0 \in P
  <2>1. E([n \in 0 .. 0 |-> b], 0)
    OBVIOUS
  <2> HIDE DEF E
  <2> QED  BY <2>1
<1>2. ASSUME NEW m \in 1 .. N, m - 1 \in P
      PROVE  m \in P
  <2>1. PICK f : E(f, m - 1)
    BY <1>2
  <2> DEFINE g == [n \in 0 .. m |-> IF n = m THEN fed(f[m - 1], batch[m]) ELSE f[n]]
  <2>2. E(g, m)
    <3>1. ASSUME NEW n \in 0 .. m
          PROVE  g[n] = IF n = 0 THEN b ELSE fed(g[n - 1], batch[n])
      BY <2>1
    <3> QED  BY <3>1
  <2> HIDE DEF E
  <2> QED  BY <2>2
<1>3. P = 0 .. N
  <2>1. P \in SUBSET (0 .. N)
    OBVIOUS
  <2> HIDE DEF P
  <2> QED  BY <1>1, <1>2, <2>1, CountingUp
<1>4. \E f : E(f, N)
  <2> HIDE DEF E
  <2> QED  BY <1>3
<1> DEFINE f == CHOOSE f : E(f, N)
<1>5. E(f, N)
  <2> HIDE DEF E
  <2> QED  BY <1>4
<1>6. stored(batch) = f[N]
  BY DEF stored, b
<1>7. f[0] = b /\ \A n \in 1 .. N : f[n] = fed(f[n - 1], batch[n])
  <2> HIDE DEF f
  <2> QED  BY <1>5
<1> QED
  BY <1>6, <1>7 DEF b

(***************************************************************************)
(* A batch fed to a probe: every expectation named in it has been heard.   *)
(***************************************************************************)
LEMMA BatchIsHonest ==
  ASSUME NEW batch, Len(batch) \in Nat, DOMAIN batch = 1 .. Len(batch),
         \A i \in 1 .. Len(batch) : batch[i].to \in ids,
         got \subseteq ids, outstanding = ids \ got, Honest(terminal, env, gathering, got)
  PROVE  LET heard == got \cup {reply.to : reply \in ToSet(batch)}
         IN /\ stored(batch).outstanding = ids \ heard
            /\ Honest(terminal, env, stored(batch).found, heard)
            /\ stored(batch).found["probe_skip"] = gathering["probe_skip"]
<1> DEFINE N == Len(batch)
           h(n) == got \cup {batch[i].to : i \in 1 .. n}
           skip == gathering["probe_skip"]
<1>1. PICK f : /\ f[0] = [outstanding |-> outstanding, found |-> gathering]
               /\ \A n \in 1 .. N : f[n] = fed(f[n - 1], batch[n])
               /\ stored(batch) = f[N]
  BY StoringRuns
<1> DEFINE Good(n) == /\ f[n].outstanding = ids \ h(n) /\ Honest(terminal, env, f[n].found, h(n))
                      /\ f[n].found["probe_skip"] = skip
           P == {n \in 0 .. N : Good(n)}
<1>2. 0 \in P
  <2>1. h(0) = got
    OBVIOUS
  <2>2. f[0].outstanding = ids \ h(0) /\ f[0].found = gathering
    BY <1>1, <2>1
  <2> HIDE DEF h
  <2>3. Good(0)
    BY <2>1, <2>2
  <2> QED
    BY <2>3
<1>3. ASSUME NEW n \in 1 .. N, n - 1 \in P
      PROVE  n \in P
  <2> DEFINE acc == f[n - 1]
             e == batch[n].to
  <2>1. e \in ids /\ Good(n - 1)
    BY <1>3
  <2>2. h(n) = h(n - 1) \cup {e}
    <3>1. 1 .. n = (1 .. (n - 1)) \cup {n}
      OBVIOUS
    <3> QED
      BY <3>1
  <2>3. f[n] = fed(acc, batch[n])
    BY <1>1
  <2> HIDE DEF h, skip
  <2>4. CASE e \notin acc.outstanding
    <3>1. f[n] = acc
      BY <2>3, <2>4 DEF fed
    <3>2. h(n) = h(n - 1)
      BY <2>1, <2>2, <2>4
    <3> QED
      BY <2>1, <3>1, <3>2
  <2>5. CASE e \in acc.outstanding
    <3> DEFINE s == store_bundle_reply(env, acc.found, e, terminal[e])
    <3>1. f[n].outstanding = acc.outstanding \ {e} /\ f[n].found = s
      BY <2>3, <2>5 DEF fed
    <3>2. e \notin h(n - 1) /\ Honest(terminal, env, acc.found, h(n - 1))
      BY <2>1, <2>5
    <3>3. Honest(terminal, env, s, h(n - 1) \cup {e}) /\ s["probe_skip"] = acc.found["probe_skip"]
      <4> HIDE DEF acc, e
      <4> QED  BY <2>1, <3>2, StoringIsHonest
    <3>4. Honest(terminal, env, f[n].found, h(n))
      <4> HIDE DEF s, e, acc
      <4> QED  BY <2>2, <3>1, <3>3, Zenon
    <3>5. f[n].found["probe_skip"] = skip
      <4> HIDE DEF s
      <4> QED  BY <2>1, <3>1, <3>3
    <3>6. f[n].outstanding = ids \ h(n)
      BY <2>1, <2>2, <3>1
    <3> HIDE DEF s
    <3> QED
      BY <3>4, <3>5, <3>6
  <2> QED
    BY <2>4, <2>5
<1>4. N \in P
  <2>1. P \in SUBSET (0 .. N)
    OBVIOUS
  <2> HIDE DEF P
  <2>2. P = 0 .. N
    BY <1>2, <1>3, <2>1, CountingUp
  <2> QED
    BY <2>2
<1>5. h(N) = got \cup {reply.to : reply \in ToSet(batch)}
  BY DEF ToSet
<1> HIDE DEF h
<1> QED
  BY <1>1, <1>4, <1>5

-----------------------------------------------------------------------------
(***************************************************************************)
(* While a probe is in flight, what has not been heard is outstanding, and *)
(* what has been gathered says what was heard.  A snapshot says what the   *)
(* replies it rests on say, and whether the terminal was spared.           *)
(***************************************************************************)
Listening ==
  probing =>
    /\ asked /\ got \subseteq DOMAIN terminal /\ outstanding = ids \ got
    /\ Honest(terminal, env, gathering, got) /\ gathering["probe_skip"] = NoValue

Believed ==
  snapshot # NoValue =>
    /\ basis \subseteq DOMAIN terminal /\ (basis # {} => asked)
    /\ Honest(terminal, env, snapshot, basis)
    /\ snapshot["probe_skip"] = probe_skip_from_env(env)

World ==
  /\ env \in Environments /\ terminal \in Terminals
  /\ \A reply \in wire : reply.to \in DOMAIN terminal
  /\ asked => probe_skip_from_env(env) = NoValue

(***************************************************************************)
(* An update that is under way belongs to a frame that is, or was cut      *)
(* short.                                                                  *)
(***************************************************************************)
Drawn ==
  updating =>
    /\ asked /\ mode_value("2026") = TRUE
    /\ cut_short \/ \E i \in DOMAIN frames : frames[i]

ProbeInv == TypeOK /\ World /\ Listening /\ Believed /\ Drawn

LEMMA ModeValues ==
  ASSUME World, NEW mode \in Mode, mode \in DOMAIN terminal
  PROVE  Told(terminal, mode) = mode_value(mode)
<1>1. terminal[mode] \in 0 .. 4
  BY TerminalsAssumption DEF World
<1>2. Told(terminal, mode) = is_enabled(terminal[mode])
  BY ModesAre DEF Told
<1> DEFINE x == terminal[mode]
<1>3. x = 0 \/ x \in {1, 3} \/ x \in {2, 4}
  BY <1>1
<1>4. CASE x = 0
  <2>1. x \notin {1, 3} /\ x \notin {2, 4}
    BY <1>4
  <2>2. is_enabled(x) = NoValue /\ mode_value(mode) = NoValue
    BY <1>4, <2>1, Zenon DEF is_enabled, mode_value
  <2> QED  BY <1>2, <2>2
<1>5. CASE x \in {1, 3}
  <2>1. x # 0 /\ x \notin {2, 4}
    BY <1>5
  <2>2. is_enabled(x) = TRUE /\ mode_value(mode) = TRUE
    BY <1>5, <2>1, Zenon DEF is_enabled, mode_value
  <2> QED  BY <1>2, <2>2
<1>6. CASE x \in {2, 4}
  <2>1. x # 0 /\ x \notin {1, 3}
    BY <1>6
  <2>2. is_enabled(x) = FALSE /\ mode_value(mode) = FALSE
    BY <1>6, <2>1, Zenon DEF is_enabled, mode_value
  <2> QED  BY <1>2, <2>2
<1> QED
  BY <1>3, <1>4, <1>5, <1>6

LEMMA SizeValues ==
  ASSUME World, NEW e \in {"TextAreaPixels", "CellSize"}, e \in DOMAIN terminal
  PROVE  Told(terminal, e) = IF terminal[e] = "zero" THEN NoValue ELSE "size"
<1>1. terminal[e] \in {"zero", "size"}
  BY TerminalsAssumption DEF World
<1>2. Told(terminal, e) = pixel_size(terminal[e])
  BY ModesAre DEF Told
<1> QED
  BY <1>1, <1>2 DEF pixel_size

LEMMA OtherValues ==
  ASSUME NEW e, e \notin Mode, e \notin {"TextAreaPixels", "CellSize"}
  PROVE  Told(terminal, e) = terminal[e]
  BY DEF Told

(***************************************************************************)
(* Frames are gated by what the terminal said.                             *)
(***************************************************************************)
LEMMA GateIsHonest ==
  ASSUME World, Believed, synchronized_output
  PROVE  asked /\ mode_value("2026") = TRUE
<1>1. snapshot # NoValue /\ snapshot["synchronized_output"].value = TRUE
  BY DEF synchronized_output
<1>2. snapshot["synchronized_output"]
        = IF "2026" \in basis THEN probed(Told(terminal, "2026")) ELSE unknown
  BY <1>1, IdsAre, FieldsAre DEF Believed, Honest
<1>3. "2026" \in basis
  <2> SUFFICES ASSUME "2026" \notin basis PROVE FALSE
    OBVIOUS
  <2>1. unknown.value = NoValue
    BY DEF unknown
  <2> QED
    BY <1>1, <1>2, <2>1, NoValueAssumption
<1>4. Told(terminal, "2026") = TRUE
  <2>1. probed(Told(terminal, "2026")).value = Told(terminal, "2026")
    BY DEF probed
  <2> QED
    BY <1>1, <1>2, <1>3, <2>1
<1>5. mode_value("2026") = Told(terminal, "2026")
  BY <1>1, <1>3, ModesAre, ModeValues DEF Believed
<1> QED
  BY <1>1, <1>3, <1>4, <1>5 DEF Believed

LEMMA BeliefsAreHonest ==
  ASSUME World, Believed
  PROVE  SnapshotIsHonest
<1> SUFFICES ASSUME snapshot # NoValue PROVE SnapshotIsHonest
  BY DEF SnapshotIsHonest
<1>1. \A e \in ids \ {"XtVersion"} : snapshot[field_of(e)] = believed(e, Told(terminal, e))
  BY DEF Believed, Honest, believed
<1>2. \A mode \in Mode :
        mode \in ids \ {"XtVersion"} /\ believed(mode, Told(terminal, mode)) = believed(mode, mode_value(mode))
  BY ModesAre, IdsAre, ModeValues DEF Believed, believed
<1>3. \A e \in {"TextAreaPixels", "CellSize"} :
        believed(e, Told(terminal, e))
          = believed(e, IF terminal[e] = "zero" THEN NoValue ELSE "size")
  BY SizeValues DEF Believed, believed
<1>4. /\ snapshot.synchronized_output = believed("2026", mode_value("2026"))
      /\ snapshot.grapheme_clustering = believed("2027", mode_value("2027"))
      /\ snapshot.in_band_resize = believed("2048", mode_value("2048"))
      /\ snapshot.bracketed_paste = believed("2004", mode_value("2004"))
  BY <1>1, <1>2, ModesAre, FieldsAre
<1>5. /\ snapshot.kitty_keyboard = believed("KittyKeyboardFlags", terminal["KittyKeyboardFlags"])
      /\ snapshot.kitty_graphics = believed("KittyGraphics", terminal["KittyGraphics"])
      /\ snapshot.foreground_color = believed("Foreground", terminal["Foreground"])
      /\ snapshot.background_color = believed("Background", terminal["Background"])
  BY <1>1, OtherValues, ModesAre, IdsAre, FieldsAre
<1>6. /\ snapshot.cell_size =
            believed("CellSize", IF terminal["CellSize"] = "zero" THEN NoValue ELSE "size")
      /\ snapshot.text_area_pixels =
            believed("TextAreaPixels", IF terminal["TextAreaPixels"] = "zero" THEN NoValue ELSE "size")
  BY <1>1, <1>3, IdsAre, FieldsAre
<1>7. /\ (snapshot.probe_skip # NoValue) <=> (probe_skip_from_env(env) # NoValue)
      /\ snapshot.probe_skip # NoValue => basis = {} /\ ~ asked
  BY DEF Believed, World
<1> QED
  BY <1>4, <1>5, <1>6, <1>7, Zenon DEF SnapshotIsHonest

-----------------------------------------------------------------------------
(***************************************************************************)
(* A terminal that has told a name that is known is known by it.           *)
(***************************************************************************)
LEMMA FirstKnownLeads ==
  ASSUME NEW p, p # NoValue, NEW S, NEW rest \in Seq(S)
  PROVE  first_known(<<p>> \o rest) = p
<1> DEFINE c == <<p>> \o rest
<1>1. Len(c) \in Nat /\ Len(c) >= 1 /\ c[1] = p
  OBVIOUS
<1> HIDE DEF c
<1> DEFINE found == {i \in 1 .. Len(c) : c[i] \in ToSet(c) \ {NoValue}}
<1>2. 1 \in found /\ \A j \in found : 1 <= j
  BY <1>1 DEF ToSet
<1>3. \A i \in found : (\A j \in found : i <= j) => i = 1
  BY <1>2
<1>4. (CHOOSE i \in found : \A j \in found : i <= j) = 1
  <2> HIDE DEF found
  <2> QED  BY <1>2, <1>3
<1>5. first_known(c) = IF found = {} THEN NoValue ELSE c[CHOOSE i \in found : \A j \in found : i <= j]
  BY DEF first_known, first_of
<1> HIDE DEF found
<1>6. first_known(c) = p
  BY <1>1, <1>2, <1>4, <1>5
<1> QED
  BY <1>6 DEF c

LEMMA NothingReportedIsUnknown == program_from_xtversion({}) = NoValue
  BY DEF program_from_xtversion, first_of

LEMMA ReportedNameLeads ==
  ASSUME NEW version, NEW v, program_from_xtversion(version) # NoValue
  PROVE  identity_from_env(version, v).program = program_from_xtversion(version)
<1> DEFINE p == program_from_xtversion(version)
           a == IF is_set(v, "TERM_PROGRAM")
                THEN <<program_from_term_program(v["TERM_PROGRAM"])>> ELSE <<>>
           b == IF is_set(v, "TERM") THEN <<program_from_term(v["TERM"])>> ELSE <<>>
           S == {program_from_term_program(v["TERM_PROGRAM"]), program_from_term(v["TERM"])}
<1>1. version # {}
  BY NothingReportedIsUnknown
<1>2. identity_from_env(version, v).program = first_known((<<p>> \o a) \o b)
  BY <1>1 DEF identity_from_env
<1>3. a \in Seq(S) /\ b \in Seq(S)
  <2>1. /\ program_from_term_program(v["TERM_PROGRAM"]) \in S
        /\ program_from_term(v["TERM"]) \in S
    OBVIOUS
  <2> HIDE DEF S
  <2> QED  BY <2>1
<1> HIDE DEF p, a, b, S
<1>4. (<<p>> \o a) \o b = <<p>> \o (a \o b) /\ a \o b \in Seq(S)
  <2>1. <<p>> \in Seq(S \cup {p}) /\ a \in Seq(S \cup {p}) /\ b \in Seq(S \cup {p})
    BY <1>3
  <2> QED
    BY <1>3, <2>1, ConcatAssociative, ConcatProperties
<1>5. p # NoValue
  BY DEF p
<1>6. first_known(<<p>> \o (a \o b)) = p
  BY <1>4, <1>5, FirstKnownLeads
<1> QED
  BY <1>2, <1>4, <1>6 DEF p

LEMMA NamesAreHonest ==
  ASSUME Believed
  PROVE  ImagesFollowTheName
<1> SUFFICES ASSUME snapshot # NoValue, "XtVersion" \in basis,
                    program_from_xtversion(terminal["XtVersion"]) # NoValue
             PROVE  snapshot.iterm2_images = inferred(TRUE)
                      <=> program_from_xtversion(terminal["XtVersion"]) \in {"iTerm2", "WezTerm"}
  BY DEF ImagesFollowTheName
<1> DEFINE identity == identity_from_env(terminal["XtVersion"], env)
<1>1. snapshot.iterm2_images = infer_iterm2_images(identity)
  BY DEF Believed, Honest
<1>2. identity.program = program_from_xtversion(terminal["XtVersion"])
  BY ReportedNameLeads
<1> HIDE DEF identity
<1>3. inferred(TRUE) # unknown
  <2>1. inferred(TRUE).evidence = "Inferred" /\ unknown.evidence = "Unknown"
    BY DEF inferred, unknown
  <2> QED
    BY <2>1
<1> QED
  BY <1>1, <1>2, <1>3 DEF infer_iterm2_images

-----------------------------------------------------------------------------
(***************************************************************************)
(* The steps.                                                              *)
(***************************************************************************)
LEMMA NoFramesAreFrames == <<>> \in Seq(BOOLEAN)
  OBVIOUS

LEMMA ProbeInvInitially == Init => ProbeInv
<1> SUFFICES ASSUME Init PROVE ProbeInv
  OBVIOUS
<1>1. TypeOK
  <2>1. 0 \in 0 .. MaxProbes /\ 0 \in 0 .. MaxFrames
    BY BoundsAssumption
  <2> QED
    BY <2>1, NoFramesAreFrames, Zenon DEF Init, TypeOK
<1> QED
  BY <1>1 DEF Init, ProbeInv, World, Listening, Believed, Drawn

LEMMA SkipKeeps == ASSUME ProbeInv, SkipProbe PROVE ProbeInv'
<1> DEFINE skip == probe_skip_from_env(env)
           s == skipped_capabilities(skip, env)
<1>1. Honest(terminal, env, s, {}) /\ s["probe_skip"] = skip
  BY SkippingIsHonest
<1>2. snapshot' = s /\ basis' = {} /\ probes' = probes + 1 /\ probes < MaxProbes
  BY DEF SkipProbe
<1> HIDE DEF skip, s
<1>3. TypeOK'
  BY <1>2, BoundsAssumption DEF ProbeInv, TypeOK, SkipProbe, drawing, world
<1>4. Believed'
  BY <1>1, <1>2 DEF Believed, SkipProbe, world, skip
<1>5. World' /\ Listening'
  BY DEF ProbeInv, World, Listening, SkipProbe, world
<1>6. Drawn'
  BY DEF ProbeInv, Drawn, SkipProbe, drawing, world, mode_value
<1> QED
  BY <1>3, <1>4, <1>5, <1>6 DEF ProbeInv

LEMMA StartKeeps == ASSUME ProbeInv, StartProbe PROVE ProbeInv'
<1>1. TypeOK'
  <2>1. \A e \in DOMAIN terminal : [to |-> e, probe |-> probes] \in [to : ids, probe : 0 .. MaxProbes]
    BY TerminalsAssumption DEF ProbeInv, TypeOK, World
  <2>2. wire' \subseteq [to : ids, probe : 0 .. MaxProbes]
    BY <2>1 DEF ProbeInv, TypeOK, StartProbe
  <2> QED
    BY <2>2, BoundsAssumption DEF ProbeInv, TypeOK, StartProbe, drawing, world, results
<1>2. World'
  <2>1. \A reply \in wire' : reply.to \in DOMAIN terminal
    BY DEF ProbeInv, World, StartProbe
  <2> QED
    BY <2>1 DEF ProbeInv, World, StartProbe, world
<1>3. Listening'
  BY SeedIsHonest DEF Listening, StartProbe, world
<1>4. Believed'
  BY DEF ProbeInv, Believed, StartProbe, world, results
<1>5. Drawn'
  BY DEF ProbeInv, Drawn, StartProbe, drawing, world, mode_value
<1> QED
  BY <1>1, <1>2, <1>3, <1>4, <1>5 DEF ProbeInv

\* What a probe that is over leaves behind.
LEMMA FinishKeeps ==
  ASSUME ProbeInv, probing, NEW found, NEW heard, Finish(found, heard), heard \subseteq ids,
         heard \subseteq DOMAIN terminal, Honest(terminal, env, found, heard),
         found["probe_skip"] = NoValue,
         UNCHANGED <<world, asked, probes, drawing>>, wire' \subseteq wire
  PROVE  ProbeInv'
<1>1. /\ snapshot' = found /\ basis' = heard /\ probing' = FALSE
      /\ outstanding' = {} /\ got' = {}
  BY DEF Finish, Forget
<1>2. asked /\ probe_skip_from_env(env) = NoValue
  BY DEF ProbeInv, Listening, World
<1>3. TypeOK'
  BY <1>1 DEF ProbeInv, TypeOK, drawing, world
<1>4. World' /\ Listening'
  BY <1>1 DEF ProbeInv, World, Listening, world
<1>5. Believed'
  BY <1>1, <1>2 DEF Believed, world
<1>6. Drawn'
  BY DEF ProbeInv, Drawn, drawing, world, mode_value
<1> QED
  BY <1>3, <1>4, <1>5, <1>6 DEF ProbeInv

LEMMA ReadKeeps == ASSUME ProbeInv, ReadBatch PROVE ProbeInv'
<1>0. PICK size \in 1 .. MaxBatch : \E batch \in [1 .. size -> wire] :
        LET result == stored(batch)
            heard == got \cup {reply.to : reply \in ToSet(batch)}
            fenced == fence \notin result.outstanding
        IN /\ IsInjective(batch)
           /\ wire' = wire \ ToSet(batch)
           /\ IF fenced
              THEN Finish(result.found, heard)
              ELSE /\ gathering' = result.found /\ got' = heard
                   /\ outstanding' = result.outstanding
                   /\ UNCHANGED <<probing, results>>
  BY Zenon DEF ReadBatch
<1>1. PICK batch \in [1 .. size -> wire] :
        LET result == stored(batch)
            heard == got \cup {reply.to : reply \in ToSet(batch)}
            fenced == fence \notin result.outstanding
        IN /\ IsInjective(batch)
           /\ wire' = wire \ ToSet(batch)
           /\ IF fenced
              THEN Finish(result.found, heard)
              ELSE /\ gathering' = result.found /\ got' = heard
                   /\ outstanding' = result.outstanding
                   /\ UNCHANGED <<probing, results>>
  BY <1>0, Zenon
<1> DEFINE result == stored(batch)
           heard == got \cup {reply.to : reply \in ToSet(batch)}
<1>2. Len(batch) = size /\ Len(batch) \in Nat /\ DOMAIN batch = 1 .. Len(batch)
  BY BoundsAssumption
<1>3. \A i \in 1 .. Len(batch) : batch[i].to \in ids /\ batch[i].to \in DOMAIN terminal
  BY <1>2 DEF ProbeInv, TypeOK, World
<1>4. probing /\ UNCHANGED <<world, asked, probes, drawing>> /\ wire' \subseteq wire
  BY <1>1 DEF ReadBatch
<1>5. /\ asked /\ got \subseteq ids /\ got \subseteq DOMAIN terminal /\ outstanding = ids \ got
      /\ Honest(terminal, env, gathering, got) /\ gathering["probe_skip"] = NoValue
  BY <1>4 DEF ProbeInv, TypeOK, Listening
<1>6. /\ result.outstanding = ids \ heard /\ Honest(terminal, env, result.found, heard)
      /\ result.found["probe_skip"] = NoValue
  BY <1>2, <1>3, <1>5, BatchIsHonest
<1>7. heard \subseteq ids /\ heard \subseteq DOMAIN terminal
  BY <1>2, <1>3, <1>5 DEF ToSet
<1> HIDE DEF heard, result
<1>8. CASE fence \notin result.outstanding
  <2>1. Finish(result.found, heard)
    BY <1>1, <1>8 DEF result, heard
  <2> QED
    BY <1>4, <1>6, <1>7, <2>1, FinishKeeps
<1>9. CASE fence \in result.outstanding
  <2>1. /\ gathering' = result.found /\ got' = heard /\ outstanding' = ids \ heard
        /\ UNCHANGED <<probing, results>>
    BY <1>1, <1>6, <1>9 DEF result, heard
  <2>2. TypeOK'
    BY <1>4, <1>7, <2>1 DEF ProbeInv, TypeOK, drawing, world, results
  <2>3. World'
    BY <1>4 DEF ProbeInv, World, world
  <2>4. Listening'
    BY <1>4, <1>5, <1>6, <1>7, <2>1 DEF Listening, world
  <2>5. Believed'
    BY <1>4, <2>1 DEF ProbeInv, Believed, world, results
  <2>6. Drawn'
    BY <1>4 DEF ProbeInv, Drawn, drawing, world, mode_value
  <2> QED
    BY <2>2, <2>3, <2>4, <2>5, <2>6 DEF ProbeInv
<1> QED
  BY <1>8, <1>9

LEMMA TimeoutKeeps == ASSUME ProbeInv, ProbeTimesOut PROVE ProbeInv'
<1>1. probing /\ Finish(gathering, got) /\ UNCHANGED <<world, asked, probes, drawing>> /\ wire' \subseteq wire
  BY DEF ProbeTimesOut
<1>2. /\ got \subseteq ids /\ got \subseteq DOMAIN terminal
      /\ Honest(terminal, env, gathering, got) /\ gathering["probe_skip"] = NoValue
  BY <1>1 DEF ProbeInv, TypeOK, Listening
<1> QED
  BY <1>1, <1>2, FinishKeeps

(***************************************************************************)
(* A probe that ends without a result, and a late reply, leave what is     *)
(* believed and what is drawn as they are.                                 *)
(***************************************************************************)
LEMMA NoResultKeeps ==
  ASSUME ProbeInv, ~ probing', outstanding' \subseteq ids, got' \subseteq ids, wire' \subseteq wire,
         probing' \in BOOLEAN,
         UNCHANGED <<world, asked, probes, results, drawing>>
  PROVE  ProbeInv'
<1>1. TypeOK'
  BY DEF ProbeInv, TypeOK, drawing, world, results
<1>2. World' /\ Listening' /\ Believed'
  BY DEF ProbeInv, World, Listening, Believed, world, results
<1>3. Drawn'
  BY DEF ProbeInv, Drawn, drawing, world, mode_value
<1> QED
  BY <1>1, <1>2, <1>3 DEF ProbeInv

-----------------------------------------------------------------------------
(***************************************************************************)
(* A step of drawing.                                                      *)
(***************************************************************************)
LEMMA DrawingKeeps ==
  ASSUME ProbeInv, UNCHANGED <<world, asked, wire, probe, results>>,
         begun' \in 0 .. MaxFrames, frames' \in Seq(BOOLEAN),
         updating' \in BOOLEAN, cut_short' \in BOOLEAN,
         updating' => updating \/ synchronized_output,
         updating' => cut_short' \/ \E i \in DOMAIN frames' : frames'[i]
  PROVE  ProbeInv'
<1>1. TypeOK'
  BY DEF ProbeInv, TypeOK, probe, world, results
<1>2. World' /\ Listening' /\ Believed'
  BY DEF ProbeInv, World, Listening, Believed, probe, world, results
<1>3. ASSUME updating' PROVE asked /\ mode_value("2026") = TRUE
  BY <1>3, GateIsHonest DEF ProbeInv, Drawn
<1>4. Drawn'
  BY <1>3 DEF Drawn, world, mode_value
<1> QED
  BY <1>1, <1>2, <1>4 DEF ProbeInv

LEMMA GateIsBoolean == synchronized_output \in BOOLEAN
  BY DEF synchronized_output

LEMMA Appended ==
  ASSUME NEW s \in Seq(BOOLEAN), NEW b \in BOOLEAN
  PROVE  /\ Append(s, b) \in Seq(BOOLEAN)
         /\ \A i \in DOMAIN s : i \in DOMAIN Append(s, b) /\ Append(s, b)[i] = s[i]
         /\ Len(s) + 1 \in DOMAIN Append(s, b) /\ Append(s, b)[Len(s) + 1] = b
  OBVIOUS

LEMMA Shortened ==
  ASSUME NEW s \in Seq(BOOLEAN), s # <<>>
  PROVE  /\ Front(s) \in Seq(BOOLEAN) /\ Last(s) \in BOOLEAN
         /\ \A i \in DOMAIN s : \/ i \in DOMAIN Front(s) /\ Front(s)[i] = s[i]
                              \/ s[i] = Last(s)
  BY DEF Front, Last

LEMMA BeginKeeps == ASSUME ProbeInv, BeginFrame PROVE ProbeInv'
<1> DEFINE gate == synchronized_output
<1>1. gate \in BOOLEAN
  BY GateIsBoolean
<1>2. /\ begun' = begun + 1 /\ begun < MaxFrames /\ frames' = Append(frames, gate)
      /\ updating' = (updating \/ gate) /\ cut_short' = cut_short
      /\ UNCHANGED <<world, asked, wire, probe, results>>
  BY DEF BeginFrame
<1>3. /\ begun \in 0 .. MaxFrames /\ frames \in Seq(BOOLEAN) /\ updating \in BOOLEAN
      /\ cut_short \in BOOLEAN
      /\ updating => cut_short \/ \E i \in DOMAIN frames : frames[i]
  BY DEF ProbeInv, TypeOK, Drawn
<1> HIDE DEF gate
<1>4. begun' \in 0 .. MaxFrames
  BY <1>2, <1>3, BoundsAssumption
<1>5. /\ frames' \in Seq(BOOLEAN) /\ updating' \in BOOLEAN /\ cut_short' \in BOOLEAN
      /\ updating' => updating \/ gate
  BY <1>1, <1>2, <1>3
<1>6. ASSUME updating', ~ cut_short' PROVE \E i \in DOMAIN frames' : frames'[i]
  <2>1. CASE updating
    BY <1>1, <1>2, <1>3, <1>6, <2>1, Appended
  <2>2. CASE gate
    BY <1>1, <1>2, <1>3, <2>2, Appended
  <2> QED
    BY <1>2, <1>6, <2>1, <2>2
<1> QED
  BY <1>2, <1>4, <1>5, <1>6, DrawingKeeps DEF gate

LEMMA BeginFailsKeeps == ASSUME ProbeInv, BeginFails PROVE ProbeInv'
<1>1. begun' \in 0 .. MaxFrames
  BY BoundsAssumption DEF ProbeInv, TypeOK, BeginFails
<1>2. /\ frames' \in Seq(BOOLEAN) /\ updating' \in BOOLEAN /\ cut_short' = TRUE
      /\ synchronized_output
      /\ UNCHANGED <<world, asked, wire, probe, results>>
  BY DEF ProbeInv, TypeOK, BeginFails
<1> QED
  BY <1>1, <1>2, DrawingKeeps

LEMMA EndKeeps == ASSUME ProbeInv, EndFrame PROVE ProbeInv'
<1>1. /\ frames # <<>> /\ frames' = Front(frames) /\ begun' = begun
      /\ \/ updating' = (updating /\ ~ Last(frames)) /\ cut_short' = cut_short
         \/ Last(frames) /\ updating' = updating /\ cut_short' = TRUE
      /\ UNCHANGED <<world, asked, wire, probe, results>>
  BY DEF EndFrame
<1>2. /\ begun \in 0 .. MaxFrames /\ frames \in Seq(BOOLEAN) /\ updating \in BOOLEAN
      /\ cut_short \in BOOLEAN
      /\ updating => cut_short \/ \E i \in DOMAIN frames : frames[i]
  BY DEF ProbeInv, TypeOK, Drawn
<1>3. /\ frames' \in Seq(BOOLEAN) /\ Last(frames) \in BOOLEAN
      /\ \A i \in DOMAIN frames : \/ i \in DOMAIN frames' /\ frames'[i] = frames[i]
                                 \/ frames[i] = Last(frames)
  BY <1>1, <1>2, Shortened
<1> DEFINE last == Last(frames)
<1>4. /\ last \in BOOLEAN
      /\ \/ updating' = (updating /\ ~ last) /\ cut_short' = cut_short
         \/ last /\ updating' = updating /\ cut_short' = TRUE
  BY <1>1, <1>3
<1> HIDE DEF last
<1>5. /\ updating' \in BOOLEAN /\ cut_short' \in BOOLEAN /\ (updating' => updating)
      /\ updating' /\ ~ cut_short' => updating /\ ~ last /\ ~ cut_short
  <2>1. CASE updating' = (updating /\ ~ last) /\ cut_short' = cut_short
    BY <1>2, <1>4, <2>1, Zenon
  <2>2. CASE last /\ updating' = updating /\ cut_short' = TRUE
    BY <1>2, <1>4, <2>2, Zenon
  <2> QED
    BY <1>4, <2>1, <2>2
<1>6. ASSUME updating', ~ cut_short' PROVE \E i \in DOMAIN frames' : frames'[i]
  <2>1. updating /\ ~ Last(frames) /\ ~ cut_short
    BY <1>5, <1>6 DEF last
  <2>2. PICK i \in DOMAIN frames : frames[i]
    BY <1>2, <2>1
  <2> QED
    BY <1>3, <2>1, <2>2
<1> QED
  BY <1>1, <1>2, <1>3, <1>5, <1>6, DrawingKeeps

LEMMA DropKeeps == ASSUME ProbeInv, DropFrames PROVE ProbeInv'
<1>1. TypeOK'
  <2>1. frames' \in Seq(BOOLEAN)
    BY NoFramesAreFrames DEF DropFrames
  <2>2. cut_short' \in BOOLEAN
    BY DEF DropFrames
  <2> QED
    BY <2>1, <2>2 DEF ProbeInv, TypeOK, DropFrames, world, results
<1>2. World' /\ Listening' /\ Believed'
  BY DEF ProbeInv, World, Listening, Believed, DropFrames, world, results
<1>3. Drawn'
  BY DEF ProbeInv, Drawn, DropFrames, world, mode_value
<1> QED
  BY <1>1, <1>2, <1>3 DEF ProbeInv

LEMMA ProbeInvKept == ASSUME ProbeInv, [Next]_vars PROVE ProbeInv'
<1>1. CASE ProbeFails
  BY <1>1, NoResultKeeps DEF ProbeFails, Forget
<1>2. CASE DropProbe
  BY <1>2, NoResultKeeps DEF ProbeInv, TypeOK, DropProbe
<1>3. CASE NextEvent
  <2>1. /\ ~ probing' /\ probing' \in BOOLEAN /\ got' \subseteq ids
        /\ UNCHANGED <<world, asked, probes, results, drawing>>
    BY <1>3 DEF ProbeInv, TypeOK, NextEvent
  <2>2. outstanding' \subseteq ids /\ wire' \subseteq wire
    BY <1>3 DEF ProbeInv, TypeOK, NextEvent
  <2> QED
    BY <2>1, <2>2, NoResultKeeps
<1>4. CASE UNCHANGED vars
  <2>1. TypeOK'
    BY <1>4 DEF ProbeInv, TypeOK, vars, probe, world, results, drawing
  <2>2. World' /\ Listening' /\ Believed'
    BY <1>4 DEF ProbeInv, World, Listening, Believed, vars, probe, world, results, drawing
  <2>3. Drawn'
    BY <1>4 DEF ProbeInv, Drawn, vars, probe, world, results, drawing, mode_value
  <2> QED
    BY <2>1, <2>2, <2>3 DEF ProbeInv
<1> QED
  BY <1>1, <1>2, <1>3, <1>4, SkipKeeps, StartKeeps, ReadKeeps, TimeoutKeeps, BeginKeeps,
     BeginFailsKeeps, EndKeeps, DropKeeps, Zenon DEF Next

(***************************************************************************)
(* ProbeInv holds initially and is kept by every step of probe, late       *)
(* replies and frames.                                                     *)
(***************************************************************************)
THEOREM InductiveInvariant == Spec => []ProbeInv
  BY ProbeInvInitially, ProbeInvKept, PTL DEF Spec

(***************************************************************************)
(* The state of probe and frames keeps its types.                          *)
(***************************************************************************)
THEOREM TypeCorrect == Spec => []TypeOK
<1>1. ProbeInv => TypeOK
  BY DEF ProbeInv
<1> QED
  BY <1>1, InductiveInvariant, PTL

(***************************************************************************)
(* What a snapshot says of a query is what the terminal answered, if an    *)
(* answer was read while the probe listened, and nothing otherwise         *)
(* (probe_capabilities, store_bundle_reply).                               *)
(***************************************************************************)
THEOREM SnapshotsAreHonest == Spec => []SnapshotIsHonest
<1>1. ProbeInv => SnapshotIsHonest
  BY BeliefsAreHonest DEF ProbeInv
<1> QED
  BY <1>1, InductiveInvariant, PTL

(***************************************************************************)
(* Images are believed in on the terminal's own name, when it has told one *)
(* that is known (store_bundle_reply, infer_iterm2_images).                *)
(***************************************************************************)
THEOREM ImagesAreByName == Spec => []ImagesFollowTheName
<1>1. ProbeInv => ImagesFollowTheName
  BY NamesAreHonest DEF ProbeInv
<1> QED
  BY <1>1, InductiveInvariant, PTL

(***************************************************************************)
(* A synchronized update has a frame around it, or one that was cut short, *)
(* and goes to a terminal that said it has the mode on (synchronized).     *)
(***************************************************************************)
THEOREM FramesEndWhatTheyBegin == Spec => []FramesArePaired
<1>1. ProbeInv => FramesArePaired
  BY DEF ProbeInv, Drawn, FramesArePaired
<1> QED
  BY <1>1, InductiveInvariant, PTL

=============================================================================
