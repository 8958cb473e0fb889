--------------------------- MODULE MCReplyMatchers ---------------------------
(***************************************************************************)
(* Every token of a bounded universe goes through the semantic decoder     *)
(* and, left as syntax, meets every expectation at once.                   *)
(***************************************************************************)
EXTENDS ReplyMatchers, KeyReports, FiniteSets, SequencesExt

CONSTANTS
  Finals, PrivateMarkers, Intermediates,  \* bytes of the control sequences
  Values,                          \* plain decimal values of a field
  MaxFields,                       \* bound: fields of a control sequence
  Discriminators                   \* mode numbers and image ids asked for

ASSUME DiscriminatorsAssumption == Discriminators \subseteq ModeNumber

VARIABLES token, variant, claimed

token_vars == <<token, variant, claimed>>

MCField == {Plain(n) : n \in Values} \cup {Empty, Padded(4)}

FieldLists == UNION {[1 .. n -> MCField] : n \in 1 .. MaxFields}

ControlTokens ==
  [ frame : {"csi"}, markers : PrivateMarkers, intermediates : Intermediates, final : Finals,
    fields : FieldLists, image : {NaN}, well_formed : {TRUE} ]

StringTokens ==
  [ frame : {"dcs"}, markers : PrivateMarkers, intermediates : Intermediates, final : {"|", "q"},
    fields : [1 .. 1 -> MCField], image : {NaN}, well_formed : BOOLEAN ]
  \cup
  [ frame : {"osc"}, markers : {""}, intermediates : {""}, final : {""},
    fields : {<<Plain(n)>> : n \in {4, 10, 11, 12}}, image : {NaN}, well_formed : BOOLEAN ]
  \cup
  [ frame : {"apc"}, markers : {""}, intermediates : {""}, final : {""},
    fields : {<<Empty>>}, image : Discriminators \cup {NaN}, well_formed : BOOLEAN ]

-----------------------------------------------------------------------------
(***************************************************************************)
(* A press: the key, what it types, the modifiers and the kind of event,   *)
(* with, by key, the numbers the protocols have for it.                    *)
(***************************************************************************)
Key(key, code, vk, uc, legacy) ==
  [key |-> key, code |-> code, vk |-> vk, uc |-> uc, legacy |-> legacy]

LetterForm(final) == [final |-> final, number |-> 1]
TildeForm(number) == [final |-> "~", number |-> number]

Keys ==
  { Key(Char(97), 97, 65, 97, {}),  Key(Char(49), 49, 49, 49, {}),
    Key(Named("Escape"), 27, 27, 27, {}), Key(Named("Backspace"), 127, 8, 8, {}),
    Key(Named("Enter"), 13, 13, 13, {}), Key(Named("Tab"), 9, 9, 9, {}),
    Key(Named("Up"), 57352, 38, 0, {LetterForm("A")}),
    Key(Named("Down"), 57353, 40, 0, {LetterForm("B")}),
    Key(Named("Right"), 57351, 39, 0, {LetterForm("C")}),
    Key(Named("Left"), 57350, 37, 0, {LetterForm("D")}),
    Key(Named("Home"), 57356, 36, 0, {LetterForm("H"), TildeForm(1), TildeForm(7)}),
    Key(Named("End"), 57357, 35, 0, {LetterForm("F"), TildeForm(4), TildeForm(8)}),
    Key(Named("PageUp"), 57354, 33, 0, {TildeForm(5)}),
    Key(Named("PageDown"), 57355, 34, 0, {TildeForm(6)}),
    Key(Named("Insert"), 57348, 45, 0, {TildeForm(2)}),
    Key(Named("Delete"), 57349, 46, 0, {TildeForm(3)}) }
  \cup { Key(Function(n), 57363 + n, 111 + n, 0,
              (CASE n <= 5 -> {TildeForm(10 + n)} [] n \in 6 .. 10 -> {TildeForm(11 + n)}
                 [] n \in {11, 12} -> {TildeForm(12 + n)} [] OTHER -> {})
                \cup (CASE n = 1 -> {LetterForm("P")} [] n = 2 -> {LetterForm("Q")}
                        [] n = 4 -> {LetterForm("S")} [] OTHER -> {})) : n \in 1 .. 24 }

Held == SUBSET {SHIFT, ALT, CTRL, CAPS_LOCK, NUM_LOCK}

Presses == [key : Keys, modifiers : Held, kind : {"Press", "Repeat", "Release"}]

\* Control makes a letter a control code, and shift a capital of it.
types(press) ==
  LET unit == press.key.uc
  IN CASE unit = 97 /\ CTRL \in press.modifiers -> 1
       [] unit = 97 /\ CTRL \notin press.modifiers /\ SHIFT \in press.modifiers -> 65
       [] OTHER -> unit

number_of(kind) == CASE kind = "Press" -> 1 [] kind = "Repeat" -> 2 [] kind = "Release" -> 3

Bits(S) == FoldSet(+, 0, S)

modifier_group(press) == << 1 + Bits(press.modifiers), number_of(press.kind) >>

\* What may be left out: the event type of a press, then a group without modifiers.
modifier_groups(press) ==
  { <<modifier_group(press)>> }
    \cup (IF press.kind = "Press" THEN { << <<1 + Bits(press.modifiers)>> >> } ELSE {})
    \cup (IF press.kind = "Press" /\ press.modifiers = {} THEN { <<>> } ELSE {})

\* With the shifted key, or the key of the standard layout, told as well.
key_groups(press) ==
  { <<press.key.code>> }
    \cup (IF press.key.code = 97 THEN { <<97, 65>>, <<97, NaN, 113>> } ELSE {})

types_text(press) == press.kind = "Press" /\ is_text_char(types(press))

\* What is typed may follow the modifiers, which may then be left empty.
text_groups(press) ==
  IF ~ types_text(press) THEN {}
  ELSE { <<modifiers, <<types(press)>> >> :
           modifiers \in {modifier_group(press)}
                           \cup (IF press.modifiers = {} THEN { <<NaN>> } ELSE {}) }

kitty_reports(press) ==
  { [final |-> "u", groups |-> <<keys>> \o groups] :
      keys \in key_groups(press), groups \in modifier_groups(press) \cup text_groups(press) }

legacy_reports(press) ==
  { [ final |-> form.final,
      groups |-> IF groups = <<>> /\ form.final # "~" THEN <<>>
                 ELSE << <<form.number>> >> \o groups ] :
      form \in press.key.legacy, groups \in modifier_groups(press) }

\* Backtab is Shift-Tab, whether or not its modifiers say so.
backtab_reports(press) ==
  IF press.key.key # Named("Tab") \/ SHIFT \notin press.modifiers \/ press.kind # "Press" THEN {}
  ELSE { [final |-> "Z", groups |-> << <<1>>, <<1 + Bits(told)>> >>] :
           told \in {press.modifiers, press.modifiers \ {SHIFT}} }
       \cup (IF press.modifiers = {SHIFT} THEN {[final |-> "Z", groups |-> <<>>]} ELSE {})

\* Either Alt or both, either Ctrl or both; ENHANCED_KEY and SCROLLLOCK_ON with them.
win32_states(press) ==
  { 256 + 64 + Bits({ CASE m = SHIFT -> 16 [] m = ALT -> alt [] m = CTRL -> ctrl
                        [] m = NUM_LOCK -> 32 [] m = CAPS_LOCK -> 128 : m \in press.modifiers }) :
    alt \in 1 .. 3, ctrl \in {4, 8, 12} }

\* A key that is held is one report with a count.
win32_reports(press) ==
  IF press.kind = "Repeat" THEN {}
  ELSE { [ final |-> "_",
           groups |-> << <<press.key.vk>>, <<NaN>>, <<types(press)>>,
                         <<IF press.kind = "Press" THEN 1 ELSE 0>>, <<cs>>, <<count>> >> ] :
         cs \in win32_states(press), count \in {0, 2, 33} }

KeyToken(press, csi) ==
  [ frame |-> "csi", markers |-> "", intermediates |-> "", final |-> csi.final,
    fields |-> IF csi.groups = <<>> THEN <<Empty>>
               ELSE [i \in DOMAIN FlattenSeq(csi.groups) |-> Plain(FlattenSeq(csi.groups)[i])],
    image |-> NaN, well_formed |-> TRUE, groups |-> csi.groups, press |-> press ]

KeyTokens(press) ==
  { KeyToken(press, csi) :
      csi \in kitty_reports(press) \cup legacy_reports(press)
                \cup backtab_reports(press) \cup win32_reports(press) }

is_key_token(t) == "press" \in DOMAIN t

-----------------------------------------------------------------------------
MCExpectation ==
  [kind : Fieldless, arg : {0}]
    \cup [kind : {"DecPrivateMode", "KittyGraphics"}, arg : Discriminators]
    \cup [kind : {"OscColor"}, arg : ColorSelector]

TokenInit ==
  /\ \/ token \in ControlTokens \cup StringTokens
     \/ \E press \in Presses : token \in KeyTokens(press)
  /\ variant = "undecoded"
  /\ claimed = {}

Decode ==
  /\ variant = "undecoded"
  /\ variant' = map_token(token)
  /\ UNCHANGED <<token, claimed>>

Feed ==
  /\ variant = "Syntax"
  /\ claimed' = {e \in MCExpectation : match_event(e, token)}
  /\ UNCHANGED <<token, variant>>

TokenNext == Decode \/ Feed

TokenSpec == TokenInit /\ [][TokenNext]_token_vars

(***************************************************************************)
(* One event never completes two expectations (rule 1 of correlate.rs).    *)
(***************************************************************************)
OneClaimant == Cardinality(claimed) <= 1

(***************************************************************************)
(* No key, mouse, focus or resize decoder takes a reply away: whatever an  *)
(* expectation accepts is still syntax when the correlator sees it.        *)
(***************************************************************************)
RepliesReachCorrelator ==
  variant \in {"Key", "Mouse", "Focus", "Resize"} =>
    \A e \in MCExpectation : ~ match_event(e, token)

(***************************************************************************)
(* What a terminal sends in answer to a query is accepted by that query's  *)
(* expectation, unless the matcher refuses it on purpose (row 1).          *)
(***************************************************************************)
AnswersAreAccepted ==
  \A e \in MCExpectation : answers(token, e) => match_event(e, token)

(***************************************************************************)
(* A key reads as it was pressed, whichever of the protocols reports it    *)
(* and however it is written: the same key, modifiers and kind, and what   *)
(* it types if that is reported.  win32 counts repeats, and has no kind    *)
(* for them, and it names a key that types by what it types (its docs: the *)
(* character wins).                                                        *)
(***************************************************************************)
pressed(press, csi) ==
  LET by_win32 == csi.final = "_"
      tells_text == by_win32 \/ Len(csi.groups) = 3
  IN [ key |-> IF by_win32 /\ is_text_char(types(press)) THEN Char(types(press)) ELSE press.key.key,
       modifiers |-> press.modifiers, kind |-> press.kind,
       text |-> IF tells_text /\ types_text(press) THEN <<types(press)>> ELSE <<>> ]

KeysReadAsPressed ==
  is_key_token(token) /\ variant # "undecoded" =>
    LET keys == decoded_keys(token)
        repeats == IF token.final = "_" THEN Max({1, Min({token.groups[6][1], REPEAT_CAP})}) ELSE 1
    IN /\ variant = "Key"
       /\ Len(keys) = repeats
       /\ \A i \in DOMAIN keys :
            [ key |-> keys[i].key, modifiers |-> keys[i].modifiers, kind |-> keys[i].kind,
              text |-> keys[i].text ] = pressed(token.press, token)

=============================================================================
