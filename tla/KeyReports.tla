----------------------------- MODULE KeyReports ------------------------------
(***************************************************************************)
(* The key that a control sequence reports: the kitty protocol and the     *)
(* legacy forms with modifiers (src/src/event/kitty.rs), the               *)
(* win32-input-mode (src/src/event/win32.rs), and the bare arrows          *)
(* (src/src/event.rs).  The halves of UTF-16 pairs that win32 reports may  *)
(* carry are the subject of SemanticDecoder.                               *)
(*                                                                         *)
(* A sequence is its final byte and its parameters, as groups divided by   *)
(* ; of fields divided by :, with NaN for an empty field.  Characters are  *)
(* code points, a text is a sequence of them, modifiers are a set of bits. *)
(***************************************************************************)
EXTENDS Integers, Sequences

LOCAL NaN == -1

Char(code)     == <<"Char", code>>
Function(n)    == <<"Function", n>>
Named(name)    == <<name, 0>>
NoKey          == <<"none", 0>>

KeyEvent(key, modifiers, kind) ==
  [ key |-> key, modifiers |-> modifiers, kind |-> kind, text |-> <<>>,
    shifted_key |-> NaN, base_layout_key |-> NaN ]

\* The fields of the n-th group, and the n-th of them: NaN where there is none.
group(csi, n) == IF n \in DOMAIN csi.groups THEN csi.groups[n] ELSE <<>>
field(csi, n, k) == IF k \in DOMAIN group(csi, n) THEN group(csi, n)[k] ELSE NaN

has_bit(n, bit) == (n \div bit) % 2 = 1
OrElse(value, default) == IF value = NaN THEN default ELSE value

is_control_codepoint(code) == code < 32 \/ code \in 127 .. 159
is_scalar(code) == code \in 0 .. 55295 \/ code \in 57344 .. 1114111

-----------------------------------------------------------------------------
(***************************************************************************)
(* kitty.rs.  Modifiers: the bits of the protocol, in its order.           *)
(***************************************************************************)
SHIFT == 1
ALT == 2
CTRL == 4
CAPS_LOCK == 64
NUM_LOCK == 128
Modifiers == {SHIFT, ALT, CTRL, 8, 16, 32, CAPS_LOCK, NUM_LOCK}

\* Mutant: the field is taken for the bits themselves.
modifiers_from_bits(value) == {bit \in Modifiers : has_bit(OrElse(value, 0), bit)}

\* The field is 1 + the bits, and 0 and an empty field are no modifiers.
decode_modifiers(value) ==
  LET raw == OrElse(value, 0)
  IN {bit \in Modifiers : raw > 0 /\ has_bit(raw - 1, bit)}

decode_event_type(value) ==
  CASE value = 2 -> "Repeat" [] value = 3 -> "Release" [] OTHER -> "Press"

functional_key(code) ==
  LET names == [ c \in {9, 13, 27, 127} \cup 57348 .. 57357 |->
        CASE c = 9 -> "Tab" [] c = 13 -> "Enter" [] c = 27 -> "Escape" [] c = 127 -> "Backspace"
          [] OTHER -> << "Insert", "Delete", "Left", "Right", "Up", "Down", "PageUp", "PageDown",
                         "Home", "End" >>[c - 57347] ]
  IN CASE code \in DOMAIN names -> Named(names[code])
       [] code \in 57364 .. 57398 -> Function(code - 57363)
       [] OTHER -> Char(code)

decode_text(codepoints) ==
  SelectSeq(codepoints, LAMBDA code : is_scalar(code) /\ ~ is_control_codepoint(code))

scalar_or_none(code) == IF is_scalar(code) THEN code ELSE NaN

decode_csi_u(csi) ==
  IF ~ is_scalar(field(csi, 1, 1)) THEN <<>>
  ELSE << [ KeyEvent(functional_key(field(csi, 1, 1)), decode_modifiers(field(csi, 2, 1)),
                     decode_event_type(field(csi, 2, 2)))
              EXCEPT !.text = decode_text(group(csi, 3)),
                     !.shifted_key = scalar_or_none(field(csi, 1, 2)),
                     !.base_layout_key = scalar_or_none(field(csi, 1, 3)) ] >>

legacy_tilde_key(number) ==
  CASE number \in {1, 7} -> Named("Home")
    [] number = 2 -> Named("Insert")
    [] number = 3 -> Named("Delete")
    [] number \in {4, 8} -> Named("End")
    [] number = 5 -> Named("PageUp")
    [] number = 6 -> Named("PageDown")
    [] number \in 11 .. 15 -> Function(number - 10)
    [] number \in 17 .. 21 -> Function(number - 11)
    [] number \in 23 .. 24 -> Function(number - 12)
    [] OTHER -> NoKey

Arrows == [A |-> "Up", B |-> "Down", C |-> "Right", D |-> "Left"]

legacy_letter_key(final) ==
  CASE final \in DOMAIN Arrows -> Named(Arrows[final])
    [] final = "H" -> Named("Home")
    [] final = "F" -> Named("End")
    [] final = "P" -> Function(1)
    [] final = "Q" -> Function(2)
    [] final = "S" -> Function(4)
    [] final = "Z" -> Named("Tab")

(***************************************************************************)
(* A letter reports a key only behind the selector 1, and a bare arrow is  *)
(* left to arrow_key.  Backtab is Shift-Tab.                               *)
(***************************************************************************)
decode_legacy_functional(csi) ==
  LET selector == OrElse(field(csi, 1, 1), 1)
      modifiers == decode_modifiers(field(csi, 2, 1))
      key == IF csi.final = "~" THEN legacy_tilde_key(selector) ELSE legacy_letter_key(csi.final)
      declined ==
        \/ key = NoKey
        \/ csi.final # "~" /\ selector # 1
        \/ csi.final \in DOMAIN Arrows /\ group(csi, 2) = <<>>
  IN IF declined THEN <<>>
     ELSE << KeyEvent(key, IF csi.final = "Z" THEN modifiers \cup {SHIFT} ELSE modifiers,
                      decode_event_type(field(csi, 2, 2))) >>

kitty_decode_key(csi) ==
  CASE csi.final = "u" -> decode_csi_u(csi)
    [] csi.final \in {"A", "B", "C", "D", "H", "F", "P", "Q", "S", "Z", "~"} ->
         decode_legacy_functional(csi)
    [] OTHER -> <<>>

-----------------------------------------------------------------------------
(***************************************************************************)
(* win32.rs.  The fields: virtual key, scan code, UTF-16 unit, key down,   *)
(* control key state, repeat count.                                        *)
(***************************************************************************)
REPEAT_CAP == 32

repeat_count(rc) == CASE rc < 1 -> 1 [] rc > REPEAT_CAP -> REPEAT_CAP [] OTHER -> rc

\* The two Alt bits and the two Ctrl bits are each one modifier.
win32_modifiers(cs) ==
  { m \in {SHIFT, ALT, CTRL, CAPS_LOCK, NUM_LOCK} :
      CASE m = SHIFT -> has_bit(cs, 16)
        [] m = ALT -> has_bit(cs, 1) \/ has_bit(cs, 2)
        [] m = CTRL -> has_bit(cs, 4) \/ has_bit(cs, 8)
        [] m = CAPS_LOCK -> has_bit(cs, 128)
        [] m = NUM_LOCK -> has_bit(cs, 32) }

named_key(vk) ==
  CASE vk = 8 -> Named("Backspace")
    [] vk = 9 -> Named("Tab")
    [] vk = 13 -> Named("Enter")
    [] vk = 27 -> Named("Escape")
    [] vk \in 33 .. 40 ->
         Named(<<"PageUp", "PageDown", "End", "Home", "Left", "Up", "Right", "Down">>[vk - 32])
    [] vk = 45 -> Named("Insert")
    [] vk = 46 -> Named("Delete")
    [] vk \in 48 .. 57 -> Char(vk)
    [] vk \in 65 .. 90 -> Char(vk + 32)
    [] vk \in 112 .. 135 -> Function(vk - 111)
    [] OTHER -> NoKey

is_text_char(code) == is_scalar(code) /\ ~ is_control_codepoint(code)

text_key_event(code, modifiers, kind) ==
  [KeyEvent(Char(code), modifiers, kind) EXCEPT !.text = IF kind = "Press" THEN <<code>> ELSE <<>>]

\* A character names the key, before the virtual key does.
key_event(vk, uc, modifiers, kind) ==
  CASE is_text_char(uc) -> <<text_key_event(uc, modifiers, kind)>>
    [] ~ is_text_char(uc) /\ named_key(vk) # NoKey -> <<KeyEvent(named_key(vk), modifiers, kind)>>
    [] OTHER -> <<>>

push_repeated(events, count) ==
  IF events = <<>> THEN <<>> ELSE [i \in 1 .. count |-> events[1]]

win32_decode_key(csi) ==
  LET value(n) == OrElse(field(csi, n, 1), IF n = 6 THEN 1 ELSE 0)
      kind == IF value(4) = 0 THEN "Release" ELSE "Press"
  IN push_repeated(key_event(value(1), value(3), win32_modifiers(value(5)), kind),
                   repeat_count(value(6)))

is_win32(csi) == csi.final = "_" /\ \A n \in DOMAIN csi.groups : Len(csi.groups[n]) = 1

-----------------------------------------------------------------------------
(***************************************************************************)
(* event.rs: the decoders in the order in which map_csi tries them, for a  *)
(* sequence without markers and intermediates.                             *)
(***************************************************************************)
arrow_key(csi) ==
  IF csi.final \in DOMAIN Arrows /\ csi.groups \in {<<>>, << <<1>> >>}
  THEN <<KeyEvent(Named(Arrows[csi.final]), {}, "Press")>> ELSE <<>>

decoded_keys(csi) ==
  CASE is_win32(csi) -> win32_decode_key(csi)
    [] ~ is_win32(csi) /\ kitty_decode_key(csi) # <<>> -> kitty_decode_key(csi)
    [] OTHER -> arrow_key(csi)

=============================================================================
