---------------------------- MODULE ReplyMatchers ----------------------------
(***************************************************************************)
(* Which syntax tokens the semantic decoder leaves as syntax, and which of *)
(* those each Expectation of src/src/correlate.rs accepts.                 *)
(*                                                                         *)
(* A token keeps what the parsers look at: its frame, private markers,     *)
(* intermediates, final byte and parameter fields; for a string sequence   *)
(* also the image id it echoes and whether the rest of its payload is well *)
(* formed (UTF-8 version text, rgb: colour, key list and printable         *)
(* message).  A parameter field keeps its decimal value (NaN for an empty  *)
(* or non-decimal one) and whether it is written plainly, since some       *)
(* parsers compare values and some compare bytes.                          *)
(***************************************************************************)
EXTENDS Integers, Sequences

NaN == -1

Field == [value : Nat \cup {NaN}, plain : BOOLEAN]

Plain(n) == [value |-> n, plain |-> TRUE]
Padded(n) == [value |-> n, plain |-> FALSE]   \* leading zeros
Empty == [value |-> NaN, plain |-> TRUE]

Token == [ frame : {"csi", "dcs", "osc", "apc"},
           markers : STRING, intermediates : STRING, final : STRING,
           fields : Seq(Field),        \* never empty: no parameter is <<Empty>>
           image : Nat \cup {NaN},     \* i= of a graphics response
           well_formed : BOOLEAN ]

(***************************************************************************)
(* Expectation: the arg is the discriminator of the variants that have one *)
(* (mode number, colour selector, image id) and 0 for the others.          *)
(***************************************************************************)
Fieldless == { "CursorPosition", "TerminalStatus", "PrimaryDeviceAttributes",
               "KittyKeyboardFlags", "XtVersion", "TextAreaPixels", "CellSize" }

U8_MAX == 255
U16_MAX == 65535

ModeNumber == 0 .. U16_MAX
ColorSelector == {10, 11}

Expectation == [kind : Fieldless, arg : {0}]
                 \cup [kind : {"DecPrivateMode"}, arg : ModeNumber]
                 \cup [kind : {"OscColor"}, arg : ColorSelector]
                 \cup [kind : {"KittyGraphics"}, arg : Nat]

-----------------------------------------------------------------------------
\* The shape test every CSI report parser starts with.
shape(t, final, markers, intermediates) ==
  /\ t.frame = "csi"
  /\ t.final = final
  /\ t.markers = markers
  /\ t.intermediates = intermediates

parse_u16(f) == f.value \in 0 .. U16_MAX
parse_one_based_u16(f) == f.value \in 1 .. U16_MAX

cursor_position_report(t) ==
  /\ shape(t, "R", "", "")
  /\ Len(t.fields) = 2
  /\ parse_one_based_u16(t.fields[1])
  /\ parse_one_based_u16(t.fields[2])

\* Mutant: the modified-F3 exclusion is dropped.
match_any_cursor_position(t) == cursor_position_report(t)

\* A report always has two parameters, so row 1 is refused altogether.
match_cursor_position(t) ==
  cursor_position_report(t) /\ t.fields[1].value # 1

match_terminal_status(t) ==
  shape(t, "n", "", "") /\ t.fields \in {<<Plain(0)>>, <<Plain(3)>>}

match_primary_device_attributes(t) == shape(t, "c", "?", "")

match_keyboard_flags(t) ==
  /\ shape(t, "u", "?", "")
  /\ Len(t.fields) = 1
  /\ t.fields[1] = Empty \/ t.fields[1].value \in 0 .. U8_MAX

\* Mutant: any mode report completes any mode query (FM-Q10).
match_any_private_mode(t, mode) ==
  shape(t, "y", "?", "$") /\ Len(t.fields) = 2

match_private_mode(t, mode) ==
  /\ shape(t, "y", "?", "$")
  /\ Len(t.fields) = 2
  /\ parse_u16(t.fields[1])
  /\ t.fields[2].value \in 0 .. 4
  /\ t.fields[1].value = mode

match_xtversion(t) ==
  /\ t.frame = "dcs"
  /\ t.markers = ">" /\ t.final = "|" /\ t.intermediates = ""
  /\ t.fields = <<Empty>>
  /\ t.well_formed

match_osc_color(t, which) ==
  /\ t.frame = "osc"
  /\ t.fields[1] = Plain(which)
  /\ t.well_formed

match_kitty_graphics(t, image_id) ==
  t.frame = "apc" /\ t.image = image_id /\ t.well_formed

\* Mutant: a zero dimension is refused by the parser.
parse_nonzero_size(t, op) ==
  /\ shape(t, "t", "", "")
  /\ Len(t.fields) = 3
  /\ t.fields[1] = Plain(op)
  /\ parse_one_based_u16(t.fields[2])
  /\ parse_one_based_u16(t.fields[3])

parse_xtwinops_report(t, op) ==
  /\ shape(t, "t", "", "")
  /\ Len(t.fields) = 3
  /\ t.fields[1] = Plain(op)
  /\ parse_u16(t.fields[2])
  /\ parse_u16(t.fields[3])

match_event(e, t) ==
  \/ e.kind = "CursorPosition" /\ match_cursor_position(t)
  \/ e.kind = "TerminalStatus" /\ match_terminal_status(t)
  \/ e.kind = "PrimaryDeviceAttributes" /\ match_primary_device_attributes(t)
  \/ e.kind = "KittyKeyboardFlags" /\ match_keyboard_flags(t)
  \/ e.kind = "DecPrivateMode" /\ match_private_mode(t, e.arg)
  \/ e.kind = "XtVersion" /\ match_xtversion(t)
  \/ e.kind = "OscColor" /\ match_osc_color(t, e.arg)
  \/ e.kind = "KittyGraphics" /\ match_kitty_graphics(t, e.arg)
  \/ e.kind = "TextAreaPixels" /\ parse_xtwinops_report(t, 4)
  \/ e.kind = "CellSize" /\ parse_xtwinops_report(t, 6)

-----------------------------------------------------------------------------
(***************************************************************************)
(* The typed decoders map_csi tries before it leaves a CSI as syntax.  The *)
(* value ranges of the key decoders are left out: each definition contains *)
(* every token its decoder can take.                                       *)
(***************************************************************************)
bare(t) == t.frame = "csi" /\ t.markers = "" /\ t.intermediates = ""

win32_key(t) == bare(t) /\ t.final = "_"

kitty_key(t) ==
  /\ bare(t)
  /\ \/ t.final = "u" /\ t.fields[1].value # NaN
     \/ t.final = "~"
     \/ t.final \in {"A", "B", "C", "D", "H", "F", "P", "Q", "S", "Z"}
          /\ t.fields[1].value \in {1, NaN}

sgr_mouse(t) ==
  /\ t.frame = "csi" /\ t.markers = "<" /\ t.intermediates = ""
  /\ t.final \in {"M", "m"}
  /\ Len(t.fields) = 3
  /\ \A i \in 1 .. 3 : parse_u16(t.fields[i])

focus_report(t) == bare(t) /\ t.final \in {"I", "O"} /\ t.fields = <<Empty>>

\* Mutant: the leading 48 is not asked for.
any_size_report(t) == bare(t) /\ t.final = "t" /\ Len(t.fields) >= 3

resize_report(t) ==
  /\ bare(t) /\ t.final = "t"
  /\ Len(t.fields) >= 3
  /\ t.fields[1].value = 48
  /\ parse_u16(t.fields[2])
  /\ parse_u16(t.fields[3])

\* The Event variant of a token; a bare arrow is among the kitty keys here.
map_token(t) ==
  CASE win32_key(t) \/ kitty_key(t) -> "Key"
    [] sgr_mouse(t)                 -> "Mouse"
    [] focus_report(t)              -> "Focus"
    [] resize_report(t)             -> "Resize"
    [] OTHER                        -> "Syntax"

-----------------------------------------------------------------------------
(***************************************************************************)
(* A modified F3 as terminals report it: CSI 1 ; modifier R, with the      *)
(* modifier 1 + a bitset of eight.                                         *)
(***************************************************************************)
modified_f3(t) ==
  /\ shape(t, "R", "", "")
  /\ Len(t.fields) = 2
  /\ t.fields[1].value = 1
  /\ t.fields[2].value \in 2 .. 256

(***************************************************************************)
(* What a terminal sends to answer each query, from the request's control  *)
(* function (the queries of src/src/commands).  Where the matcher refuses  *)
(* an answer on purpose (row 1), the answer is left out.                   *)
(***************************************************************************)
report(t, final, markers, intermediates) ==
  /\ shape(t, final, markers, intermediates)
  /\ \A i \in 1 .. Len(t.fields) : t.fields[i].plain /\ parse_u16(t.fields[i])

answers(t, e) ==
  \/ /\ e.kind = "CursorPosition" /\ report(t, "R", "", "") /\ Len(t.fields) = 2
     /\ t.fields[1].value > 1 /\ t.fields[2].value > 0
  \/ /\ e.kind = "TerminalStatus" /\ report(t, "n", "", "") /\ Len(t.fields) = 1
     /\ t.fields[1].value \in {0, 3}
  \/ e.kind = "PrimaryDeviceAttributes" /\ report(t, "c", "?", "")
  \/ /\ e.kind = "KittyKeyboardFlags" /\ report(t, "u", "?", "") /\ Len(t.fields) = 1
     /\ t.fields[1].value <= 31
  \/ /\ e.kind = "DecPrivateMode" /\ report(t, "y", "?", "$") /\ Len(t.fields) = 2
     /\ t.fields[1].value = e.arg /\ t.fields[2].value <= 4
  \/ /\ e.kind = "TextAreaPixels" /\ report(t, "t", "", "") /\ Len(t.fields) = 3
     /\ t.fields[1].value = 4
  \/ /\ e.kind = "CellSize" /\ report(t, "t", "", "") /\ Len(t.fields) = 3
     /\ t.fields[1].value = 6

=============================================================================
