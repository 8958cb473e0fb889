---------------------------- MODULE MouseReports -----------------------------
(***************************************************************************)
(* The mouse event that an SGR report stands for (src/src/event/mouse.rs). *)
(* A report is <<"mouse", button code, whether its final byte is m>>; its  *)
(* coordinates are left out.                                               *)
(***************************************************************************)
EXTENDS Integers, Sequences

SHIFT_BIT == 4
ALT_BIT == 8
CTRL_BIT == 16
MOTION_BIT == 32
WHEEL_BIT == 64
HIGH_BIT == 128

LOCAL has(code, bit) == (code \div bit) % 2 = 1

decode_modifiers(button_code) ==
  {bit \in {SHIFT_BIT, ALT_BIT, CTRL_BIT} : has(button_code, bit)}

\* Buttons 8 to 11 have a bit of their own, and 3 is no button.
decode_button(button_code) ==
  IF has(button_code, HIGH_BIT) THEN <<"Other", 8 + (button_code % 4)>>
  ELSE << <<"Left">>, <<"Middle">>, <<"Right">>, <<"None">> >>[(button_code % 4) + 1]

\* The wheel goes before motion, and motion before press and release.
decode_kind_and_button(button_code, is_release) ==
  CASE has(button_code, WHEEL_BIT) ->
         << <<"Scroll", <<"Up", "Down", "Left", "Right">>[(button_code % 4) + 1]>>, <<"None">> >>
    [] ~ has(button_code, WHEEL_BIT) /\ has(button_code, MOTION_BIT) ->
         << <<"Moved">>, decode_button(button_code) >>
    [] OTHER ->
         << <<IF is_release THEN "Release" ELSE "Press">>, decode_button(button_code) >>

decode_sgr(report) ==
  LET decoded == decode_kind_and_button(report[2], report[3])
  IN [kind |-> decoded[1], button |-> decoded[2], modifiers |-> decode_modifiers(report[2])]

=============================================================================
