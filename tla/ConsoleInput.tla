---------------------------- MODULE ConsoleInput -----------------------------
(***************************************************************************)
(* What the Windows console reader makes of input records                  *)
(* (src/src/terminal/console_input.rs and console_translate.rs).           *)
(*                                                                         *)
(* A record is a key with one UTF-16 unit, a mouse state, a change of the  *)
(* window, or of another type.  Characters and reports are values:         *)
(* coordinates, and the bytes a character or a report is encoded in, are   *)
(* left out.                                                               *)
(***************************************************************************)
EXTENDS Integers, FiniteSets, SequencesExt

CONSTANT MAX_UNITS_PER_RECORD

ASSUME UnitsAssumption == MAX_UNITS_PER_RECORD \in Nat \ {0}

LOCAL Least(S) == CHOOSE x \in S : \A y \in S : x <= y

(***************************************************************************)
(* SurrogateCarry: one high surrogate waits for its low half, over records *)
(* and reads.  A unit is [class, n], class "bmp", "high" or "low".         *)
(***************************************************************************)
Replacement == <<"replacement">>
combine_surrogates(high, unit) == <<"pair", high.n, unit.n>>
NoUnit == [class |-> "none", n |-> 0]

push(reader, unit) ==
  LET high == reader.pending_high
      orphan == IF high = NoUnit THEN <<>> ELSE <<Replacement>>
      text == CASE unit.class = "low" /\ high # NoUnit -> <<combine_surrogates(high, unit)>>
                [] unit.class = "low" /\ high = NoUnit -> <<Replacement>>
                [] unit.class = "high" -> orphan
                [] unit.class = "bmp" -> Append(orphan, <<"char", unit.n>>)
  IN [ reader EXCEPT !.pending = @ \o text,
                     !.pending_high = IF unit.class = "high" THEN unit ELSE NoUnit ]

flush_carry(reader) ==
  IF reader.pending_high = NoUnit THEN reader
  ELSE [ reader EXCEPT !.pending = Append(@, Replacement), !.pending_high = NoUnit ]

(***************************************************************************)
(* translate_key: key-up records are chatter, except that of the Alt key   *)
(* after a composed character; a repeated unit is pushed again, up to a    *)
(* limit.                                                                  *)
(***************************************************************************)
translate_key(reader, key) ==
  LET repeat == IF key.repeat < MAX_UNITS_PER_RECORD THEN key.repeat ELSE MAX_UNITS_PER_RECORD
      pushed[n \in 0 .. repeat] == IF n = 0 THEN reader ELSE push(pushed[n - 1], key.unit)
  IN IF key.unit = NoUnit \/ ~ (key.down \/ key.menu) THEN reader ELSE pushed[repeat]

(***************************************************************************)
(* translate_mouse: SGR reports, press and release found by comparing the  *)
(* buttons down with those of the record before.  A button is its bit.     *)
(***************************************************************************)
Button == {1, 2, 4, 8, 16}

sgr_button_number(bit) ==
  CASE bit = 1 -> 0 [] bit = 4 -> 1 [] bit = 2 -> 2 [] bit = 8 -> 128 [] bit = 16 -> 129

SGR_MOTION == 32
SGR_WHEEL == 64
SGR_NO_BUTTON == 3

Report(code, release) == <<"mouse", code, release>>

button_report(buttons, motion, release) ==
  Report(sgr_button_number(Least(buttons)) + motion, release)

\* Mutant: the lowest button that is down is reported, not the lowest that changed.
translate_mouse_lowest(mouse, prev) ==
  [ buttons |-> mouse.buttons,
    out |-> IF mouse.flag # "button" THEN <<>>
            ELSE << button_report(mouse.buttons \cup prev, 0, mouse.buttons \ prev = {}) >> ]

translate_mouse(mouse, prev) ==
  LET current == mouse.buttons
      pressed == current \ prev
      released == prev \ current
  IN
  CASE mouse.flag = "wheel" ->
         [ buttons |-> prev,
           out |-> <<Report(SGR_WHEEL + (IF mouse.delta < 0 THEN 1 ELSE 0), FALSE)>> ]
    [] mouse.flag = "hwheel" ->
         [ buttons |-> prev,
           out |-> <<Report(SGR_WHEEL + 2 + (IF mouse.delta >= 0 THEN 1 ELSE 0), FALSE)>> ]
    [] mouse.flag = "moved" ->
         [ buttons |-> current,
           out |-> << IF current = {} THEN Report(SGR_NO_BUTTON + SGR_MOTION, FALSE)
                      ELSE button_report(current, SGR_MOTION, FALSE) >> ]
    [] mouse.flag = "double" ->
         [ buttons |-> current,
           out |-> IF current = {} THEN <<>> ELSE <<button_report(current, 0, FALSE)>> ]
    [] mouse.flag = "button" ->
         [ buttons |-> current,
           out |-> CASE pressed # {} -> <<button_report(pressed, 0, FALSE)>>
                     [] pressed = {} /\ released # {} -> <<button_report(released, 0, TRUE)>>
                     [] OTHER -> <<>> ]

(***************************************************************************)
(* synthesize_resize: the window is measured when the record is            *)
(* translated.  A failed measurement and an empty window report nothing.   *)
(***************************************************************************)
u16(n) == IF n < 65536 THEN n ELSE 65535

window_extent(rect) ==
  [columns |-> rect.right - rect.left + 1, rows |-> rect.bottom - rect.top + 1]

is_degenerate(extent) == extent.columns <= 0 \/ extent.rows <= 0

synthesize_resize(record) ==
  LET extent == window_extent(record.window)
  IN IF ~ record.readable \/ is_degenerate(extent) THEN <<>>
     ELSE << <<"resize", u16(extent.rows), u16(extent.columns)>> >>

(***************************************************************************)
(* translate_records.                                                      *)
(***************************************************************************)
ConsoleInputReader == [pending |-> <<>>, pending_high |-> NoUnit, previous_mouse_buttons |-> {}]

translate_record(reader, record) ==
  LET mouse == translate_mouse(record, reader.previous_mouse_buttons)
  IN CASE record.type = "key" -> translate_key(reader, record)
       [] record.type = "mouse" ->
            [ reader EXCEPT !.pending = @ \o mouse.out,
                            !.previous_mouse_buttons = mouse.buttons ]
       [] record.type = "resize" -> [ reader EXCEPT !.pending = @ \o synthesize_resize(record) ]
       [] OTHER -> reader

translate_records(reader, records) == FoldLeft(translate_record, reader, records)

\* take_pending: the batch is handed over whole.
take_pending(reader) == [reader EXCEPT !.pending = <<>>]

=============================================================================
