-------------------------- MODULE MCConsoleReadiness --------------------------
(***************************************************************************)
(* Consoles that deliver text with surrogates and records without bytes,   *)
(* or a mouse with two buttons, a change of the window among them.         *)
(***************************************************************************)
EXTENDS ConsoleReadiness

CONSTANTS MaxText, MaxMouse

Key(unit, repeat) ==
  [type |-> "key", unit |-> unit, repeat |-> repeat, down |-> TRUE, menu |-> FALSE]

Unit(class, n) == [class |-> class, n |-> n]

KeyUp == [Key(Unit("bmp", 9), 1) EXCEPT !.down = FALSE]
AltCode == [KeyUp EXCEPT !.menu = TRUE, !.unit = Unit("bmp", 3)]

Resized(right, readable) ==
  [ type |-> "resize", readable |-> readable,
    window |-> [left |-> 0, top |-> 0, right |-> right, bottom |-> 1] ]

Texts ==
  { Key(Unit("bmp", 1), 1), Key(Unit("high", 1), 1), Key(Unit("low", 2), 1) }

Others ==
  { Key(Unit("bmp", 2), 2), Key(Unit("high", 2), 2), KeyUp, AltCode, [type |-> "focus"],
    Resized(1, TRUE), Resized(-1, TRUE), Resized(1, FALSE) }

Mouse(flag, buttons) == [type |-> "mouse", flag |-> flag, buttons |-> buttons, delta |-> -1]

Mice ==
  { Mouse(flag, buttons) : flag \in {"button", "moved"}, buttons \in SUBSET {2, 8} }
    \cup {Mouse("wheel", {8}), Mouse("hwheel", {}), Mouse("double", {8})}

UpTo(n, S) == UNION { [1 .. m -> S] : m \in 0 .. n }

MCScripts ==
  UpTo(MaxText, Texts)
    \cup { <<a, other, b>> : a, b \in Texts, other \in Others }
    \cup { <<Mouse("button", {b}), Mouse("moved", {b}), Mouse("button", {})>> : b \in Button }
    \cup { mice \in UpTo(MaxMouse, Mice) : one_at_a_time(states(mice)) }

=============================================================================
