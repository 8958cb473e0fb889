----------------------------- MODULE MCTypedInput -----------------------------
(***************************************************************************)
(* Inputs of a few items: characters, keys, halves of a UTF-16 pair,       *)
(* pastes of a few bytes, a title and a reply.                             *)
(***************************************************************************)
EXTENDS TypedInput

CONSTANTS MaxItems, MaxPasted

UpTo(n, S) == UNION { [1 .. m -> S] : m \in 0 .. n }

Paste(text) == <<"CSI", "2", "0", "0", "~">> \o text \o <<"CSI", "2", "0", "1", "~">>

Items ==
  { <<"m">>, <<"C3", "80">>, <<"CR">>, <<"ESC">>, <<"ESC", "[", "2", "~">>,
    <<"CSI", "high", "_">>, <<"CSI", "low", "_">>, <<"CSI", "?", "1", "m">>,
    <<"ESC", "]", "m", "ESC", "\\">> }

Pastes == { Paste(text) : text \in UpTo(MaxPasted, {"m", "CR", "LF"}) }

MCInputs ==
  { FlattenSeq(items) : items \in UpTo(MaxItems, Items) }
    \cup { paste \o after : paste \in Pastes, after \in {<<"m">>, Paste(<<"LF">>)} }

=============================================================================
