-------------------------- MODULE MCSyntaxTokenizer --------------------------
(***************************************************************************)
(* Pastes, strings and other input of a few bytes, for small limits.       *)
(***************************************************************************)
EXTENDS SyntaxTokenizer

CONSTANTS PasteBytes, StringBytes, OtherBytes

UpTo(n, S) == UNION { [1 .. m -> S] : m \in 0 .. n }

Begun(openings, S, n) == { o \o s : o \in openings, s \in UpTo(n, S) }

MCInputs ==
  UNION {
    UpTo(OtherBytes, { "ESC", "[", "CSI", "?", "2", " ", "m", "CAN", "BEL", "C3",
                       "E2", "80", "ST", "FF" }),
    Begun({<<"ESC", "]">>, <<"DCS">>, <<"DCS", "?", "2">>, <<"APC">>},
          {"ESC", "m", "\\", "]", "CAN", "BEL", "ST", "C3"}, StringBytes),
    { <<"ESC", "[", "2", "0", "0", "~">> \o p \o s :
        p \in UpTo(PasteBytes, {"ESC", "CSI", "[", "2", "m"}),
        s \in { <<>>, <<"2", "0", "1", "~", "m">>, <<"[", "2", "0", "1", "~", "m">>,
                <<"[", "2", "0", "ESC", "[", "2", "0", "1", "~">> } } }

=============================================================================
