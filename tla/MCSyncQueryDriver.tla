-------------------------- MODULE MCSyncQueryDriver --------------------------
(***************************************************************************)
(* One query and a probe of one reply and its fence; a colour for a string *)
(* reply, a character of two bytes, a lone Escape and a key of a sequence. *)
(***************************************************************************)
EXTENDS SyncQueryDriver

MCQuery == {"CursorPosition"}
MCOptional == <<"OscColor">>
MCFence == "PrimaryDeviceAttributes"

MCreply_of ==
  [ e \in MCQuery \cup {MCFence} \cup ToSet(MCOptional) |->
      CASE e = "CursorPosition" -> <<"ESC", "[", "m">>
        [] e = "OscColor" -> <<"ESC", "]", "ESC", "\\">>
        [] e = "PrimaryDeviceAttributes" -> <<"ESC", "[", "?", "m">> ]

MCTyped == { <<"C3", "80">>, <<"ESC">>, <<"CSI", "2", "~">> }

=============================================================================
