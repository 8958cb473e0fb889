------------------------- MODULE MCTokioQueryDriver --------------------------
(***************************************************************************)
(* A small instance of TokioQueryDriver: the query is one the probe also   *)
(* asks (the keyboard flags), before its fence.                            *)
(***************************************************************************)
EXTENDS TokioQueryDriver

CONSTANTS kitty, da1

MCOptional == <<kitty>>

=============================================================================
