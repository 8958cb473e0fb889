------------------------- MODULE MCSessionLifecycle --------------------------
(***************************************************************************)
(* A small instance of SessionLifecycle: raw mode, the keyboard flags and  *)
(* two modes, two threads that may panic.                                  *)
(***************************************************************************)
EXTENDS SessionLifecycle

CONSTANTS cursor, screen

=============================================================================
