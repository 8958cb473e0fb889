----------------------------- MODULE MCJobControl ----------------------------
(***************************************************************************)
(* One panicking thread, one set/reset mode, the keyboard flags and raw    *)
(* mode; two tries to re-enter.                                            *)
(***************************************************************************)
EXTENDS JobControl

CONSTANTS screen

=============================================================================
