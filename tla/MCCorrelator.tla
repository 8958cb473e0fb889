---------------------------- MODULE MCCorrelator -----------------------------
(***************************************************************************)
(* A small instance of Correlator: three waiters, two expectations, two    *)
(* replies to the first, one to the second, and one event no query asked   *)
(* for.                                                                    *)
(***************************************************************************)
EXTENDS Correlator

CONSTANTS cursor, status, cpr1, cpr2, dsr, key

MCMatches == {<<cursor, cpr1>>, <<cursor, cpr2>>, <<status, dsr>>}

=============================================================================
