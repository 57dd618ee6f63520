----------------------------- MODULE MCInterval -----------------------------
(***************************************************************************)
(* Interval for TLC: an integer type of seven values.                      *)
(***************************************************************************)
EXTENDS Interval

Lowest == -3
=============================================================================
