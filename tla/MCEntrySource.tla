--------------------------- MODULE MCEntrySource ---------------------------
(***************************************************************************)
(* EntrySource for TLC. Keys and handles are interchangeable: no action    *)
(* and no property names one of them, and no liveness is checked.          *)
(***************************************************************************)
EXTENDS EntrySource, TLC

Symmetry == Permutations(Keys) \cup Permutations(Handles)
=============================================================================
