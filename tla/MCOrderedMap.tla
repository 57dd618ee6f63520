---------------------------- MODULE MCOrderedMap ----------------------------
(***************************************************************************)
(* OrderedMap for TLC: every map of three keys and two values.             *)
(***************************************************************************)
EXTENDS OrderedMap, TLC

CONSTANTS ka, kb, kc, old, new

Permuted == Permutations({ka, kb, kc})
=============================================================================
