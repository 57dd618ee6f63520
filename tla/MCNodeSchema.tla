---------------------------- MODULE MCNodeSchema ----------------------------
(***************************************************************************)
(* NodeSchema for TLC: two types, each with one value.                     *)
(***************************************************************************)
EXTENDS NodeSchema, TLC

CONSTANTS nil, one

Symmetry == Permutations(Keys)

MCTypeOf == (nil :> "nil") @@ (one :> "int")
=============================================================================
