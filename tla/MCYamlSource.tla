---------------------------- MODULE MCYamlSource ----------------------------
(***************************************************************************)
(* YamlSource for TLC. Handles are interchangeable. What is saved is as    *)
(* deep as a list or a map of lists, one of them empty.                    *)
(***************************************************************************)
EXTENDS YamlSource, FiniteSetsExt, TLC

CONSTANTS ka, x

X       == Scalar(x)
MCSaves == {X, List(<<>>), List(<<X>>), List(<<X, X>>), List(<<List(<<X>>), List(<<X>>)>>),
            List(<<List(<<>>), X>>), Map(ka :> List(<<X>>))}

RECURSIVE Levels(_)
Levels(v)  == IF RefsOf(v) = {} THEN 0 ELSE 1 + Max({Levels(At(v, r)) : r \in RefsOf(v)})
MCDepth    == [v \in MCSaves |-> Levels(v)]

Symmetry == Permutations(Handles)

=============================================================================
