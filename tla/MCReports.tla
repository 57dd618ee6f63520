------------------------------ MODULE MCReports ------------------------------
(***************************************************************************)
(* Codec, YamlReport and JsonSchema for TLC: two numbers, each out of one  *)
(* of the intervals and one of them no multiple of two; two strings, of    *)
(* different length; sizes and lengths with an exclusive bound and without.*)
(***************************************************************************)
EXTENDS JsonSchema, FiniteSets, SequencesExt, TLC

CONSTANTS ka, kb, empty, word,
    Numbers,         \* the integers in documents and in values
    MaxProp,         \* how deep properties are nested
    MaxCalls,        \* how many containers, restrictions and defaults are described
    MaxElements      \* elements of a container, one less of a container in it

KeysInOrder == <<ka, kb>>
OrdersOf    == [K \in SUBSET {ka, kb} |-> SelectSeq(KeysInOrder, LAMBDA k : k \in K)]
Lowest      == -1
Upto(n)     == I!Between(NoBound, I!Bound(n, TRUE))
LengthsOf   == (empty :> 0) @@ (word :> 1)
RangesGiven == {Upto(3), I!Between(I!Bound(1, FALSE), NoBound)}
SizesGiven  == {I!Between(NoBound, I!Bound(2, FALSE)), I!Singleton(1)}

-----------------------------------------------------------------------------
(***************************************************************************)
(* Documents and values of the shape of a property: at every place what is *)
(* described there, or NilDoc for what is of any other type.               *)
(***************************************************************************)
Orders(n)     == {q \in BoundedSeq(Keys, n) : IsInjective(q)}
MapsOf(None, S, n) == {at \in [Keys -> {None} \cup S] : Cardinality({k \in Keys : at[k] # None}) <= n}

\* Every function made of one of the choices for every field.
FieldProduct(p, None, Of_(_), S) ==
    FoldLeft(LAMBDA T, f : LET O == Of_(f) IN {f.key :> x @@ v : v \in T, x \in O},
             {[k \in S |-> None]}, p.fields)

RECURSIVE DocsOf(_, _)
DocsOf(p, n) ==
    LET Below == DocsOf(p.of, n - 1)
    IN  {NilDoc} \cup
        (CASE p.k = "int"    -> {Int_(x) : x \in Numbers}
           [] p.k = "str"    -> {Str_(x) : x \in Strs}
           [] p.k = "map"    -> {d \in {Map_(o, at) : o \in Orders(n), at \in MapsOf(Gone, Below, n)} :
                                    ToSet(d.order) = {k \in Keys : d.at[k] # Gone}}
           [] p.k \in {"list", "array"} -> {List_(q) : q \in BoundedSeq(Below, n)}
           [] p.k = "struct" -> {MapOfDocs(at) :
                at \in FieldProduct(p, Gone, LAMBDA f : {Gone} \cup DocsOf(f.of, n - 1), Keys)})

RECURSIVE ValuesOf(_, _)
ValuesOf(p, n) ==
    LET Below == ValuesOf(p.of, n - 1)
    IN  CASE p.k = "int"    -> Numbers
          [] p.k = "str"    -> Strs
          [] p.k = "map"    -> MapsOf(NoValue, Below, n)
          [] p.k = "list"   -> BoundedSeq(Below, n)
          [] p.k = "array"  -> [1..p.n -> Below]
          [] p.k = "struct" ->
                FieldProduct(p, NoValue, LAMBDA f : ValuesOf(f.of, n - 1) \cup (IF f.optional THEN {NoValue} ELSE {}),
                             FieldKeys(p))

MCLoads(p) == DocsOf(p, MaxElements)
MCSaves(p) == ValuesOf(p, MaxElements)

-----------------------------------------------------------------------------
(***************************************************************************)
(* The properties of few calls, and containers of them.                    *)
(***************************************************************************)
RECURSIVE DepthOf(_)
DepthOf(p) ==
    CASE p.k \in {"int", "str"} -> 0
      [] p.k = "struct" -> 1 + DepthOf(p.fields[1].of)
      [] OTHER -> 1 + DepthOf(p.of)

RECURSIVE Calls(_)
Calls(p) ==
    LET One(b) == IF b THEN 1 ELSE 0
    IN  One(p.default # NoValue) +
        (CASE p.k = "int"    -> One(p.interval # I!All) + One(p.multiple_of # 0) + One(p.with_clamp)
           [] p.k = "str"    -> One(p.length # I!All) + One(p.allowed # {})
           [] p.k = "map"    -> One(p.required # {}) + Calls(p.of)
           [] p.k = "list"   -> One(p.size # I!All) + Calls(p.of)
           [] p.k = "array"  -> Calls(p.of)
           [] p.k = "struct" -> Calls(p.fields[1].of))

\* TLC sorts a set when it counts it; a union of sets that are not sorted is slow.
Sorted(S) == IF Cardinality(S) = 0 THEN {} ELSE S

Short(S, n) == {p \in S : Calls(p) + DepthOf(p) <= n}
WithDefaults(S) ==
    Sorted(S) \cup UNION {{[p EXCEPT !.default = v] : v \in ValuesOf(p, 1)} : p \in Short(S, MaxCalls - 1)}

IntProps == {[IntProp EXCEPT !.interval = i, !.multiple_of = m, !.with_clamp = c] :
            i \in Ranges \cup {I!All}, m \in Divisors \cup {0}, c \in BOOLEAN}
StrProps == {[StrProp EXCEPT !.length = i, !.allowed = S] : i \in Sizes \cup {I!All}, S \in SUBSET Strs}

\* AsField, which asks whether what a container holds is one of Props.
FieldsOf(S) ==
    {[p EXCEPT !.linked = FALSE] : p \in {p \in S : IsContainer(p)}}
    \cup {p \in S : IsContainer(p) => Calls(p.of) = 0 /\ p.of.k # "struct"}

Maps(S)      == {[MapOf(p) EXCEPT !.required = K] : p \in S, K \in SUBSET Keys}
Lists(S)     == {[ListOf(p) EXCEPT !.size = i] : p \in S, i \in Sizes \cup {I!All}}
Arrays(S)    == {ArrayOf(p, n) : p \in S, n \in Extents}
OneField(S)  == {Struct(<<Field(ka, o, p)>>) : o \in BOOLEAN, p \in FieldsOf(S)}
TwoFields(S) == {Struct(<<p.fields[1], Field(kb, o, StrProp)>>) : o \in BOOLEAN, p \in OneField(S)}
Containers(S) ==
    Sorted(TwoFields(S)) \cup (Sorted(OneField(S)) \cup (Sorted(Maps(S)) \cup (Sorted(Lists(S)) \cup Arrays(S))))

\* No recursive function: with -coverage TLC takes a definition apart again at
\* every use of the constant Props, except the operators that are recursive.
RECURSIVE NestedUpto(_)
NestedUpto(n) ==
    IF n = 0 THEN WithDefaults(Short(IntProps \cup StrProps, MaxCalls))
    ELSE LET Below == NestedUpto(n - 1)
         IN  Sorted(WithDefaults(Short(Containers(Short(Below, MaxCalls - 1)), MaxCalls))) \cup Below

\* What is in them, too: containers in fields are not described on their own.
WithInner(S) == Sorted(S) \cup UNION {Inner(p) : p \in S}
Described == WithInner(NestedUpto(MaxProp))
DepthsOf  == [p \in Props |-> DepthOf(p)]

-----------------------------------------------------------------------------
(***************************************************************************)
(* What the constants are given: TLC evaluates these whenever the constant *)
(* is used, and the definitions that they name only once.                  *)
(***************************************************************************)
MCProps == Described
MCDepth == DepthsOf
MCKeyList == KeysInOrder
MCOrderOf == OrdersOf
MCLengths == LengthsOf
MCRanges  == RangesGiven
MCSizes   == SizesGiven
=============================================================================
