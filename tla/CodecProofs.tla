---------------------------- MODULE CodecProofs ----------------------------
(***************************************************************************)
(* What Codec promises, and what the YAML report and the JSON Schema       *)
(* report of the same program do, for any strings, limits of integers,     *)
(* properties and documents: however deep they are nested and however long *)
(* they are. The walks over properties are recursive functions;            *)
(* RankRecursion says that there are such functions, and the depth of a    *)
(* property is its rank; of a schema, the least depth of a property that   *)
(* has it.                                                                 *)
(***************************************************************************)
EXTENDS JsonSchema, TLAPS

-----------------------------------------------------------------------------
(***************************************************************************)
(* What properties are made of                                             *)
(***************************************************************************)
LEMMA SeqsAre ==
    \A A : \A s \in Seq(A) : Len(s) \in Nat /\ DOMAIN s = 1..Len(s) /\ \A i \in 1..Len(s) : s[i] \in A
OBVIOUS

Kinds == {"int", "str", "map", "list", "array", "struct"}

LEMMA PropsAre ==
    \A p \in Props : IsProp(p) /\ p.k \in Kinds /\ Depth[p] \in Nat /\ Depth[p] <= MaxDepth
<1>1. \A p \in Props : IsProp(p) /\ Depth[p] \in 0..MaxDepth
  BY PropsAssumption
<1>2. MaxDepth \in Nat
  BY BoundsAssumption
<1>3. \A p : IsProp(p) => p.k \in Kinds
  BY DEF IsProp, Kinds
<1> QED BY <1>1, <1>2, <1>3

LEMMA InnerAre ==
    \A p \in Props : \A q \in Inner(p) : q \in Props /\ Depth[q] < Depth[p]
BY PropsAssumption

LEMMA ContainersHold ==
    \A p \in Props : IsContainer(p) => p.of \in Inner(p) /\ p.of \in Props /\ Depth[p.of] < Depth[p]
BY InnerAre DEF Inner

LEMMA FieldsAre ==
    \A p \in Props : p.k = "struct" =>
        /\ p.fields # <<>> /\ Len(p.fields) \in Nat /\ DOMAIN p.fields = 1..Len(p.fields)
        /\ \A i \in DOMAIN p.fields :
              /\ p.fields[i] \in Fields(p) /\ p.fields[i].of \in Inner(p)
              /\ p.fields[i].of \in Props /\ Depth[p.fields[i].of] < Depth[p]
              /\ p.fields[i].key \in Keys /\ p.fields[i].key \in FieldKeys(p)
              /\ p.fields[i].optional \in BOOLEAN
        /\ \A i, j \in DOMAIN p.fields : p.fields[i].key = p.fields[j].key => i = j
<1> SUFFICES ASSUME NEW p \in Props, p.k = "struct"
             PROVE  /\ p.fields # <<>> /\ Len(p.fields) \in Nat /\ DOMAIN p.fields = 1..Len(p.fields)
                    /\ \A i \in DOMAIN p.fields :
                          /\ p.fields[i] \in Fields(p) /\ p.fields[i].of \in Inner(p)
                          /\ p.fields[i].of \in Props /\ Depth[p.fields[i].of] < Depth[p]
                          /\ p.fields[i].key \in Keys /\ p.fields[i].key \in FieldKeys(p)
                          /\ p.fields[i].optional \in BOOLEAN
                    /\ \A i, j \in DOMAIN p.fields : p.fields[i].key = p.fields[j].key => i = j
  OBVIOUS
<1>1. /\ p.fields # <<>> /\ p.fields \in Seq([key: Keys, optional: BOOLEAN, of: Props])
      /\ \A i, j \in DOMAIN p.fields : p.fields[i].key = p.fields[j].key => i = j
  BY PropsAre DEF IsProp
<1>2. \A i \in DOMAIN p.fields :
         /\ p.fields[i] \in Fields(p) /\ p.fields[i].of \in Inner(p)
         /\ p.fields[i].key \in FieldKeys(p)
  BY DEF Fields, FieldKeys, Inner, IsContainer
<1>3. /\ Len(p.fields) \in Nat /\ DOMAIN p.fields = 1..Len(p.fields)
      /\ \A i \in DOMAIN p.fields : p.fields[i] \in [key: Keys, optional: BOOLEAN, of: Props]
  <2> DEFINE A == [key: Keys, optional: BOOLEAN, of: Props]
  <2>1. p.fields \in Seq(A)
    BY <1>1
  <2> HIDE DEF A
  <2>2. /\ Len(p.fields) \in Nat /\ DOMAIN p.fields = 1..Len(p.fields)
        /\ \A i \in DOMAIN p.fields : p.fields[i] \in A
    BY <2>1, SeqsAre
  <2> QED BY <2>2 DEF A
<1>4. \A i \in DOMAIN p.fields : p.fields[i].key \in Keys /\ p.fields[i].optional \in BOOLEAN
  BY <1>3
<1>5. Len(p.fields) \in Nat /\ DOMAIN p.fields = 1..Len(p.fields)
  BY <1>3
<1> QED BY <1>1, <1>2, <1>4, <1>5, InnerAre

\* A field is found by its key.
LEMMA FieldsByKey ==
    \A p \in Props : p.k = "struct" =>
        /\ \A f \in Fields(p) :
              /\ f.key \in FieldKeys(p) /\ f.key \in Keys /\ FieldAt(p, f.key) = f
              /\ f.of \in Inner(p) /\ f.of \in Props /\ Depth[f.of] < Depth[p] /\ f.optional \in BOOLEAN
        /\ \A k \in FieldKeys(p) : /\ FieldAt(p, k) \in Fields(p) /\ FieldAt(p, k).key = k
                                   /\ FieldIndex(p, k) \in DOMAIN p.fields
<1> SUFFICES ASSUME NEW p \in Props, p.k = "struct"
             PROVE  /\ \A f \in Fields(p) :
                          /\ f.key \in FieldKeys(p) /\ f.key \in Keys /\ FieldAt(p, f.key) = f
                          /\ f.of \in Inner(p) /\ f.of \in Props /\ Depth[f.of] < Depth[p]
                          /\ f.optional \in BOOLEAN
                    /\ \A k \in FieldKeys(p) : /\ FieldAt(p, k) \in Fields(p) /\ FieldAt(p, k).key = k
                                               /\ FieldIndex(p, k) \in DOMAIN p.fields
  OBVIOUS
<1>1. \A f, g \in Fields(p) : f.key = g.key => f = g
  BY FieldsAre DEF Fields
<1>2. \A k \in FieldKeys(p) : /\ FieldAt(p, k) \in Fields(p) /\ FieldAt(p, k).key = k
                               /\ FieldIndex(p, k) \in DOMAIN p.fields
  <2> SUFFICES ASSUME NEW k \in FieldKeys(p)
               PROVE  /\ FieldAt(p, k) \in Fields(p) /\ FieldAt(p, k).key = k
                      /\ FieldIndex(p, k) \in DOMAIN p.fields
    OBVIOUS
  <2>1. \E i \in DOMAIN p.fields : p.fields[i].key = k
    BY DEF FieldKeys, Fields
  <2>2. FieldIndex(p, k) \in DOMAIN p.fields /\ p.fields[FieldIndex(p, k)].key = k
    BY <2>1 DEF FieldIndex
  <2> QED BY <2>2 DEF FieldAt, Fields
<1>3. \A f \in Fields(p) : f.key \in FieldKeys(p)
  BY DEF FieldKeys
<1>4. \A f \in Fields(p) : FieldAt(p, f.key) = f
  BY <1>1, <1>2, <1>3
<1>5. \A f \in Fields(p) :
         /\ f.key \in Keys /\ f.optional \in BOOLEAN
         /\ f.of \in Inner(p) /\ f.of \in Props /\ Depth[f.of] < Depth[p]
  BY FieldsAre DEF Fields
<1> QED BY <1>2, <1>3, <1>4, <1>5

-----------------------------------------------------------------------------
(***************************************************************************)
(* The walks are what they are defined to be                               *)
(***************************************************************************)
PartsDef(f, p) == {p} \cup UNION {f[q] : q \in Inner(p)}
RParts == INSTANCE RankRecursion WITH S <- Props, Rank <- Depth, Def <- PartsDef

\* A rank for all: the depth of a property.
LEMMA PropsRanked == RParts!Ranked
BY PropsAre DEF RParts!Ranked

LEMMA PartsAre == \A p \in Props : Parts[p] = {p} \cup UNION {Parts[q] : q \in Inner(p)}
<1>1. RParts!Local
  BY InnerAre DEF RParts!Local, PartsDef
<1>2. RParts!HasSolution
  BY <1>1, PropsRanked, RParts!RankRecursion
<1>3. Parts = [p \in Props |-> PartsDef(Parts, p)]
  BY <1>2 DEF RParts!HasSolution, RParts!Solves, PartsDef, Parts
<1> QED BY <1>3 DEF PartsDef

(***************************************************************************)
(* Sequences of sets                                                       *)
(***************************************************************************)
Numbered == [n \in Nat |-> n]
LevelDef(f, n) == DocsOver(IF n = 0 THEN {Gone} ELSE f[n - 1])
RLevel == INSTANCE RankRecursion WITH S <- Nat, Rank <- Numbered, Def <- LevelDef

LEMMA NatInduction ==
    \A T : (\A n \in Nat : (\A m \in Nat : m < n => m \in T) => n \in T) => Nat \subseteq T
<1>1. RLevel!Ranked
  BY DEF RLevel!Ranked, Numbered
<1>2. RLevel!Induction
  BY <1>1, RLevel!RankInduction
<1>3. \A n \in Nat : Numbered[n] = n
  BY DEF Numbered
<1> QED BY <1>2, <1>3 DEF RLevel!Induction

LEMMA UnionsHold ==
    ASSUME NEW s, Len(s) \in Nat
    PROVE  \A i \in 1..Len(s) : s[i] \subseteq UnionOf(s)
<1> DEFINE Upto(f, i) == IF i = 0 THEN {} ELSE f[i - 1] \cup s[i]
           g == CHOOSE f : f = [i \in 0..Len(s) |-> Upto(f, i)]
           h == [i \in 0..Len(s) |-> UNION {s[j] : j \in 1..i}]
           T == {n \in Nat : n <= Len(s) => \A j \in 1..n : s[j] \subseteq g[n]}
<1>1. UnionOf(s) = g[Len(s)]
  BY DEF UnionOf
<1>2. \A i \in 0..Len(s) : h[i] = Upto(h, i)
  <2> SUFFICES ASSUME NEW i \in 0..Len(s) PROVE h[i] = Upto(h, i)
    OBVIOUS
  <2>1. CASE i = 0
    BY <2>1
  <2>2. CASE i # 0
    <3>1. i - 1 \in 0..Len(s) /\ 1..i = 1..(i - 1) \cup {i}
      BY <2>2
    <3>2. h[i] = UNION {s[j] : j \in 1..i} /\ h[i - 1] = UNION {s[j] : j \in 1..(i - 1)}
      BY <3>1
    <3> QED BY <2>2, <3>1, <3>2
  <2> QED BY <2>1, <2>2
<1>3. h = [i \in 0..Len(s) |-> Upto(h, i)]
  BY <1>2
<1>4. g = [i \in 0..Len(s) |-> Upto(g, i)]
  <2> HIDE DEF h, Upto
  <2> QED BY <1>3
<1>5. \A i \in 0..Len(s) : g[i] = Upto(g, i)
  <2> HIDE DEF g, Upto
  <2> QED BY <1>4
<1> HIDE DEF g
<1>6. ASSUME NEW n \in Nat, \A m \in Nat : m < n => m \in T
      PROVE  n \in T
  <2> SUFFICES ASSUME n <= Len(s), NEW j \in 1..n PROVE s[j] \subseteq g[n]
    OBVIOUS
  <2>1. g[n] = g[n - 1] \cup s[n]
    <3>1. n \in 0..Len(s) /\ n # 0
      OBVIOUS
    <3> QED BY <1>5, <3>1
  <2>2. CASE j = n
    BY <2>1, <2>2
  <2>3. CASE j # n
    <3>1. n - 1 \in Nat /\ n - 1 < n /\ j \in 1..(n - 1)
      BY <2>3
    <3> QED BY <1>6, <2>1, <3>1
  <2> QED BY <2>2, <2>3
<1>7. Nat \subseteq T
  <2> HIDE DEF T
  <2> QED BY <1>6, NatInduction
<1> QED BY <1>1, <1>7

-----------------------------------------------------------------------------
(***************************************************************************)
(* Values                                                                  *)
(***************************************************************************)
\* A struct has a value for every field that is not optional.
IsStruct(p, F, v) ==
    /\ v = [k \in FieldKeys(p) |-> v[k]]
    /\ \A f \in Fields(p) : IF v[f.key] = NoValue THEN f.optional ELSE v[f.key] \in F[f.of]

LEMMA StructsAre ==
    \A p \in Props : \A F : p.k = "struct" => \A v : v \in StructsOf(p, F) <=> IsStruct(p, F, v)
<1> SUFFICES ASSUME NEW p \in Props, NEW F, p.k = "struct", NEW v
             PROVE  v \in StructsOf(p, F) <=> IsStruct(p, F, v)
  OBVIOUS
<1> DEFINE s == [i \in DOMAIN p.fields |-> F[p.fields[i].of]]
           All == {NoValue} \cup UnionOf(s)
<1>1. StructsOf(p, F) =
        {w \in [FieldKeys(p) -> All] :
            \A f \in Fields(p) : IF w[f.key] = NoValue THEN f.optional ELSE w[f.key] \in F[f.of]}
  BY DEF StructsOf
<1>2. Len(p.fields) \in Nat /\ DOMAIN p.fields = 1..Len(p.fields)
  BY FieldsAre
<1>3. Len(s) = Len(p.fields)
  BY <1>2
<1>4. \A f \in Fields(p) : F[f.of] \subseteq All
  <2>1. \A i \in 1..Len(s) : s[i] \subseteq UnionOf(s)
    <3>1. Len(s) \in Nat
      BY <1>2, <1>3
    <3> HIDE DEF s
    <3> QED BY <3>1, UnionsHold
  <2>2. \A i \in DOMAIN p.fields : F[p.fields[i].of] \subseteq UnionOf(s)
    BY <1>2, <1>3, <2>1
  <2> HIDE DEF s
  <2> QED BY <2>2 DEF Fields
<1> HIDE DEF s, All
<1>5. ASSUME v \in StructsOf(p, F) PROVE IsStruct(p, F, v)
  BY <1>1, <1>5 DEF IsStruct
<1>6. ASSUME IsStruct(p, F, v) PROVE v \in StructsOf(p, F)
  <2>1. \A k \in FieldKeys(p) : v[k] \in All
    <3> SUFFICES ASSUME NEW k \in FieldKeys(p) PROVE v[k] \in All
      OBVIOUS
    <3>1. FieldAt(p, k) \in Fields(p) /\ FieldAt(p, k).key = k
      BY FieldsByKey
    <3>2. CASE v[k] = NoValue
      BY <3>2 DEF All
    <3>3. CASE v[k] # NoValue
      BY <1>4, <1>6, <3>1, <3>3 DEF IsStruct
    <3> QED BY <3>2, <3>3
  <2>2. v \in [FieldKeys(p) -> All]
    BY <1>6, <2>1 DEF IsStruct
  <2> QED BY <1>1, <1>6, <2>2 DEF IsStruct
<1> QED BY <1>5, <1>6

\* Structs are made of the values of their fields.
LEMMA StructsOfFields ==
    \A p \in Props : \A f, g : p.k = "struct" /\ (\A q \in Inner(p) : f[q] = g[q]) =>
        StructsOf(p, f) = StructsOf(p, g)
<1> SUFFICES ASSUME NEW p \in Props, NEW f, NEW g, p.k = "struct", \A q \in Inner(p) : f[q] = g[q]
             PROVE  \A v : v \in StructsOf(p, f) <=> v \in StructsOf(p, g)
  OBVIOUS
<1>1. \A x \in Fields(p) : f[x.of] = g[x.of]
  BY FieldsByKey
<1>2. \A v : IsStruct(p, f, v) <=> IsStruct(p, g, v)
  BY <1>1 DEF IsStruct
<1> QED BY <1>2, StructsAre

ValuesDef(f, p) ==
    CASE p.k = "int"    -> I!Ints
      [] p.k = "str"    -> Strs
      [] p.k = "map"    -> [Keys -> {NoValue} \cup f[p.of]]
      [] p.k = "list"   -> Seq(f[p.of])
      [] p.k = "array"  -> [1..p.n -> f[p.of]]
      [] p.k = "struct" -> StructsOf(p, f)
RValues == INSTANCE RankRecursion WITH S <- Props, Rank <- Depth, Def <- ValuesDef

MeetingDef(f, p) ==
    CASE p.k = "int"    -> {n \in I!Ints : IsDivisible(p, n) /\ I!Contains(p.interval, n)}
      [] p.k = "str"    -> {s \in Strs : StrOk(p, s)}
      [] p.k = "map"    -> {v \in [Keys -> {NoValue} \cup f[p.of]] : \A k \in p.required : v[k] # NoValue}
      [] p.k = "list"   -> {v \in Seq(f[p.of]) : I!Contains(p.size, Len(v))}
      [] p.k = "array"  -> [1..p.n -> f[p.of]]
      [] p.k = "struct" -> StructsOf(p, f)
RMeeting == INSTANCE RankRecursion WITH S <- Props, Rank <- Depth, Def <- MeetingDef

FilledDef(f, p) ==
    CASE p.k = "int"    -> I!Ints
      [] p.k = "str"    -> Strs
      [] p.k = "map"    -> {v \in [Keys -> {NoValue} \cup f[p.of]] : \E k \in Keys : v[k] # NoValue}
      [] p.k = "list"   -> {v \in Seq(f[p.of]) : v # <<>>}
      [] p.k = "array"  -> {v \in [1..p.n -> f[p.of]] : v # <<>>}
      [] p.k = "struct" -> StructsOf(p, f)
RFilled == INSTANCE RankRecursion WITH S <- Props, Rank <- Depth, Def <- FilledDef

LEMMA ValuesUnfold == \A p \in Props : Values[p] = ValuesDef(Values, p)
<1>1. RValues!Ranked
  BY PropsAre DEF RValues!Ranked
<1>2. RValues!Local
  <2> SUFFICES ASSUME NEW f, NEW g, NEW p \in Props,
                      \A q \in Props : Depth[q] < Depth[p] => f[q] = g[q]
               PROVE  ValuesDef(f, p) = ValuesDef(g, p)
    BY DEF RValues!Local
  <2>1. \A q \in Inner(p) : f[q] = g[q]
    BY InnerAre
  <2>2. CASE IsContainer(p)
    <3>1. f[p.of] = g[p.of]
      BY <2>1, <2>2, ContainersHold
    <3> QED BY <2>2, <3>1 DEF ValuesDef, IsContainer
  <2>3. CASE p.k = "struct"
    <3>1. StructsOf(p, f) = StructsOf(p, g)
      BY <2>1, <2>3, StructsOfFields
    <3> QED BY <2>3, <3>1 DEF ValuesDef
  <2>4. CASE p.k \in {"int", "str"}
    BY <2>4 DEF ValuesDef
  <2> QED BY <2>2, <2>3, <2>4, PropsAre DEF IsContainer, Kinds
<1>3. RValues!HasSolution
  BY <1>1, <1>2, RValues!RankRecursion
<1>4. Values = [p \in Props |-> ValuesDef(Values, p)]
  BY <1>3 DEF RValues!HasSolution, RValues!Solves, ValuesDef, Values
<1> QED BY <1>4

LEMMA MeetingUnfold == \A p \in Props : Meeting[p] = MeetingDef(Meeting, p)
<1>1. RMeeting!Ranked
  BY PropsAre DEF RMeeting!Ranked
<1>2. RMeeting!Local
  <2> SUFFICES ASSUME NEW f, NEW g, NEW p \in Props,
                      \A q \in Props : Depth[q] < Depth[p] => f[q] = g[q]
               PROVE  MeetingDef(f, p) = MeetingDef(g, p)
    BY DEF RMeeting!Local
  <2>1. \A q \in Inner(p) : f[q] = g[q]
    BY InnerAre
  <2>2. CASE IsContainer(p)
    <3>1. f[p.of] = g[p.of]
      BY <2>1, <2>2, ContainersHold
    <3> QED BY <2>2, <3>1 DEF MeetingDef, IsContainer
  <2>3. CASE p.k = "struct"
    <3>1. StructsOf(p, f) = StructsOf(p, g)
      BY <2>1, <2>3, StructsOfFields
    <3> QED BY <2>3, <3>1 DEF MeetingDef
  <2>4. CASE p.k \in {"int", "str"}
    BY <2>4 DEF MeetingDef
  <2> QED BY <2>2, <2>3, <2>4, PropsAre DEF IsContainer, Kinds
<1>3. RMeeting!HasSolution
  BY <1>1, <1>2, RMeeting!RankRecursion
<1>4. Meeting = [p \in Props |-> MeetingDef(Meeting, p)]
  BY <1>3 DEF RMeeting!HasSolution, RMeeting!Solves, MeetingDef, Meeting
<1> QED BY <1>4

LEMMA FilledUnfold == \A p \in Props : Filled[p] = FilledDef(Filled, p)
<1>1. RFilled!Ranked
  BY PropsAre DEF RFilled!Ranked
<1>2. RFilled!Local
  <2> SUFFICES ASSUME NEW f, NEW g, NEW p \in Props,
                      \A q \in Props : Depth[q] < Depth[p] => f[q] = g[q]
               PROVE  FilledDef(f, p) = FilledDef(g, p)
    BY DEF RFilled!Local
  <2>1. \A q \in Inner(p) : f[q] = g[q]
    BY InnerAre
  <2>2. CASE IsContainer(p)
    <3>1. f[p.of] = g[p.of]
      BY <2>1, <2>2, ContainersHold
    <3> QED BY <2>2, <3>1 DEF FilledDef, IsContainer
  <2>3. CASE p.k = "struct"
    <3>1. StructsOf(p, f) = StructsOf(p, g)
      BY <2>1, <2>3, StructsOfFields
    <3> QED BY <2>3, <3>1 DEF FilledDef
  <2>4. CASE p.k \in {"int", "str"}
    BY <2>4 DEF FilledDef
  <2> QED BY <2>2, <2>3, <2>4, PropsAre DEF IsContainer, Kinds
<1>3. RFilled!HasSolution
  BY <1>1, <1>2, RFilled!RankRecursion
<1>4. Filled = [p \in Props |-> FilledDef(Filled, p)]
  BY <1>3 DEF RFilled!HasSolution, RFilled!Solves, FilledDef, Filled
<1> QED BY <1>4


LEMMA LevelUnfold == \A n \in Nat : Level[n] = LevelDef(Level, n)
<1>1. RLevel!Ranked
  BY DEF RLevel!Ranked, Numbered
<1>2. RLevel!Local
  <2> SUFFICES ASSUME NEW f, NEW g, NEW n \in Nat,
                      \A m \in Nat : Numbered[m] < Numbered[n] => f[m] = g[m]
               PROVE  LevelDef(f, n) = LevelDef(g, n)
    BY DEF RLevel!Local
  <2>1. n # 0 => f[n - 1] = g[n - 1]
    BY DEF Numbered
  <2> QED BY <2>1 DEF LevelDef
<1>3. RLevel!HasSolution
  BY <1>1, <1>2, RLevel!RankRecursion
<1>4. Level = [n \in Nat |-> LevelDef(Level, n)]
  BY <1>3 DEF RLevel!HasSolution, RLevel!Solves, LevelDef, Level
<1> QED BY <1>4

-----------------------------------------------------------------------------
(***************************************************************************)
(* ok(), decodeFrom() and encodeInto()                                     *)
(***************************************************************************)
OkDef(f, p)     == [d \in Docs |-> OkHere(f, p, d)]
ROk     == INSTANCE RankRecursion WITH S <- Props, Rank <- Depth, Def <- OkDef
DecodeDef(f, p) == [d \in Docs |-> DecodeHere(f, p, d)]
RDecode == INSTANCE RankRecursion WITH S <- Props, Rank <- Depth, Def <- DecodeDef
EncodeDef(f, p) == [v \in Values[p] |-> EncodeHere(f, p, v)]
REncode == INSTANCE RankRecursion WITH S <- Props, Rank <- Depth, Def <- EncodeDef

LEMMA OkIsLocal ==
    \A f, g : \A p \in Props : (\A q \in Inner(p) : f[q] = g[q]) =>
        \A d : OkHere(f, p, d) = OkHere(g, p, d)
<1> SUFFICES ASSUME NEW f, NEW g, NEW p \in Props, \A q \in Inner(p) : f[q] = g[q], NEW d
             PROVE  OkHere(f, p, d) = OkHere(g, p, d)
  OBVIOUS
<1>1. \A q \in Inner(p) : \A e, b : OkWith(f, q, e, b) = OkWith(g, q, e, b)
  BY DEF OkWith
<1>2. CASE IsContainer(p)
  <2>1. p.of \in Inner(p)
    BY <1>2, ContainersHold
  <2>2. ListOk(f, p, d) = ListOk(g, p, d)
    BY <1>1, <2>1 DEF ListOk
  <2>3. ArrayOk(f, p, d) = ArrayOk(g, p, d)
    BY <1>1, <2>1 DEF ArrayOk
  <2> QED BY <1>2, <2>2, <2>3 DEF OkHere, IsContainer
<1>3. CASE p.k = "struct"
  <2>1. StructOk(f, p, d) = StructOk(g, p, d)
    BY <1>1, <1>3, FieldsByKey DEF StructOk
  <2> QED BY <1>3, <2>1 DEF OkHere
<1>4. CASE p.k \in {"int", "str"}
  BY <1>4 DEF OkHere
<1> QED BY <1>2, <1>3, <1>4, PropsAre DEF IsContainer, Kinds

LEMMA OkUnfold == \A p \in Props : \A d \in Docs : OkAt[p][d] = OkHere(OkAt, p, d)
<1>1. ROk!Ranked
  BY PropsAre DEF ROk!Ranked
<1>2. ROk!Local
  <2> SUFFICES ASSUME NEW f, NEW g, NEW p \in Props,
                      \A q \in Props : Depth[q] < Depth[p] => f[q] = g[q]
               PROVE  OkDef(f, p) = OkDef(g, p)
    BY DEF ROk!Local
  <2>1. \A d : OkHere(f, p, d) = OkHere(g, p, d)
    BY InnerAre, OkIsLocal
  <2> QED BY <2>1 DEF OkDef
<1>3. ROk!HasSolution
  BY <1>1, <1>2, ROk!RankRecursion
<1>4. OkAt = [p \in Props |-> OkDef(OkAt, p)]
  BY <1>3 DEF ROk!HasSolution, ROk!Solves, OkDef, OkAt
<1>5. \A p \in Props : OkAt[p] = OkDef(OkAt, p)
  BY <1>4
<1> QED BY <1>5 DEF OkDef

LEMMA DecodeIsLocal ==
    \A f, g : \A p \in Props : (\A q \in Inner(p) : f[q] = g[q]) =>
        \A d : DecodeHere(f, p, d) = DecodeHere(g, p, d)
<1> SUFFICES ASSUME NEW f, NEW g, NEW p \in Props, \A q \in Inner(p) : f[q] = g[q], NEW d
             PROVE  DecodeHere(f, p, d) = DecodeHere(g, p, d)
  OBVIOUS
<1> SUFFICES DecodeRaw(f, p, d) = DecodeRaw(g, p, d)
  BY DEF DecodeHere
<1>1. CASE IsContainer(p)
  <2>1. f[p.of] = g[p.of]
    BY <1>1, ContainersHold
  <2>2. MapDecode(f, p, d) = MapDecode(g, p, d)
    BY <2>1 DEF MapDecode
  <2>3. ElementsDecode(f, p, d) = ElementsDecode(g, p, d)
    BY <2>1 DEF ElementsDecode
  <2> QED BY <1>1, <2>2, <2>3 DEF DecodeRaw, ListDecode, ArrayDecode, IsContainer
<1>2. CASE p.k = "struct"
  <2>1. \A i \in DOMAIN p.fields : f[p.fields[i].of] = g[p.fields[i].of]
    BY <1>2, FieldsAre
  <2>2. \A i \in DOMAIN p.fields : FieldDecode(f, p.fields[i], d) = FieldDecode(g, p.fields[i], d)
    BY <2>1 DEF FieldDecode
  <2> DEFINE Got(h, i) == FieldDecode(h, p.fields[i], d)
             Passes(h, i) == Got(h, i).ok \/ p.fields[i].optional
             LookedAt(h, i) == \A j \in 1..(i - 1) : Passes(h, j)
             At(h, i) == IF LookedAt(h, i) THEN Got(h, i).value ELSE Member(p.fields[i])
             Value(h) == [k \in FieldKeys(p) |-> At(h, FieldIndex(p, k))]
  <2>3. \A i \in DOMAIN p.fields : Passes(f, i) = Passes(g, i)
    BY <2>2
  <2>4. \A i \in DOMAIN p.fields : LookedAt(f, i) = LookedAt(g, i)
    <3> HIDE DEF Passes
    <3>1. \A i \in DOMAIN p.fields : \A j \in 1..(i - 1) : j \in DOMAIN p.fields
      BY <1>2, FieldsAre
    <3> QED BY <2>3, <3>1
  <2>5. \A i \in DOMAIN p.fields : At(f, i) = At(g, i)
    BY <2>2, <2>4
  <2>6. Value(f) = Value(g)
    <3> HIDE DEF At
    <3> QED BY <1>2, <2>5, FieldsByKey
  <2>7. \A h : StructDecode(h, p, d) = Decoded(\A i \in DOMAIN p.fields : Passes(h, i), Value(h))
    BY DEF StructDecode
  <2>8. (\A i \in DOMAIN p.fields : Passes(f, i)) = (\A i \in DOMAIN p.fields : Passes(g, i))
    BY <2>3
  <2> HIDE DEF Value, Passes
  <2>9. StructDecode(f, p, d) = StructDecode(g, p, d)
    BY <2>6, <2>7, <2>8
  <2> QED BY <1>2, <2>9 DEF DecodeRaw
<1>3. CASE p.k \in {"int", "str"}
  BY <1>3 DEF DecodeRaw
<1> QED BY <1>1, <1>2, <1>3, PropsAre DEF IsContainer, Kinds

LEMMA DecodeUnfold == \A p \in Props : \A d \in Docs : DecodeAt[p][d] = DecodeHere(DecodeAt, p, d)
<1>1. RDecode!Ranked
  BY PropsAre DEF RDecode!Ranked
<1>2. RDecode!Local
  <2> SUFFICES ASSUME NEW f, NEW g, NEW p \in Props,
                      \A q \in Props : Depth[q] < Depth[p] => f[q] = g[q]
               PROVE  DecodeDef(f, p) = DecodeDef(g, p)
    BY DEF RDecode!Local
  <2>1. \A d : DecodeHere(f, p, d) = DecodeHere(g, p, d)
    BY InnerAre, DecodeIsLocal
  <2> QED BY <2>1 DEF DecodeDef
<1>3. RDecode!HasSolution
  BY <1>1, <1>2, RDecode!RankRecursion
<1>4. DecodeAt = [p \in Props |-> DecodeDef(DecodeAt, p)]
  BY <1>3 DEF RDecode!HasSolution, RDecode!Solves, DecodeDef, DecodeAt
<1>5. \A p \in Props : DecodeAt[p] = DecodeDef(DecodeAt, p)
  BY <1>4
<1> QED BY <1>5 DEF DecodeDef

LEMMA EncodeIsLocal ==
    \A f, g : \A p \in Props : (\A q \in Inner(p) : f[q] = g[q]) =>
        \A v : EncodeHere(f, p, v) = EncodeHere(g, p, v)
<1> SUFFICES ASSUME NEW f, NEW g, NEW p \in Props, \A q \in Inner(p) : f[q] = g[q], NEW v
             PROVE  EncodeHere(f, p, v) = EncodeHere(g, p, v)
  OBVIOUS
<1>1. CASE IsContainer(p)
  <2>1. f[p.of] = g[p.of]
    BY <1>1, ContainersHold
  <2>2. MapEncode(f, p, v) = MapEncode(g, p, v)
    BY <2>1 DEF MapEncode
  <2>3. ElementsEncode(f, p, v) = ElementsEncode(g, p, v)
    BY <2>1 DEF ElementsEncode
  <2> QED BY <1>1, <2>2, <2>3 DEF EncodeHere, IsContainer
<1>2. CASE p.k = "struct"
  <2>1. \A k \in FieldKeys(p) : f[FieldAt(p, k).of] = g[FieldAt(p, k).of]
    BY <1>2, FieldsByKey
  <2> DEFINE At(h) == [k \in Keys |->
                         IF k \notin FieldKeys(p) \/ v[k] = NoValue THEN Gone ELSE h[FieldAt(p, k).of][v[k]]]
  <2>2. At(f) = At(g)
    BY <2>1
  <2>3. StructEncode(f, p, v) = MapOfDocs(At(f)) /\ StructEncode(g, p, v) = MapOfDocs(At(g))
    BY DEF StructEncode
  <2> HIDE DEF At
  <2>4. StructEncode(f, p, v) = StructEncode(g, p, v)
    BY <2>2, <2>3
  <2> QED BY <1>2, <2>4 DEF EncodeHere
<1>3. CASE p.k \in {"int", "str"}
  BY <1>3 DEF EncodeHere
<1> QED BY <1>1, <1>2, <1>3, PropsAre DEF IsContainer, Kinds

LEMMA EncodeUnfold == \A p \in Props : \A v \in Values[p] : EncodeAt[p][v] = EncodeHere(EncodeAt, p, v)
<1>1. REncode!Ranked
  BY PropsAre DEF REncode!Ranked
<1>2. REncode!Local
  <2> SUFFICES ASSUME NEW f, NEW g, NEW p \in Props,
                      \A q \in Props : Depth[q] < Depth[p] => f[q] = g[q]
               PROVE  EncodeDef(f, p) = EncodeDef(g, p)
    BY DEF REncode!Local
  <2>1. \A v : EncodeHere(f, p, v) = EncodeHere(g, p, v)
    BY InnerAre, EncodeIsLocal
  <2> QED BY <2>1 DEF EncodeDef
<1>3. REncode!HasSolution
  BY <1>1, <1>2, REncode!RankRecursion
<1>4. EncodeAt = [p \in Props |-> EncodeDef(EncodeAt, p)]
  BY <1>3 DEF REncode!HasSolution, REncode!Solves, EncodeDef, EncodeAt
<1>5. \A p \in Props : EncodeAt[p] = EncodeDef(EncodeAt, p)
  BY <1>4
<1> QED BY <1>5 DEF EncodeDef

-----------------------------------------------------------------------------
(***************************************************************************)
(* Documents                                                               *)
(***************************************************************************)
IsMap(d, Below) ==
    /\ d = Map_(d.order, d.at) /\ d.order \in Seq(Keys) /\ d.at \in [Keys -> Below]
    /\ Enumerates(d.order, {k \in Keys : d.at[k] # Gone})
IsList(d, Below) ==
    /\ d = List_(d.items) /\ d.items \in Seq(Below)
    /\ d.items # <<>> => d.items[Len(d.items)] # Gone

LEMMA DocsOverAre ==
    ASSUME NEW Below, NEW d \in DocsOver(Below)
    PROVE  /\ d.t \in {"gone", "nil", "int", "str", "map", "list"}
           /\ d.t = "gone" => d = Gone
           /\ d.t = "nil" => d = NilDoc
           /\ d.t = "int" => d.value \in I!Ints /\ d = Int_(d.value)
           /\ d.t = "str" => d.value \in Strs /\ d = Str_(d.value)
           /\ d.t = "map" => IsMap(d, Below)
           /\ d.t = "list" => IsList(d, Below)
<1>1. CASE d \in {Gone, NilDoc}
  BY <1>1 DEF Gone, NilDoc
<1>2. CASE d \in [t : {"int"}, value : I!Ints]
  BY <1>2 DEF Int_
<1>3. CASE d \in [t : {"str"}, value : Strs]
  BY <1>3 DEF Str_
<1>4. CASE d \in {e \in [t : {"map"}, order : Seq(Keys), at : [Keys -> Below]] :
                     Enumerates(e.order, {k \in Keys : e.at[k] # Gone})}
  BY <1>4 DEF IsMap, Map_
<1>5. CASE d \in {e \in [t : {"list"}, items : Seq(Below)] : e.items # <<>> => e.items[Len(e.items)] # Gone}
  BY <1>5 DEF IsList, List_
<1> QED BY <1>1, <1>2, <1>3, <1>4, <1>5 DEF DocsOver

LEMMA DocsOverHold ==
    ASSUME NEW Below
    PROVE  /\ Gone \in DocsOver(Below) /\ NilDoc \in DocsOver(Below)
           /\ \A n \in I!Ints : Int_(n) \in DocsOver(Below)
           /\ \A s \in Strs : Str_(s) \in DocsOver(Below)
           /\ \A d : IsMap(d, Below) => d \in DocsOver(Below)
           /\ \A d : IsList(d, Below) => d \in DocsOver(Below)
<1>1. \A d : IsMap(d, Below) => d \in DocsOver(Below)
  <2> SUFFICES ASSUME NEW d, IsMap(d, Below) PROVE d \in DocsOver(Below)
    OBVIOUS
  <2>1. d \in [t : {"map"}, order : Seq(Keys), at : [Keys -> Below]]
    <3>1. d = [t |-> "map", order |-> d.order, at |-> d.at] /\ d.order \in Seq(Keys) /\ d.at \in [Keys -> Below]
      BY DEF IsMap, Map_
    <3> DEFINE o == d.order
               a == d.at
    <3>2. d = [t |-> "map", order |-> o, at |-> a] /\ o \in Seq(Keys) /\ a \in [Keys -> Below]
      BY <3>1
    <3> HIDE DEF o, a
    <3> QED BY <3>2
  <2> QED BY <2>1 DEF DocsOver, IsMap
<1>2. \A d : IsList(d, Below) => d \in DocsOver(Below)
  <2> SUFFICES ASSUME NEW d, IsList(d, Below) PROVE d \in DocsOver(Below)
    OBVIOUS
  <2> DEFINE s == d.items
  <2>1. d = [t |-> "list", items |-> s] /\ s \in Seq(Below)
    BY DEF IsList, List_
  <2>2. d \in [t : {"list"}, items : Seq(Below)]
    <3> HIDE DEF s
    <3> QED BY <2>1
  <2> QED BY <2>2 DEF DocsOver, IsList
<1> QED BY <1>1, <1>2 DEF DocsOver, Int_, Str_

LEMMA DocsOverMore ==
    ASSUME NEW A, NEW B, A \subseteq B
    PROVE  DocsOver(A) \subseteq DocsOver(B)
<1> SUFFICES ASSUME NEW d \in DocsOver(A) PROVE d \in DocsOver(B)
  OBVIOUS
<1>1. IsMap(d, A) => IsMap(d, B)
  BY DEF IsMap
<1>2. Seq(A) \subseteq Seq(B)
  OBVIOUS
<1>3. IsList(d, A) => IsList(d, B)
  BY <1>2 DEF IsList
<1> QED BY <1>1, <1>3, DocsOverAre, DocsOverHold

Lower(n) == IF n = 0 THEN {Gone} ELSE Level[n - 1]

LEMMA LevelsAre == \A n \in Nat : Level[n] = DocsOver(Lower(n)) /\ Lower(n) \subseteq Level[n]
<1>1. \A n \in Nat : Level[n] = DocsOver(Lower(n))
  BY LevelUnfold DEF LevelDef, Lower
<1> DEFINE T == {n \in Nat : Lower(n) \subseteq Level[n]}
<1>2. ASSUME NEW n \in Nat, \A m \in Nat : m < n => m \in T
      PROVE  n \in T
  <2>1. CASE n = 0
    BY <1>1, <2>1, DocsOverHold DEF Lower
  <2>2. CASE n # 0
    <3>1. n - 1 \in Nat /\ Lower(n - 1) \subseteq Level[n - 1] /\ Lower(n) = Level[n - 1]
      BY <1>2, <2>2 DEF Lower
    <3>2. Level[n - 1] \subseteq Level[n]
      BY <1>1, <3>1, DocsOverMore
    <3> QED BY <3>1, <3>2
  <2> QED BY <2>1, <2>2
<1>3. Nat \subseteq T
  <2> HIDE DEF T
  <2> QED BY <1>2, NatInduction
<1> QED BY <1>1, <1>3

LEMMA LevelsGrow == \A n \in Nat : \A m \in Nat : m < n => Level[m] \subseteq Lower(n) /\ Level[m] \subseteq Level[n]
<1> DEFINE T == {n \in Nat : \A m \in Nat : m < n => Level[m] \subseteq Lower(n) /\ Level[m] \subseteq Level[n]}
<1>1. ASSUME NEW n \in Nat, \A m \in Nat : m < n => m \in T
      PROVE  n \in T
  <2> SUFFICES ASSUME NEW m \in Nat, m < n PROVE Level[m] \subseteq Lower(n) /\ Level[m] \subseteq Level[n]
    OBVIOUS
  <2>1. n - 1 \in Nat /\ Lower(n) = Level[n - 1]
    BY DEF Lower
  <2>2. m = n - 1 \/ m < n - 1
    OBVIOUS
  <2>3. Level[m] \subseteq Level[n - 1]
    BY <1>1, <2>1, <2>2
  <2> QED BY <2>1, <2>3, LevelsAre
<1>2. Nat \subseteq T
  <2> HIDE DEF T
  <2> QED BY <1>1, NatInduction
<1> QED BY <1>2

\* What is in a document is a document.
LEMMA DocsAre ==
    \A d \in Docs :
        /\ d.t \in {"gone", "nil", "int", "str", "map", "list"}
        /\ d.t = "gone" => d = Gone
        /\ d.t = "nil" => d = NilDoc
        /\ d.t = "int" => d.value \in I!Ints /\ d = Int_(d.value)
        /\ d.t = "str" => d.value \in Strs /\ d = Str_(d.value)
        /\ d.t = "map" => IsMap(d, Docs)
        /\ d.t = "list" => IsList(d, Docs)
<1>1. Docs = DocsOver(Lower(MaxDepth)) /\ Lower(MaxDepth) \subseteq Docs
  BY LevelsAre, BoundsAssumption DEF Docs
<1>2. Docs \subseteq DocsOver(Docs)
  BY <1>1, DocsOverMore
<1> QED BY <1>2, DocsOverAre

LEMMA MarkersAreDocs == Gone \in Docs /\ NilDoc \in Docs /\ EmptyMap \in Docs
<1>1. /\ Docs = DocsOver(Lower(MaxDepth)) /\ Gone \in Lower(MaxDepth)
  <2>1. Docs = DocsOver(Lower(MaxDepth)) /\ MaxDepth \in Nat
    BY LevelsAre, BoundsAssumption DEF Docs
  <2>2. Gone \in Lower(MaxDepth)
    BY <2>1, LevelsAre, DocsOverHold DEF Lower
  <2> QED BY <2>1, <2>2
<1>2. IsMap(EmptyMap, Lower(MaxDepth))
  <2> DEFINE at == [k \in Keys |-> Gone]
             none == <<>>
  <2>1. EmptyMap = Map_(none, at) /\ EmptyMap.order = none /\ EmptyMap.at = at
    BY DEF EmptyMap, Map_
  <2>2. at \in [Keys -> Lower(MaxDepth)] /\ {k \in Keys : at[k] # Gone} = {}
    BY <1>1
  <2>3. none \in Seq(Keys) /\ Enumerates(none, {})
    BY DEF Enumerates
  <2> HIDE DEF at, none
  <2> QED BY <2>1, <2>2, <2>3 DEF IsMap
<1> QED BY <1>1, <1>2, DocsOverHold

-----------------------------------------------------------------------------
(***************************************************************************)
(* A property and those in it                                              *)
(***************************************************************************)
LEMMA PropsInduction ==
    \A T : (\A p \in Props : (\A q \in Inner(p) : q \in T) => p \in T) => Props \subseteq T
<1>1. RParts!Induction
  BY PropsRanked, RParts!RankInduction
<1>2. \A T : (\A p \in Props : (\A q \in Props : Depth[q] < Depth[p] => q \in T) => p \in T) => Props \subseteq T
  BY <1>1 DEF RParts!Induction
<1> QED BY <1>2, InnerAre

LEMMA PartsHold ==
    \A p \in Props : p \in Parts[p] /\ \A q \in Inner(p) : Parts[q] \subseteq Parts[p]
BY PartsAre

NoDefault(p)  == \A q \in Parts[p] : q.default = NoValue
NoAllowed(p)  == \A q \in Parts[p] : q.k = "str" => q.allowed = {}
NoOptional(p) == \A q \in Parts[p] : q.k = "struct" => \A f \in Fields(q) : ~f.optional
NoLoose(p)    == \A q \in Parts[p] : q.k = "array" => q.linked
None(p, kind) == \A q \in Parts[p] : q.k # kind

\* What no part of a property has, no part of those in it has.
LEMMA PartsInherit ==
    \A p \in Props :
        /\ NoDefault(p) => p.default = NoValue /\ \A q \in Inner(p) : NoDefault(q)
        /\ NoAllowed(p) => (p.k = "str" => p.allowed = {}) /\ \A q \in Inner(p) : NoAllowed(q)
        /\ NoOptional(p) => (p.k = "struct" => \A f \in Fields(p) : ~f.optional) /\ \A q \in Inner(p) : NoOptional(q)
        /\ NoLoose(p) => (p.k = "array" => p.linked) /\ \A q \in Inner(p) : NoLoose(q)
        /\ \A kind : None(p, kind) => p.k # kind /\ \A q \in Inner(p) : None(q, kind)
BY PartsHold DEF NoDefault, NoAllowed, NoOptional, NoLoose, None

-----------------------------------------------------------------------------
(***************************************************************************)
(* What decoding comes to                                                  *)
(***************************************************************************)
LEMMA DecodeWithoutDefault ==
    \A p \in Props : \A d \in Docs : p.default = NoValue => DecodeAt[p][d] = DecodeRaw(DecodeAt, p, d)
BY DecodeUnfold DEF DecodeHere

LEMMA SucceededDecode ==
    \A p \in Props : \A d \in Docs : DecodeRaw(DecodeAt, p, d).ok => DecodeAt[p][d] = DecodeRaw(DecodeAt, p, d)
BY DecodeUnfold DEF DecodeHere

LEMMA DecodedHas == \A ok, value : Decoded(ok, value).ok = ok /\ Decoded(ok, value).value = value
BY DEF Decoded

LEMMA Successes == \A value : Decoded(TRUE, value).ok /\ Decoded(TRUE, value).value = value /\ ~Decoded(FALSE, value).ok
BY DEF Decoded

LEMMA ElementsDecoded ==
    ASSUME NEW p, NEW d, Len(d.items) \in Nat, DOMAIN d.items = 1..Len(d.items)
    PROVE  LET e == ElementsDecode(DecodeAt, p, d)
           IN  /\ e.ok = (\A i \in DOMAIN d.items : DecodeAt[p.of][d.items[i]].ok)
               /\ e.ok => e.value = [i \in DOMAIN d.items |-> DecodeAt[p.of][d.items[i]].value]
<1> DEFINE Got(i) == DecodeAt[p.of][d.items[i]]
           LookedAt(i) == \A j \in 1..(i - 1) : Got(j).ok
           value == [i \in DOMAIN d.items |-> IF LookedAt(i) THEN Got(i).value ELSE Blank[p.of]]
           e == ElementsDecode(DecodeAt, p, d)
           ok == \A i \in DOMAIN d.items : Got(i).ok
<1>1. e.ok = ok /\ e.value = value
  <2>1. e = Decoded(ok, value)
    BY DEF ElementsDecode
  <2> HIDE DEF e, ok, value
  <2> QED BY <2>1, DecodedHas
<1>2. ASSUME \A i \in DOMAIN d.items : Got(i).ok
      PROVE  value = [i \in DOMAIN d.items |-> Got(i).value]
  <2>1. \A i \in DOMAIN d.items : LookedAt(i)
    <3>1. \A i \in DOMAIN d.items : \A j \in 1..(i - 1) : j \in DOMAIN d.items
      OBVIOUS
    <3> HIDE DEF Got
    <3> QED BY <1>2, <3>1
  <2> HIDE DEF LookedAt, Got
  <2> QED BY <2>1
<1> HIDE DEF e, value
<1> QED BY <1>1, <1>2 DEF e

LEMMA StructDecoded ==
    ASSUME NEW p \in Props, p.k = "struct", NEW d
    PROVE  LET e == StructDecode(DecodeAt, p, d)
           IN  /\ e.ok = (\A f \in Fields(p) : FieldDecode(DecodeAt, f, d).ok \/ f.optional)
               /\ e.ok => e.value = [k \in FieldKeys(p) |-> FieldDecode(DecodeAt, FieldAt(p, k), d).value]
<1> DEFINE Got(i) == FieldDecode(DecodeAt, p.fields[i], d)
           Passes(i) == Got(i).ok \/ p.fields[i].optional
           LookedAt(i) == \A j \in 1..(i - 1) : Passes(j)
           At(i) == IF LookedAt(i) THEN Got(i).value ELSE Member(p.fields[i])
           value == [k \in FieldKeys(p) |-> At(FieldIndex(p, k))]
           e == StructDecode(DecodeAt, p, d)
           ok == \A i \in DOMAIN p.fields : Passes(i)
<1>1. e.ok = ok /\ e.value = value
  <2>1. e = Decoded(ok, value)
    BY DEF StructDecode
  <2> HIDE DEF e, ok, value
  <2> QED BY <2>1, DecodedHas
<1>2. (\A i \in DOMAIN p.fields : Passes(i)) = (\A f \in Fields(p) : FieldDecode(DecodeAt, f, d).ok \/ f.optional)
  BY DEF Fields
<1>3. ASSUME \A i \in DOMAIN p.fields : Passes(i)
      PROVE  value = [k \in FieldKeys(p) |-> FieldDecode(DecodeAt, FieldAt(p, k), d).value]
  <2>1. \A i \in DOMAIN p.fields : LookedAt(i)
    <3>1. \A i \in DOMAIN p.fields : \A j \in 1..(i - 1) : j \in DOMAIN p.fields
      BY FieldsAre
    <3> HIDE DEF Passes
    <3> QED BY <1>3, <3>1
  <2>2. \A i \in DOMAIN p.fields : At(i) = Got(i).value
    <3> HIDE DEF LookedAt, Got
    <3> QED BY <2>1
  <2>3. \A k \in FieldKeys(p) : At(FieldIndex(p, k)) = FieldDecode(DecodeAt, FieldAt(p, k), d).value
    <3> HIDE DEF At
    <3> QED BY <2>2, FieldsByKey DEF FieldAt
  <2> HIDE DEF At
  <2> QED BY <2>3
<1> HIDE DEF e, value, Passes
<1> QED BY <1>1, <1>2, <1>3 DEF e

LEMMA FieldDecoded ==
    \A f, d :
        LET e == DecodeAt[f.of][Child(d, f.key)]
            r == FieldDecode(DecodeAt, f, d)
        IN  /\ Child(d, f.key) = Gone => ~r.ok /\ r.value = Member(f)
            /\ Child(d, f.key) # Gone =>
                  /\ r.ok = e.ok
                  /\ e.ok \/ ~f.optional => r.value = e.value
                  /\ ~e.ok /\ f.optional => r.value = Member(f)
BY DEF FieldDecode, Decoded

LEMMA ListDocs ==
    \A d \in Docs : d.t = "list" =>
        /\ d.items \in Seq(Docs) /\ Len(d.items) \in Nat /\ DOMAIN d.items = 1..Len(d.items)
        /\ \A i \in DOMAIN d.items : d.items[i] \in Docs
BY DocsAre, SeqsAre DEF IsList

LEMMA MapDocs ==
    \A d \in Docs : d.t = "map" => d.at \in [Keys -> Docs] /\ \A k \in Keys : d.at[k] \in Docs
BY DocsAre DEF IsMap

LEMMA ChildDocs == \A d \in Docs : \A k \in Keys : Child(d, k) \in Docs /\ (d.t # "map" => Child(d, k) = Gone)
BY MapDocs, MarkersAreDocs DEF Child

-----------------------------------------------------------------------------
(***************************************************************************)
(* What decodes and what is ok                                             *)
(***************************************************************************)
LEMMA OkHolds ==
    \A p \in Props : \A d \in Docs : d.t = DocType(p) /\ OkAt[p][d] => \A b : OkWith(OkAt, p, d, b)
BY DEF OkWith

LEMMA OkNeeded ==
    \A p \in Props : \A d : p.default = NoValue /\ OkWith(OkAt, p, d, TRUE) => d.t = DocType(p) /\ OkAt[p][d]
BY DEF OkWith

\* What is in an array that is linked is needed.
LEMMA LinkedNeeds ==
    \A p \in Props : \A d : p.k = "array" /\ p.linked /\ ArrayOk(OkAt, p, d) =>
        \A i \in DOMAIN d.items : OkWith(OkAt, p.of, d.items[i], TRUE)
<1> SUFFICES ASSUME NEW p \in Props, NEW d, p.k = "array", p.linked, ArrayOk(OkAt, p, d), NEW i \in DOMAIN d.items
             PROVE  OkWith(OkAt, p.of, d.items[i], TRUE)
  OBVIOUS
<1>1. p.linked = TRUE
  BY PropsAre DEF IsProp
<1>2. OkWith(OkAt, p.of, d.items[i], p.linked)
  BY DEF ArrayOk
<1> QED BY <1>1, <1>2

LEMMA OkByKind ==
    \A p \in Props : \A d \in Docs : d.t = DocType(p) =>
        /\ p.k = "int"    => (OkAt[p][d] <=> IntOk(p, d.value))
        /\ p.k = "str"    => (OkAt[p][d] <=> StrOk(p, d.value))
        /\ p.k = "map"    => (OkAt[p][d] <=> MapOk(p, d))
        /\ p.k = "list"   => (OkAt[p][d] <=> ListOk(OkAt, p, d))
        /\ p.k = "array"  => (OkAt[p][d] <=> ArrayOk(OkAt, p, d))
        /\ p.k = "struct" => (OkAt[p][d] <=> StructOk(OkAt, p, d))
<1> SUFFICES ASSUME NEW p \in Props, NEW d \in Docs, d.t = DocType(p)
             PROVE  /\ p.k = "int"    => (OkAt[p][d] <=> IntOk(p, d.value))
                    /\ p.k = "str"    => (OkAt[p][d] <=> StrOk(p, d.value))
                    /\ p.k = "map"    => (OkAt[p][d] <=> MapOk(p, d))
                    /\ p.k = "list"   => (OkAt[p][d] <=> ListOk(OkAt, p, d))
                    /\ p.k = "array"  => (OkAt[p][d] <=> ArrayOk(OkAt, p, d))
                    /\ p.k = "struct" => (OkAt[p][d] <=> StructOk(OkAt, p, d))
  OBVIOUS
<1>1. OkAt[p][d] <=> OkHere(OkAt, p, d)
  BY OkUnfold
<1> QED BY <1>1 DEF OkHere

LEMMA DecodedDocsPass ==
    \A p \in Props : NoDefault(p) /\ NoAllowed(p) /\ NoOptional(p) =>
        \A d \in Docs : DecodeAt[p][d].ok => d.t = DocType(p) /\ OkAt[p][d]
<1> DEFINE Plain(p) == NoDefault(p) /\ NoAllowed(p) /\ NoOptional(p)
           Passes(p) == \A d \in Docs : DecodeAt[p][d].ok => d.t = DocType(p) /\ OkAt[p][d]
           T == {p \in Props : Plain(p) => Passes(p)}
<1>1. ASSUME NEW p \in Props, \A q \in Inner(p) : q \in T
      PROVE  p \in T
  <2> SUFFICES ASSUME Plain(p), NEW d \in Docs, DecodeAt[p][d].ok
               PROVE  d.t = DocType(p) /\ OkAt[p][d]
    OBVIOUS
  <2>1. p.default = NoValue /\ \A q \in Inner(p) : Plain(q)
    BY PartsInherit
  <2>2. \A q \in Inner(p) : q \in Props /\ q.default = NoValue /\ Passes(q)
    BY <1>1, <2>1, PartsInherit
  <2>3. DecodeRaw(DecodeAt, p, d).ok
    BY <2>1, DecodeWithoutDefault
  <2> HIDE DEF Plain, Passes
  <2>4. CASE p.k \in {"int", "str"}
    <3>1. d.t = DocType(p)
      BY <2>3, <2>4, DecodedHas DEF DecodeRaw
    <3>2. CASE p.k = "int"
      <4>1. IntDecode(p, d.value).ok
        BY <2>3, <3>1, <3>2 DEF DecodeRaw
      <4>2. IntOk(p, d.value)
        BY <4>1, DecodedHas DEF IntDecode, IntOk
      <4> QED BY <3>1, <3>2, <4>2, OkByKind
    <3>3. CASE p.k = "str"
      <4>1. StrDecode(p, d.value).ok
        BY <2>3, <3>1, <3>3 DEF DecodeRaw
      <4>2. StrOk(p, d.value)
        BY <4>1, <3>3, DecodedHas, PartsInherit DEF StrDecode, StrOk, Plain
      <4> QED BY <3>1, <3>3, <4>2, OkByKind
    <3> QED BY <2>4, <3>2, <3>3
  <2>5. CASE p.k = "map"
    <3>1. d.t = DocType(p)
      BY <2>3, <2>5, DecodedHas DEF DecodeRaw
    <3>2. MapDecode(DecodeAt, p, d).ok
      BY <2>3, <2>5, <3>1 DEF DecodeRaw
    <3>3. MapOk(p, d)
      BY <3>2, DecodedHas DEF MapDecode
    <3> QED BY <2>5, <3>1, <3>3, OkByKind
  <2>6. CASE p.k \in {"list", "array"}
    <3>1. d.t = DocType(p) /\ d.t = "list"
      BY <2>3, <2>6, DecodedHas DEF DecodeRaw, DocType
    <3>2. /\ Len(d.items) \in Nat /\ DOMAIN d.items = 1..Len(d.items)
          /\ \A i \in DOMAIN d.items : d.items[i] \in Docs
      BY <3>1, ListDocs
    <3>3. /\ ElementsDecode(DecodeAt, p, d).ok
          /\ p.k = "list" => I!Contains(p.size, Len(d.items))
          /\ p.k = "array" => Len(d.items) = p.n
      BY <2>3, <2>6, <3>1, DecodedHas DEF DecodeRaw, ListDecode, ArrayDecode
    <3>4. \A i \in DOMAIN d.items : DecodeAt[p.of][d.items[i]].ok
      BY <3>2, <3>3, ElementsDecoded
    <3>5. p.of \in Inner(p)
      BY <2>6, ContainersHold DEF IsContainer
    <3>6. \A i \in DOMAIN d.items : d.items[i].t = DocType(p.of) /\ OkAt[p.of][d.items[i]]
      BY <2>2, <3>2, <3>4, <3>5 DEF Passes
    <3>7. \A i \in DOMAIN d.items : \A b : OkWith(OkAt, p.of, d.items[i], b)
      BY <2>2, <3>2, <3>5, <3>6, OkHolds
    <3>8. /\ p.k = "list" => ListOk(OkAt, p, d)
          /\ p.k = "array" => ArrayOk(OkAt, p, d)
      BY <3>3, <3>7 DEF ListOk, ArrayOk
    <3> QED BY <2>6, <3>1, <3>8, OkByKind
  <2>7. CASE p.k = "struct"
    <3>1. StructDecode(DecodeAt, p, d).ok
      BY <2>3, <2>7 DEF DecodeRaw
    <3>2. \A f \in Fields(p) : FieldDecode(DecodeAt, f, d).ok
      BY <2>7, <3>1, StructDecoded, PartsInherit DEF Plain
    <3>3. \A f \in Fields(p) : Child(d, f.key) # Gone /\ DecodeAt[f.of][Child(d, f.key)].ok
      BY <3>2, FieldDecoded
    <3>4. \E f \in Fields(p) : TRUE
      <4>1. p.fields[1] \in Fields(p)
        BY <2>7, FieldsAre
      <4> QED BY <4>1
    <3>5. d.t = "map"
      BY <3>3, <3>4 DEF Child
    <3>6. \A f \in Fields(p) : /\ d.at[f.key] \in Docs /\ f.of \in Inner(p)
                               /\ d.at[f.key].t = DocType(f.of) /\ OkAt[f.of][d.at[f.key]]
      BY <2>2, <2>7, <3>3, <3>5, MapDocs, FieldsByKey DEF Child, Passes
    <3>7. \A f \in Fields(p) : OkWith(OkAt, f.of, d.at[f.key], ~f.optional)
      BY <2>2, <3>6, OkHolds
    <3>8. d.t = DocType(p) /\ StructOk(OkAt, p, d)
      BY <2>7, <3>5, <3>7 DEF StructOk, DocType
    <3> QED BY <2>7, <3>8, OkByKind
  <2> QED BY <2>4, <2>5, <2>6, <2>7, PropsAre DEF Kinds
<1>2. Props \subseteq T
  <2> HIDE DEF T
  <2> QED BY <1>1, PropsInduction
<1> QED BY <1>2

LEMMA OkDocsDecode ==
    \A p \in Props : NoDefault(p) /\ NoLoose(p) /\ None(p, "list") =>
        \A d \in Docs : d.t = DocType(p) /\ OkAt[p][d] => DecodeAt[p][d].ok
<1> DEFINE Plain(p) == NoDefault(p) /\ NoLoose(p) /\ None(p, "list")
           Passes(p) == \A d \in Docs : d.t = DocType(p) /\ OkAt[p][d] => DecodeAt[p][d].ok
           T == {p \in Props : Plain(p) => Passes(p)}
<1>1. ASSUME NEW p \in Props, \A q \in Inner(p) : q \in T
      PROVE  p \in T
  <2> SUFFICES ASSUME Plain(p), NEW d \in Docs, d.t = DocType(p), OkAt[p][d]
               PROVE  DecodeAt[p][d].ok
    OBVIOUS
  <2>1. /\ p.default = NoValue /\ p.k # "list" /\ (p.k = "array" => p.linked)
        /\ \A q \in Inner(p) : Plain(q)
    BY PartsInherit
  <2>2. \A q \in Inner(p) : q \in Props /\ q.default = NoValue /\ Passes(q)
    BY <1>1, <2>1, PartsInherit
  <2> SUFFICES DecodeRaw(DecodeAt, p, d).ok
    BY <2>1, DecodeWithoutDefault
  <2> HIDE DEF Plain, Passes
  <2>3. CASE p.k = "int"
    <3>1. IntOk(p, d.value)
      BY <2>3, OkByKind
    <3>2. IntDecode(p, d.value).ok
      BY <3>1, DecodedHas DEF IntDecode, IntOk
    <3> QED BY <2>3, <3>2 DEF DecodeRaw
  <2>4. CASE p.k = "str"
    <3>1. StrOk(p, d.value)
      BY <2>4, OkByKind
    <3>2. StrDecode(p, d.value).ok
      BY <3>1, DecodedHas DEF StrDecode, StrOk
    <3> QED BY <2>4, <3>2 DEF DecodeRaw
  <2>5. CASE p.k = "map"
    <3>1. MapOk(p, d)
      BY <2>5, OkByKind
    <3>2. MapDecode(DecodeAt, p, d).ok
      BY <3>1, DecodedHas DEF MapDecode
    <3> QED BY <2>5, <3>2 DEF DecodeRaw
  <2>6. CASE p.k = "array"
    <3>1. /\ Len(d.items) \in Nat /\ DOMAIN d.items = 1..Len(d.items)
          /\ \A i \in DOMAIN d.items : d.items[i] \in Docs
      BY <2>6, ListDocs DEF DocType
    <3>2. p.of \in Inner(p)
      BY <2>6, ContainersHold DEF IsContainer
    <3>3. ArrayOk(OkAt, p, d)
      BY <2>6, OkByKind
    <3>4. \A i \in DOMAIN d.items : d.items[i].t = DocType(p.of) /\ OkAt[p.of][d.items[i]]
      <4>1. \A i \in DOMAIN d.items : OkWith(OkAt, p.of, d.items[i], TRUE)
        BY <2>1, <2>6, <3>3, LinkedNeeds
      <4> QED BY <2>2, <3>2, <4>1, OkNeeded
    <3>5. \A i \in DOMAIN d.items : DecodeAt[p.of][d.items[i]].ok
      BY <2>2, <3>1, <3>2, <3>4 DEF Passes
    <3>6. ElementsDecode(DecodeAt, p, d).ok
      BY <3>1, <3>5, ElementsDecoded
    <3> QED BY <2>6, <3>3, <3>6 DEF DecodeRaw, ArrayDecode, ArrayOk
  <2>7. CASE p.k = "struct"
    <3>1. d.t = "map" /\ StructOk(OkAt, p, d)
      BY <2>7, OkByKind DEF DocType
    <3>2. ASSUME NEW f \in Fields(p), ~f.optional
          PROVE  FieldDecode(DecodeAt, f, d).ok
      <4>1. f.of \in Inner(p) /\ f.key \in Keys /\ d.at[f.key] \in Docs /\ Child(d, f.key) = d.at[f.key]
        BY <2>7, <3>1, FieldsByKey, MapDocs DEF Child
      <4>2. OkWith(OkAt, f.of, d.at[f.key], TRUE)
        BY <3>1, <3>2 DEF StructOk
      <4>3. d.at[f.key].t = DocType(f.of) /\ OkAt[f.of][d.at[f.key]]
        BY <2>2, <4>1, <4>2, OkNeeded
      <4>4. d.at[f.key] # Gone
        <5>1. DocType(f.of) # "gone"
          BY <2>2, <4>1, PropsAre DEF DocType, Kinds
        <5> QED BY <4>3, <5>1 DEF Gone
      <4>5. DecodeAt[f.of][d.at[f.key]].ok
        BY <2>2, <4>1, <4>3 DEF Passes
      <4> QED BY <4>1, <4>4, <4>5, FieldDecoded
    <3>3. StructDecode(DecodeAt, p, d).ok
      BY <2>7, <3>2, StructDecoded
    <3> QED BY <2>7, <3>3 DEF DecodeRaw
  <2> QED BY <2>1, <2>3, <2>4, <2>5, <2>6, <2>7, PropsAre DEF Kinds
<1>2. Props \subseteq T
  <2> HIDE DEF T
  <2> QED BY <1>1, PropsInduction
<1> QED BY <1>2

LEMMA DefaultsStandIn ==
    \A p \in Props : \A d \in Docs :
        /\ p.default # NoValue /\ d.t # DocType(p)
        /\ p.k = "struct" => \E f \in Fields(p) : ~f.optional
        => DecodeAt[p][d] = Decoded(TRUE, p.default)
<1> SUFFICES ASSUME NEW p \in Props, NEW d \in Docs, p.default # NoValue, d.t # DocType(p),
                    p.k = "struct" => \E f \in Fields(p) : ~f.optional
             PROVE  ~DecodeRaw(DecodeAt, p, d).ok
  BY DecodeUnfold DEF DecodeHere
<1>1. CASE p.k # "struct"
  BY <1>1, DecodedHas DEF DecodeRaw
<1>2. CASE p.k = "struct"
  <2>1. PICK f \in Fields(p) : ~f.optional
    BY <1>2
  <2>2. Child(d, f.key) = Gone
    BY <1>2 DEF DocType, Child
  <2>3. ~FieldDecode(DecodeAt, f, d).ok
    BY <2>2, FieldDecoded
  <2>4. ~StructDecode(DecodeAt, p, d).ok
    BY <1>2, <2>1, <2>3, StructDecoded
  <2> QED BY <1>2, <2>4 DEF DecodeRaw
<1> QED BY <1>1, <1>2

-----------------------------------------------------------------------------
(***************************************************************************)
(* What is decoded                                                         *)
(***************************************************************************)
P == INSTANCE IntervalProofs WITH interval <- 0

LEMMA ClampedIsInside ==
    \A i \in I!Intervals : \A n \in I!Ints :
        /\ I!Clamp(i, n) \in I!Ints
        /\ (\E m \in I!Ints : I!Contains(i, m)) => I!Contains(i, I!Clamp(i, n))
<1>1. /\ P!Intervals = I!Intervals /\ P!Ints = I!Ints
      /\ \A i, n : P!Contains(i, n) <=> I!Contains(i, n)
      /\ \A i, n : P!Clamp(i, n) = I!Clamp(i, n)
  BY DEF P!Intervals, I!Intervals, P!Bounds, I!Bounds, P!Ints, I!Ints, P!Contains, I!Contains,
         P!LowerContains, I!LowerContains, P!UpperContains, I!UpperContains, P!Clamp, I!Clamp,
         P!LowerClamp, I!LowerClamp, P!UpperClamp, I!UpperClamp, P!Inc, I!Inc, P!Dec, I!Dec
<1>2. \A i \in P!Intervals : \A n \in P!Ints :
        /\ P!Clamp(i, n) \in P!Ints
        /\ (\E m \in P!Ints : P!Contains(i, m)) => P!Contains(i, P!Clamp(i, n))
  BY P!ClampsToMember, LimitsAssumption, MarkersAssumption DEF P!Bounds, P!Ints, I!Bounds, I!Ints
<1> QED BY <1>1, <1>2

\* Values that are as described are values.
LEMMA MeetingInValues == \A p \in Props : Meeting[p] \subseteq Values[p]
<1> DEFINE T == {p \in Props : Meeting[p] \subseteq Values[p]}
<1>1. ASSUME NEW p \in Props, \A q \in Inner(p) : q \in T
      PROVE  p \in T
  <2> SUFFICES Meeting[p] \subseteq Values[p]
    OBVIOUS
  <2>1. Meeting[p] = MeetingDef(Meeting, p) /\ Values[p] = ValuesDef(Values, p)
    BY MeetingUnfold, ValuesUnfold
  <2>2. CASE p.k \in {"int", "str"}
    BY <2>1, <2>2 DEF MeetingDef, ValuesDef
  <2>3. CASE IsContainer(p)
    <3>1. Meeting[p.of] \subseteq Values[p.of]
      BY <1>1, <2>3, ContainersHold
    <3>2. Seq(Meeting[p.of]) \subseteq Seq(Values[p.of])
      BY <3>1
    <3> QED BY <2>1, <2>3, <3>1, <3>2 DEF MeetingDef, ValuesDef, IsContainer
  <2>4. CASE p.k = "struct"
    <3>1. \A f \in Fields(p) : Meeting[f.of] \subseteq Values[f.of]
      BY <1>1, <2>4, FieldsByKey
    <3>2. \A v : IsStruct(p, Meeting, v) => IsStruct(p, Values, v)
      BY <3>1 DEF IsStruct
    <3>3. \A v \in StructsOf(p, Meeting) : v \in StructsOf(p, Values)
      BY <2>4, <3>2, StructsAre
    <3> QED BY <2>1, <2>4, <3>3 DEF MeetingDef, ValuesDef
  <2> QED BY <2>2, <2>3, <2>4, PropsAre DEF IsContainer, Kinds
<1>2. Props \subseteq T
  <2> HIDE DEF T
  <2> QED BY <1>1, PropsInduction
<1> QED BY <1>2

\* Clamping has somewhere to go.
ClampsWithin(p) ==
    \A q \in Parts[p] : q.k = "int" /\ q.with_clamp =>
        q.multiple_of = 0 /\ \E n \in I!Ints : I!Contains(q.interval, n)

LEMMA ClampsInherit ==
    \A p \in Props : ClampsWithin(p) =>
        /\ p.k = "int" /\ p.with_clamp => p.multiple_of = 0 /\ \E n \in I!Ints : I!Contains(p.interval, n)
        /\ \A q \in Inner(p) : ClampsWithin(q)
BY PartsHold DEF ClampsWithin

LEMMA DecodedMeets ==
    \A p \in Props : NoDefault(p) /\ NoAllowed(p) /\ None(p, "map") /\ ClampsWithin(p) =>
        \A d \in Docs : DecodeAt[p][d].ok => DecodeAt[p][d].value \in Meeting[p]
<1> DEFINE Plain(p) == NoDefault(p) /\ NoAllowed(p) /\ None(p, "map") /\ ClampsWithin(p)
           Meets(p) == \A d \in Docs : DecodeAt[p][d].ok => DecodeAt[p][d].value \in Meeting[p]
           T == {p \in Props : Plain(p) => Meets(p)}
<1>1. ASSUME NEW p \in Props, \A q \in Inner(p) : q \in T
      PROVE  p \in T
  <2> SUFFICES ASSUME Plain(p), NEW d \in Docs, DecodeAt[p][d].ok
               PROVE  DecodeAt[p][d].value \in Meeting[p]
    OBVIOUS
  <2>1. p.default = NoValue /\ p.k # "map" /\ \A q \in Inner(p) : Plain(q)
    BY PartsInherit, ClampsInherit
  <2>2. \A q \in Inner(p) : q \in Props /\ Meets(q)
    BY <1>1, <2>1, InnerAre
  <2>3. /\ DecodeAt[p][d] = DecodeRaw(DecodeAt, p, d) /\ DecodeRaw(DecodeAt, p, d).ok
    BY <2>1, DecodeWithoutDefault
  <2>4. Meeting[p] = MeetingDef(Meeting, p)
    BY MeetingUnfold
  <2>5. p.k # "struct" => d.t = DocType(p)
    BY <2>3, DecodedHas DEF DecodeRaw
  <2>6. CASE p.k = "int"
    <3>1. d.value \in I!Ints
      BY <2>5, <2>6, DocsAre DEF DocType
    <3>2. DecodeAt[p][d] = IntDecode(p, d.value)
      BY <2>3, <2>5, <2>6 DEF DecodeRaw
    <3>3. p.interval \in I!Intervals
      BY <2>6, PropsAre DEF IsProp
    <3>4. CASE IsDivisible(p, d.value) /\ I!Contains(p.interval, d.value)
      <4>1. DecodeAt[p][d] = Decoded(TRUE, d.value)
        BY <3>2, <3>4 DEF IntDecode
      <4>2. DecodeAt[p][d].value = d.value
        BY <4>1, Successes
      <4> QED BY <2>4, <2>6, <3>1, <3>4, <4>2 DEF MeetingDef
    <3>5. CASE ~(IsDivisible(p, d.value) /\ I!Contains(p.interval, d.value))
      <4>1. p.with_clamp /\ DecodeAt[p][d].value = I!Clamp(p.interval, d.value)
        <5> DEFINE e == IntDecode(p, d.value)
        <5>1. e.ok
          BY <2>3, <3>2
        <5>2. /\ p.with_clamp /\ e = Decoded(TRUE, I!Clamp(p.interval, d.value))
              \/ e = Decoded(FALSE, d.value)
          BY <3>5 DEF IntDecode
        <5>3. e # Decoded(FALSE, d.value)
          BY <5>1, Successes
        <5> HIDE DEF e
        <5>4. p.with_clamp /\ e.value = I!Clamp(p.interval, d.value)
          BY <5>2, <5>3, Successes
        <5> QED BY <3>2, <5>4 DEF e
      <4>2. p.multiple_of = 0 /\ \E n \in I!Ints : I!Contains(p.interval, n)
        BY <2>6, <4>1, ClampsInherit DEF Plain
      <4>3. /\ I!Clamp(p.interval, d.value) \in I!Ints
            /\ I!Contains(p.interval, I!Clamp(p.interval, d.value))
        BY <3>1, <3>3, <4>2, ClampedIsInside
      <4>4. IsDivisible(p, I!Clamp(p.interval, d.value))
        BY <4>2 DEF IsDivisible
      <4> QED BY <2>4, <2>6, <4>1, <4>3, <4>4 DEF MeetingDef
    <3> QED BY <3>4, <3>5
  <2>7. CASE p.k = "str"
    <3>1. d.value \in Strs
      BY <2>5, <2>7, DocsAre DEF DocType
    <3>2. DecodeAt[p][d] = StrDecode(p, d.value)
      BY <2>3, <2>5, <2>7 DEF DecodeRaw
    <3>3. DecodeAt[p][d].value = d.value /\ I!Contains(p.length, LengthOf[d.value])
      BY <2>3, <3>2, DecodedHas DEF StrDecode
    <3>4. StrOk(p, d.value)
      BY <2>7, <3>3, PartsInherit DEF StrOk, Plain
    <3> QED BY <2>4, <2>7, <3>1, <3>3, <3>4 DEF MeetingDef
  <2>8. CASE p.k \in {"list", "array"}
    <3>1. /\ Len(d.items) \in Nat /\ DOMAIN d.items = 1..Len(d.items)
          /\ \A i \in DOMAIN d.items : d.items[i] \in Docs
      BY <2>5, <2>8, ListDocs DEF DocType
    <3>2. /\ DecodeAt[p][d] = ElementsDecode(DecodeAt, p, d)
          /\ p.k = "list" => I!Contains(p.size, Len(d.items))
          /\ p.k = "array" => Len(d.items) = p.n
      BY <2>3, <2>5, <2>8, DecodedHas DEF DecodeRaw, ListDecode, ArrayDecode
    <3> DEFINE v == [i \in 1..Len(d.items) |-> DecodeAt[p.of][d.items[i]].value]
    <3>3. /\ DecodeAt[p][d].value = v
          /\ \A i \in DOMAIN d.items : DecodeAt[p.of][d.items[i]].ok
      <4> DEFINE e == ElementsDecode(DecodeAt, p, d)
      <4>1. /\ e.ok = (\A i \in DOMAIN d.items : DecodeAt[p.of][d.items[i]].ok)
            /\ e.ok => e.value = [i \in DOMAIN d.items |-> DecodeAt[p.of][d.items[i]].value]
        BY <3>1, ElementsDecoded
      <4>2. e.ok /\ DecodeAt[p][d] = e /\ DOMAIN d.items = 1..Len(d.items)
        BY <2>3, <3>1, <3>2
      <4> HIDE DEF e
      <4>3. \A i \in DOMAIN d.items : DecodeAt[p.of][d.items[i]].ok
        BY <4>1, <4>2
      <4>4. e.value = [i \in DOMAIN d.items |-> DecodeAt[p.of][d.items[i]].value]
        BY <4>1, <4>2
      <4> QED BY <4>2, <4>3, <4>4
    <3>4. p.of \in Inner(p)
      BY <2>8, ContainersHold DEF IsContainer
    <3>5. \A i \in 1..Len(d.items) : DecodeAt[p.of][d.items[i]].value \in Meeting[p.of]
      BY <2>2, <3>1, <3>3, <3>4
    <3>6. v \in [1..Len(d.items) -> Meeting[p.of]]
      BY <3>5
    <3>7. v \in Seq(Meeting[p.of]) /\ Len(v) = Len(d.items)
      BY <3>1, <3>5
    <3> HIDE DEF v
    <3>8. CASE p.k = "list"
      BY <2>4, <3>2, <3>3, <3>7, <3>8 DEF MeetingDef
    <3>9. CASE p.k = "array"
      BY <2>4, <3>2, <3>3, <3>6, <3>9 DEF MeetingDef
    <3> QED BY <2>8, <3>8, <3>9
  <2>9. CASE p.k = "struct"
    <3> DEFINE v == [k \in FieldKeys(p) |-> FieldDecode(DecodeAt, FieldAt(p, k), d).value]
    <3>1. DecodeAt[p][d] = StructDecode(DecodeAt, p, d)
      BY <2>3, <2>9 DEF DecodeRaw
    <3>2. /\ \A f \in Fields(p) : FieldDecode(DecodeAt, f, d).ok \/ f.optional
          /\ DecodeAt[p][d].value = v
      <4> DEFINE e == StructDecode(DecodeAt, p, d)
      <4>1. /\ e.ok = (\A f \in Fields(p) : FieldDecode(DecodeAt, f, d).ok \/ f.optional)
            /\ e.ok => e.value = v
        BY <2>9, StructDecoded
      <4>2. e.ok /\ DecodeAt[p][d] = e
        BY <2>3, <3>1
      <4> HIDE DEF e, v
      <4>3. \A f \in Fields(p) : FieldDecode(DecodeAt, f, d).ok \/ f.optional
        BY <4>1, <4>2
      <4> QED BY <4>1, <4>2, <4>3
    <3>3. ASSUME NEW f \in Fields(p)
          PROVE  IF v[f.key] = NoValue THEN f.optional ELSE v[f.key] \in Meeting[f.of]
      <4> DEFINE r == FieldDecode(DecodeAt, f, d)
                 e == DecodeAt[f.of][Child(d, f.key)]
      <4>1. f.key \in FieldKeys(p) /\ FieldAt(p, f.key) = f /\ f.of \in Inner(p) /\ f.key \in Keys
        BY <2>9, FieldsByKey
      <4>2. v[f.key] = r.value
        BY <4>1
      <4>3. Child(d, f.key) \in Docs
        BY <4>1, ChildDocs
      <4> HIDE DEF v, Meets
      <4>4. CASE r.ok
        <5>1. e.ok /\ r.value = e.value
          BY <4>4, FieldDecoded
        <5>2. e.value \in Meeting[f.of]
          BY <2>2, <4>1, <4>3, <5>1 DEF Meets
        <5>3. e.value # NoValue
          BY <2>2, <4>1, <5>2, MeetingInValues, MarkersAssumption
        <5> QED BY <4>2, <5>1, <5>2, <5>3
      <4>5. CASE ~r.ok
        <5>1. f.optional
          BY <3>2, <4>5
        <5>2. r.value = Member(f)
          BY <4>5, <5>1, FieldDecoded
        <5> QED BY <4>2, <5>1, <5>2 DEF Member
      <4> QED BY <4>4, <4>5
    <3>4. IsStruct(p, Meeting, v)
      BY <3>3 DEF IsStruct
    <3> HIDE DEF v
    <3>5. v \in StructsOf(p, Meeting)
      BY <2>9, <3>4, StructsAre
    <3> QED BY <2>4, <2>9, <3>2, <3>5 DEF MeetingDef
  <2> QED BY <2>1, <2>6, <2>7, <2>8, <2>9, PropsAre DEF Kinds
<1>2. Props \subseteq T
  <2> HIDE DEF T
  <2> QED BY <1>1, PropsInduction
<1> QED BY <1>2

-----------------------------------------------------------------------------
(***************************************************************************)
(* What is encoded                                                         *)
(***************************************************************************)
LEMMA GoneBelow == \A n \in Nat : Gone \in Lower(n) /\ Gone \in Level[n]
BY LevelsAre, DocsOverHold DEF Lower

LEMMA MapsAreDocs ==
    ASSUME NEW Below, NEW at \in [Keys -> Below]
    PROVE  /\ IsMap(MapOfDocs(at), Below)
           /\ MapOfDocs(at).t = "map" /\ MapOfDocs(at).at = at
<1> DEFINE K == {k \in Keys : at[k] # Gone}
           o == OrderOf[K]
<1>1. o \in Seq(Keys) /\ Enumerates(o, K)
  BY OrdersAssumption
<1>2. MapOfDocs(at) = Map_(o, at)
  BY DEF MapOfDocs
<1>3. MapOfDocs(at).order = o /\ MapOfDocs(at).at = at /\ MapOfDocs(at).t = "map"
  <2> HIDE DEF o
  <2> QED BY <1>2 DEF Map_
<1> HIDE DEF o
<1> QED BY <1>1, <1>2, <1>3 DEF IsMap

\* What is in a list up to the last that was assigned something.
LEMMA ListsAreDocs ==
    ASSUME NEW Below, NEW n \in Nat, NEW at \in [1..n -> Below]
    PROVE  /\ IsList(ListOfDocs(at), Below)
           /\ (\A i \in 1..n : at[i] # Gone) => ListOfDocs(at) = List_(at)
<1> DEFINE Tails == {m \in Nat : \A j \in 1..n : j > m => at[j] = Gone}
           D == {i \in DOMAIN at : \E j \in DOMAIN at : i <= j /\ at[j] # Gone}
           s == [i \in D |-> at[i]]
<1>1. DOMAIN at = 1..n
  OBVIOUS
<1>2. PICK m \in Tails : \A x \in Tails : m <= x
  <2>1. Tails \subseteq Nat /\ n \in Tails
    OBVIOUS
  <2> HIDE DEF Tails
  <2> QED BY <2>1, RLevel!LeastNumber
<1>3. m \in Nat /\ m <= n /\ \A j \in 1..n : j > m => at[j] = Gone
  <2>1. n \in Tails
    OBVIOUS
  <2> QED BY <1>2, <2>1
<1>4. m # 0 => at[m] # Gone
  <2> SUFFICES ASSUME m # 0, at[m] = Gone PROVE FALSE
    OBVIOUS
  <2>1. m - 1 \in Nat /\ \A j \in 1..n : j > m - 1 => j > m \/ j = m
    BY <1>3
  <2>2. m - 1 \in Tails
    BY <1>3, <2>1
  <2> QED BY <1>2, <1>3, <2>2
<1>5. D = 1..m
  <2>1. ASSUME NEW i \in D PROVE i \in 1..m
    <3>1. PICK j \in 1..n : i <= j /\ at[j] # Gone
      BY <1>1
    <3>2. j <= m
      BY <1>3, <3>1
    <3> QED BY <1>1, <1>3, <3>1, <3>2
  <2>2. ASSUME NEW i \in 1..m PROVE i \in D
    BY <1>1, <1>3, <1>4
  <2> QED BY <2>1, <2>2
<1> HIDE DEF D, Tails
<1>6. s \in Seq(Below) /\ Len(s) = m /\ (s # <<>> => m # 0 /\ s[m] = at[m])
  <2>1. s = [i \in 1..m |-> at[i]]
    BY <1>5
  <2>2. \A i \in 1..m : at[i] \in Below
    BY <1>3
  <2> HIDE DEF s
  <2>3. s \in Seq(Below) /\ Len(s) = m
    BY <1>3, <2>1, <2>2
  <2>4. m = 0 => s = <<>>
    BY <2>3
  <2>5. m # 0 => s[m] = at[m]
    BY <1>3, <2>1
  <2> QED BY <2>3, <2>4, <2>5
<1>7. ListOfDocs(at) = List_(s)
  BY DEF ListOfDocs, D
<1>8. ListOfDocs(at).items = s
  <2> HIDE DEF s
  <2> QED BY <1>7 DEF List_
<1>9. ASSUME \A i \in 1..n : at[i] # Gone PROVE s = at
  <2>1. m = n
    BY <1>3, <1>9
  <2> QED BY <1>1, <1>5, <2>1
<1> HIDE DEF s
<1>10. IsList(ListOfDocs(at), Below)
  BY <1>4, <1>6, <1>7, <1>8 DEF IsList
<1> QED BY <1>7, <1>9, <1>10

LEMMA EncodedAre == \A p \in Props : \A v \in Values[p] : EncodeAt[p][v] \in Level[Depth[p]]
<1> DEFINE T == {p \in Props : \A v \in Values[p] : EncodeAt[p][v] \in Level[Depth[p]]}
<1>1. ASSUME NEW p \in Props, \A q \in Inner(p) : q \in T
      PROVE  p \in T
  <2> SUFFICES ASSUME NEW v \in Values[p] PROVE EncodeHere(EncodeAt, p, v) \in Level[Depth[p]]
    BY EncodeUnfold
  <2> DEFINE Under == Lower(Depth[p])
  <2>1. Level[Depth[p]] = DocsOver(Under) /\ Gone \in Under /\ Gone \in Level[Depth[p]]
    BY PropsAre, LevelsAre, GoneBelow
  <2>2. \A q \in Inner(p) : \A w \in Values[q] : EncodeAt[q][w] \in Under
    BY <1>1, InnerAre, PropsAre, LevelsGrow
  <2>3. Values[p] = ValuesDef(Values, p)
    BY ValuesUnfold
  <2> HIDE DEF Under, T
  <2>4. CASE p.k = "int"
    BY <2>1, <2>3, <2>4, DocsOverHold DEF EncodeHere, ValuesDef
  <2>5. CASE p.k = "str"
    BY <2>1, <2>3, <2>5, DocsOverHold DEF EncodeHere, ValuesDef
  <2>6. CASE p.k = "map"
    <3> DEFINE at == [k \in Keys |-> IF v[k] = NoValue THEN Gone ELSE EncodeAt[p.of][v[k]]]
    <3>1. p.of \in Inner(p)
      BY <2>6, ContainersHold DEF IsContainer
    <3>2. v \in [Keys -> {NoValue} \cup Values[p.of]]
      BY <2>3, <2>6 DEF ValuesDef
    <3>3. at \in [Keys -> Under]
      BY <2>1, <2>2, <3>1, <3>2
    <3>4. EncodeHere(EncodeAt, p, v) \in {Gone, MapOfDocs(at)}
      BY <2>6 DEF EncodeHere, MapEncode
    <3> HIDE DEF at
    <3>5. MapOfDocs(at) \in DocsOver(Under)
      BY <3>3, MapsAreDocs, DocsOverHold
    <3> QED BY <2>1, <3>4, <3>5
  <2>7. CASE p.k \in {"list", "array"}
    <3> DEFINE at == [i \in DOMAIN v |-> EncodeAt[p.of][v[i]]]
    <3>1. p.of \in Inner(p)
      BY <2>7, ContainersHold DEF IsContainer
    <3>2. \E n \in Nat : DOMAIN v = 1..n /\ \A i \in 1..n : v[i] \in Values[p.of]
      <4>1. CASE p.k = "list"
        <5>1. v \in Seq(Values[p.of])
          BY <2>3, <4>1 DEF ValuesDef
        <5> QED BY <5>1, SeqsAre
      <4>2. CASE p.k = "array"
        <5>1. v \in [1..p.n -> Values[p.of]] /\ p.n \in Nat
          BY <2>3, <4>2, PropsAre DEF ValuesDef, IsProp
        <5> QED BY <5>1
      <4> QED BY <2>7, <4>1, <4>2
    <3>3. PICK n \in Nat : DOMAIN v = 1..n /\ \A i \in 1..n : v[i] \in Values[p.of]
      BY <3>2
    <3>4. at \in [1..n -> Under]
      BY <2>2, <3>1, <3>3
    <3>5. EncodeHere(EncodeAt, p, v) \in {Gone, ListOfDocs(at)}
      BY <2>7 DEF EncodeHere, ElementsEncode
    <3> HIDE DEF at
    <3>6. ListOfDocs(at) \in DocsOver(Under)
      BY <3>4, ListsAreDocs, DocsOverHold
    <3> QED BY <2>1, <3>5, <3>6
  <2>8. CASE p.k = "struct"
    <3> DEFINE at == [k \in Keys |-> IF k \notin FieldKeys(p) \/ v[k] = NoValue THEN Gone
                                     ELSE EncodeAt[FieldAt(p, k).of][v[k]]]
    <3>1. IsStruct(p, Values, v)
      BY <2>3, <2>8, StructsAre DEF ValuesDef
    <3>2. \A k \in FieldKeys(p) : /\ FieldAt(p, k).of \in Inner(p)
                                  /\ v[k] # NoValue => v[k] \in Values[FieldAt(p, k).of]
      BY <2>8, <3>1, FieldsByKey DEF IsStruct
    <3>3. at \in [Keys -> Under]
      BY <2>1, <2>2, <3>2
    <3>4. EncodeHere(EncodeAt, p, v) = MapOfDocs(at)
      BY <2>8 DEF EncodeHere, StructEncode
    <3> HIDE DEF at
    <3>5. MapOfDocs(at) \in DocsOver(Under)
      BY <3>3, MapsAreDocs, DocsOverHold
    <3> QED BY <2>1, <3>4, <3>5
  <2> QED BY <2>4, <2>5, <2>6, <2>7, <2>8, PropsAre DEF Kinds
<1>2. Props \subseteq T
  <2> HIDE DEF T
  <2> QED BY <1>1, PropsInduction
<1> QED BY <1>2

LEMMA EncodedDocs == \A p \in Props : \A v \in Values[p] : EncodeAt[p][v] \in Docs /\ Encode(p, v) \in Docs
<1>1. \A p \in Props : Level[Depth[p]] \subseteq Docs
  BY PropsAre, BoundsAssumption, LevelsGrow DEF Docs
<1> QED BY <1>1, EncodedAre, MarkersAreDocs DEF Encode

-----------------------------------------------------------------------------
(***************************************************************************)
(* What is encoded is decoded again                                        *)
(***************************************************************************)
LEMMA ElementsAllDecoded ==
    ASSUME NEW p, NEW d, Len(d.items) \in Nat, DOMAIN d.items = 1..Len(d.items),
           \A i \in DOMAIN d.items : DecodeAt[p.of][d.items[i]].ok
    PROVE  ElementsDecode(DecodeAt, p, d)
             = Decoded(TRUE, [i \in DOMAIN d.items |-> DecodeAt[p.of][d.items[i]].value])
<1> DEFINE Got(i) == DecodeAt[p.of][d.items[i]]
           LookedAt(i) == \A j \in 1..(i - 1) : Got(j).ok
           value == [i \in DOMAIN d.items |-> IF LookedAt(i) THEN Got(i).value ELSE Blank[p.of]]
           ok == \A i \in DOMAIN d.items : Got(i).ok
<1>1. ElementsDecode(DecodeAt, p, d) = Decoded(ok, value)
  BY DEF ElementsDecode
<1>2. ok = TRUE
  OBVIOUS
<1>3. \A i \in DOMAIN d.items : LookedAt(i)
  <2>1. \A i \in DOMAIN d.items : \A j \in 1..(i - 1) : j \in DOMAIN d.items
    OBVIOUS
  <2> QED BY <2>1
<1>4. value = [i \in DOMAIN d.items |-> Got(i).value]
  <2> HIDE DEF LookedAt, Got
  <2> QED BY <1>3
<1> HIDE DEF value, ok
<1> QED BY <1>1, <1>2, <1>4

\* A struct whose fields are decoded to the values of v; the others are optional.
LEMMA StructAllDecoded ==
    ASSUME NEW p \in Props, p.k = "struct", NEW d, NEW v, v = [k \in FieldKeys(p) |-> v[k]],
           \A f \in Fields(p) : /\ FieldDecode(DecodeAt, f, d).value = v[f.key]
                                /\ FieldDecode(DecodeAt, f, d).ok \/ f.optional
    PROVE  StructDecode(DecodeAt, p, d) = Decoded(TRUE, v)
<1> DEFINE Got(i) == FieldDecode(DecodeAt, p.fields[i], d)
           Passes(i) == Got(i).ok \/ p.fields[i].optional
           LookedAt(i) == \A j \in 1..(i - 1) : Passes(j)
           At(i) == IF LookedAt(i) THEN Got(i).value ELSE Member(p.fields[i])
           value == [k \in FieldKeys(p) |-> At(FieldIndex(p, k))]
           ok == \A i \in DOMAIN p.fields : Passes(i)
<1>1. StructDecode(DecodeAt, p, d) = Decoded(ok, value)
  BY DEF StructDecode
<1>2. \A i \in DOMAIN p.fields : Passes(i) /\ Got(i).value = v[p.fields[i].key]
  BY DEF Fields
<1>3. ok = TRUE
  BY <1>2
<1>4. \A i \in DOMAIN p.fields : LookedAt(i)
  <2>1. \A i \in DOMAIN p.fields : \A j \in 1..(i - 1) : j \in DOMAIN p.fields
    BY FieldsAre
  <2> HIDE DEF Passes, Got
  <2> QED BY <1>2, <2>1
<1>5. \A k \in FieldKeys(p) : At(FieldIndex(p, k)) = v[k]
  <2>1. \A i \in DOMAIN p.fields : At(i) = v[p.fields[i].key]
    <3> HIDE DEF LookedAt, Got, Passes
    <3> QED BY <1>2, <1>4
  <2> HIDE DEF At
  <2> QED BY <2>1, FieldsByKey DEF FieldAt
<1>6. value = v
  <2> HIDE DEF At
  <2> QED BY <1>5
<1> HIDE DEF value, ok
<1> QED BY <1>1, <1>3, <1>6

\* Documents as they are encoded are of the type of the property and pass ok().
Returns(p, v) ==
    /\ EncodeAt[p][v].t = DocType(p) /\ OkAt[p][EncodeAt[p][v]]
    /\ DecodeAt[p][EncodeAt[p][v]] = Decoded(TRUE, v)

LEMMA ReturnsAre ==
    \A p \in Props : \A v : Returns(p, v) =>
        /\ EncodeAt[p][v] # Gone
        /\ \A b : OkWith(OkAt, p, EncodeAt[p][v], b)
<1> SUFFICES ASSUME NEW p \in Props, NEW v, Returns(p, v)
             PROVE  EncodeAt[p][v] # Gone /\ \A b : OkWith(OkAt, p, EncodeAt[p][v], b)
  OBVIOUS
<1>1. EncodeAt[p][v].t = DocType(p) /\ OkAt[p][EncodeAt[p][v]]
  BY DEF Returns
<1>2. DocType(p) # "gone"
  BY PropsAre DEF DocType, Kinds
<1>3. EncodeAt[p][v] # Gone
  BY <1>1, <1>2 DEF Gone
<1>4. \A b : OkWith(OkAt, p, EncodeAt[p][v], b)
  BY <1>1 DEF OkWith
<1> QED BY <1>3, <1>4

LEMMA EncodedDecodes == \A p \in Props : \A v \in Meeting[p] : v \in Filled[p] => Returns(p, v)
<1> DEFINE T == {p \in Props : \A v \in Meeting[p] : v \in Filled[p] => Returns(p, v)}
<1>1. ASSUME NEW p \in Props, \A q \in Inner(p) : q \in T
      PROVE  p \in T
  <2> SUFFICES ASSUME NEW v \in Meeting[p], v \in Filled[p] PROVE Returns(p, v)
    OBVIOUS
  <2> DEFINE e == EncodeAt[p][v]
  <2>1. \A q \in Inner(p) : \A w \in Meeting[q] : w \in Filled[q] =>
           /\ DecodeAt[q][EncodeAt[q][w]] = Decoded(TRUE, w)
           /\ EncodeAt[q][w] # Gone
           /\ \A b : OkWith(OkAt, q, EncodeAt[q][w], b)
    <3>1. \A q \in Inner(p) : q \in Props /\ \A w \in Meeting[q] : w \in Filled[q] => Returns(q, w)
      BY <1>1, InnerAre
    <3>2. \A q \in Inner(p) : \A w \in Meeting[q] : w \in Filled[q] =>
             EncodeAt[q][w] # Gone /\ \A b : OkWith(OkAt, q, EncodeAt[q][w], b)
      <4> HIDE DEF T
      <4> QED BY <3>1, ReturnsAre
    <3> HIDE DEF T
    <3> QED BY <3>1, <3>2 DEF Returns
  <2>2. e = EncodeHere(EncodeAt, p, v) /\ e \in Docs
    BY MeetingInValues, EncodeUnfold, EncodedDocs
  <2>3. v \in MeetingDef(Meeting, p) /\ v \in FilledDef(Filled, p)
    BY MeetingUnfold, FilledUnfold
  <2>4. \A q \in Inner(p) : NoValue \notin Meeting[q]
    BY InnerAre, MeetingInValues, MarkersAssumption
  <2>5. ASSUME DecodeRaw(DecodeAt, p, e) = Decoded(TRUE, v), e.t = DocType(p), OkAt[p][e]
        PROVE  Returns(p, v)
    <3>1. DecodeAt[p][e] = Decoded(TRUE, v)
      BY <2>2, <2>5, SucceededDecode, Successes
    <3> QED BY <2>5, <3>1 DEF Returns
  <2> HIDE DEF e, T
  <2>6. CASE p.k = "int"
    <3>1. e = Int_(v) /\ IsDivisible(p, v) /\ I!Contains(p.interval, v)
      BY <2>2, <2>3, <2>6 DEF EncodeHere, MeetingDef
    <3>2. e.t = "int" /\ e.value = v
      BY <3>1 DEF Int_
    <3>3. e.t = DocType(p) /\ OkAt[p][e]
      BY <2>2, <2>6, <3>1, <3>2, OkByKind DEF DocType, IntOk
    <3>4. DecodeRaw(DecodeAt, p, e) = Decoded(TRUE, v)
      BY <2>6, <3>1, <3>2, <3>3 DEF DecodeRaw, IntDecode
    <3> QED BY <2>5, <3>3, <3>4
  <2>7. CASE p.k = "str"
    <3>1. e = Str_(v) /\ StrOk(p, v)
      BY <2>2, <2>3, <2>7 DEF EncodeHere, MeetingDef
    <3>2. e.t = "str" /\ e.value = v
      BY <3>1 DEF Str_
    <3>3. e.t = DocType(p) /\ OkAt[p][e]
      BY <2>2, <2>7, <3>1, <3>2, OkByKind DEF DocType
    <3>4. I!Contains(p.length, LengthOf[v]) = TRUE
      BY <3>1 DEF StrOk, I!Contains
    <3>5. DecodeRaw(DecodeAt, p, e) = Decoded(TRUE, v)
      BY <2>7, <3>2, <3>3, <3>4 DEF DecodeRaw, StrDecode
    <3> QED BY <2>5, <3>3, <3>5
  <2>8. CASE p.k = "map"
    <3> DEFINE at == [k \in Keys |-> IF v[k] = NoValue THEN Gone ELSE EncodeAt[p.of][v[k]]]
               K == {k \in Keys : at[k] # Gone}
               Got(k) == DecodeAt[p.of][e.at[k]]
               LookedAt(k) == \E i \in DOMAIN e.order :
                                 e.order[i] = k /\ \A j \in 1..(i - 1) : Got(e.order[j]).ok
               value == [k \in Keys |-> IF LookedAt(k) THEN Got(k).value ELSE NoValue]
    <3>1. p.of \in Inner(p)
      BY <2>8, ContainersHold DEF IsContainer
    <3>2. /\ v \in [Keys -> {NoValue} \cup Meeting[p.of]] /\ v \in [Keys -> {NoValue} \cup Filled[p.of]]
          /\ \A k \in p.required : v[k] # NoValue
          /\ \E k \in Keys : v[k] # NoValue
      BY <2>3, <2>8 DEF MeetingDef, FilledDef
    <3>3. e = MapOfDocs(at)
      BY <2>2, <2>8, <3>2 DEF EncodeHere, MapEncode
    <3>4. e.t = "map" /\ e.at = at /\ IsMap(e, Docs)
      <4>1. \A w \in Values[p.of] : EncodeAt[p.of][w] \in Docs
        BY <3>1, InnerAre, EncodedDocs
      <4>2. at \in [Keys -> Docs]
        BY <3>1, <3>2, <4>1, InnerAre, MeetingInValues, MarkersAreDocs
      <4> HIDE DEF at
      <4> QED BY <3>3, <4>2, MapsAreDocs
    <3>5. \A k \in Keys : v[k] # NoValue =>
             at[k] # Gone /\ DecodeAt[p.of][at[k]] = Decoded(TRUE, v[k])
      BY <2>1, <3>1, <3>2
    <3>6. \A k \in Keys : v[k] = NoValue => at[k] = Gone
      OBVIOUS
    <3> HIDE DEF at
    <3>7. p.required \subseteq Keys
      BY <2>8, PropsAre DEF IsProp
    <3>8. MapOk(p, e)
      BY <3>2, <3>4, <3>5, <3>7 DEF MapOk
    <3>9. e.t = DocType(p) /\ OkAt[p][e]
      BY <2>2, <2>8, <3>4, <3>8, OkByKind DEF DocType
    <3>10. DecodeRaw(DecodeAt, p, e) = Decoded(TRUE, value)
      BY <2>8, <3>8, <3>9 DEF DecodeRaw, MapDecode
    <3>11. /\ e.order \in Seq(Keys) /\ {e.order[i] : i \in DOMAIN e.order} = K
      BY <3>4 DEF IsMap, Enumerates
    <3>12. DOMAIN e.order = 1..Len(e.order) /\ Len(e.order) \in Nat
      BY <3>11, SeqsAre
    <3>13. \A k \in K : Got(k).ok /\ Got(k).value = v[k]
      BY <3>4, <3>5, <3>6, Successes
    <3>14. \A i \in DOMAIN e.order : \A j \in 1..(i - 1) : Got(e.order[j]).ok
      <4>1. \A i \in DOMAIN e.order : e.order[i] \in K
        BY <3>11
      <4>2. \A i \in DOMAIN e.order : \A j \in 1..(i - 1) : j \in DOMAIN e.order
        BY <3>12
      <4> HIDE DEF Got
      <4> QED BY <3>13, <4>1, <4>2
    <3>15. \A k \in Keys : LookedAt(k) <=> k \in K
      <4> HIDE DEF Got, K
      <4> QED BY <3>11, <3>14
    <3>16. \A k \in Keys : (IF LookedAt(k) THEN Got(k).value ELSE NoValue) = v[k]
      <4> HIDE DEF Got, LookedAt
      <4> QED BY <3>5, <3>13, <3>15
    <3>17. value = v
      <4> HIDE DEF Got, LookedAt
      <4> QED BY <3>2, <3>16
    <3> HIDE DEF value
    <3> QED BY <2>5, <3>9, <3>10, <3>17
  <2>9. CASE p.k \in {"list", "array"}
    <3> DEFINE at == [i \in DOMAIN v |-> EncodeAt[p.of][v[i]]]
    <3>1. p.of \in Inner(p)
      BY <2>9, ContainersHold DEF IsContainer
    <3>2. \E n \in Nat : /\ v = [i \in 1..n |-> v[i]]
                         /\ \A i \in 1..n : v[i] \in Meeting[p.of] /\ v[i] \in Filled[p.of]
                         /\ v # <<>>
                         /\ p.k = "list" => I!Contains(p.size, n)
                         /\ p.k = "array" => n = p.n
      <4>1. CASE p.k = "list"
        <5>1. /\ v \in Seq(Meeting[p.of]) /\ v \in Seq(Filled[p.of])
              /\ v # <<>> /\ I!Contains(p.size, Len(v))
          BY <2>3, <4>1 DEF MeetingDef, FilledDef
        <5>2. Len(v) \in Nat /\ v = [i \in 1..Len(v) |-> v[i]]
          BY <5>1
        <5>3. \A i \in 1..Len(v) : v[i] \in Meeting[p.of] /\ v[i] \in Filled[p.of]
          BY <5>1, SeqsAre
        <5> QED BY <4>1, <5>1, <5>2, <5>3
      <4>2. CASE p.k = "array"
        <5>1. /\ v \in [1..p.n -> Meeting[p.of]] /\ v \in [1..p.n -> Filled[p.of]]
              /\ v # <<>> /\ p.n \in Nat
          BY <2>3, <4>2, PropsAre DEF MeetingDef, FilledDef, IsProp
        <5>2. v = [i \in 1..p.n |-> v[i]]
          BY <5>1
        <5> QED BY <4>2, <5>1, <5>2
      <4> QED BY <2>9, <4>1, <4>2
    <3>3. PICK n \in Nat : /\ v = [i \in 1..n |-> v[i]]
                           /\ \A i \in 1..n : v[i] \in Meeting[p.of] /\ v[i] \in Filled[p.of]
                           /\ v # <<>>
                           /\ p.k = "list" => I!Contains(p.size, n)
                           /\ p.k = "array" => n = p.n
      BY <3>2
    <3>4. DOMAIN v = 1..n
      BY <3>3
    <3>5. \A i \in 1..n : /\ EncodeAt[p.of][v[i]] # Gone /\ EncodeAt[p.of][v[i]] \in Docs
                          /\ DecodeAt[p.of][EncodeAt[p.of][v[i]]] = Decoded(TRUE, v[i])
                          /\ \A b : OkWith(OkAt, p.of, EncodeAt[p.of][v[i]], b)
      BY <2>1, <3>1, <3>3, InnerAre, MeetingInValues, EncodedDocs
    <3>6. at \in [1..n -> Docs] /\ \A i \in 1..n : at[i] = EncodeAt[p.of][v[i]]
      BY <3>4, <3>5
    <3>7. e = ListOfDocs(at)
      BY <2>2, <2>9, <3>3 DEF EncodeHere, ElementsEncode
    <3> HIDE DEF at
    <3>8. e = List_(at)
      <4>1. \A i \in 1..n : at[i] # Gone
        BY <3>5, <3>6
      <4>2. ListOfDocs(at) = List_(at)
        BY <3>6, <4>1, ListsAreDocs
      <4> QED BY <3>7, <4>2
    <3>9. e.t = "list" /\ e.items = at
      BY <3>8 DEF List_
    <3>10. Len(at) = n /\ DOMAIN at = 1..n
      BY <3>6
    <3>11. e.t = DocType(p)
      BY <2>9, <3>9 DEF DocType
    <3>12. /\ p.k = "list" => ListOk(OkAt, p, e)
           /\ p.k = "array" => ArrayOk(OkAt, p, e)
      BY <3>3, <3>5, <3>6, <3>9, <3>10 DEF ListOk, ArrayOk
    <3>13. OkAt[p][e]
      BY <2>2, <2>9, <3>11, <3>12, OkByKind
    <3>14. ElementsDecode(DecodeAt, p, e) = Decoded(TRUE, v)
      <4> DEFINE w == [i \in DOMAIN e.items |-> DecodeAt[p.of][e.items[i]].value]
      <4>1. Len(e.items) \in Nat /\ DOMAIN e.items = 1..Len(e.items)
        BY <3>9, <3>10
      <4>2. \A i \in DOMAIN e.items : DecodeAt[p.of][e.items[i]] = Decoded(TRUE, v[i])
        BY <3>5, <3>6, <3>9, <3>10
      <4>3. \A i \in DOMAIN e.items : DecodeAt[p.of][e.items[i]].ok
                                     /\ DecodeAt[p.of][e.items[i]].value = v[i]
        BY <4>2, Successes
      <4>4. ElementsDecode(DecodeAt, p, e) = Decoded(TRUE, w)
        BY <4>1, <4>3, ElementsAllDecoded
      <4>5. w = v
        BY <3>3, <3>9, <3>10, <4>3
      <4> HIDE DEF w
      <4> QED BY <4>4, <4>5
    <3>15. DecodeRaw(DecodeAt, p, e) = Decoded(TRUE, v)
      BY <2>9, <3>3, <3>9, <3>10, <3>11, <3>14 DEF DecodeRaw, ListDecode, ArrayDecode
    <3> QED BY <2>5, <3>11, <3>13, <3>15
  <2>10. CASE p.k = "struct"
    <3> DEFINE at == [k \in Keys |-> IF k \notin FieldKeys(p) \/ v[k] = NoValue THEN Gone
                                     ELSE EncodeAt[FieldAt(p, k).of][v[k]]]
    <3>1. IsStruct(p, Meeting, v) /\ IsStruct(p, Filled, v)
      BY <2>3, <2>10, StructsAre DEF MeetingDef, FilledDef
    <3>2. e = MapOfDocs(at)
      BY <2>2, <2>10 DEF EncodeHere, StructEncode
    <3>3. ASSUME NEW f \in Fields(p)
          PROVE  /\ v[f.key] = NoValue => f.optional /\ at[f.key] = Gone
                 /\ v[f.key] # NoValue =>
                       /\ at[f.key] = EncodeAt[f.of][v[f.key]] /\ at[f.key] # Gone
                       /\ DecodeAt[f.of][at[f.key]] = Decoded(TRUE, v[f.key])
                       /\ \A b : OkWith(OkAt, f.of, at[f.key], b)
      <4>1. f.key \in FieldKeys(p) /\ f.key \in Keys /\ FieldAt(p, f.key) = f /\ f.of \in Inner(p)
        BY <2>10, FieldsByKey
      <4>2. /\ v[f.key] = NoValue => at[f.key] = Gone
            /\ v[f.key] # NoValue => at[f.key] = EncodeAt[f.of][v[f.key]]
        BY <4>1
      <4>3. /\ v[f.key] = NoValue => f.optional
            /\ v[f.key] # NoValue => v[f.key] \in Meeting[f.of] /\ v[f.key] \in Filled[f.of]
        BY <3>1 DEF IsStruct
      <4> HIDE DEF at
      <4> QED BY <2>1, <4>1, <4>2, <4>3
    <3>4. e.t = "map" /\ e.at = at
      <4>1. \A k \in FieldKeys(p) : v[k] # NoValue => EncodeAt[FieldAt(p, k).of][v[k]] \in Docs
        <5>1. \A k \in FieldKeys(p) : FieldAt(p, k) \in Fields(p) /\ FieldAt(p, k).key = k /\ FieldAt(p, k).of \in Props
          BY <2>10, FieldsByKey
        <5>2. \A k \in FieldKeys(p) : v[k] # NoValue => v[k] \in Values[FieldAt(p, k).of]
          BY <3>1, <5>1, MeetingInValues DEF IsStruct
        <5> QED BY <5>1, <5>2, EncodedDocs
      <4>2. at \in [Keys -> Docs]
        BY <4>1, MarkersAreDocs
      <4> HIDE DEF at
      <4> QED BY <3>2, <4>2, MapsAreDocs
    <3> HIDE DEF at
    <3>5. e.t = DocType(p)
      BY <2>10, <3>4 DEF DocType
    <3>6. ASSUME NEW f \in Fields(p)
          PROVE  OkWith(OkAt, f.of, at[f.key], ~f.optional)
      <4>1. CASE v[f.key] = NoValue
        <5>1. f.of \in Props /\ f.optional
          BY <2>10, <3>3, <4>1, FieldsByKey
        <5>2. DocType(f.of) # "gone"
          BY <5>1, PropsAre DEF DocType, Kinds
        <5>3. at[f.key] = Gone
          BY <3>3, <4>1
        <5>4. at[f.key].t # DocType(f.of)
          BY <5>2, <5>3 DEF Gone
        <5> QED BY <5>1, <5>4 DEF OkWith
      <4>2. CASE v[f.key] # NoValue
        BY <3>3, <4>2
      <4> QED BY <4>1, <4>2
    <3>7. OkAt[p][e]
      BY <2>2, <2>10, <3>4, <3>5, <3>6, OkByKind DEF StructOk
    <3>8. ASSUME NEW f \in Fields(p)
          PROVE  /\ FieldDecode(DecodeAt, f, e).value = v[f.key]
                 /\ FieldDecode(DecodeAt, f, e).ok \/ f.optional
      <4>1. Child(e, f.key) = at[f.key]
        BY <3>4 DEF Child
      <4>2. CASE v[f.key] = NoValue
        <5>1. FieldDecode(DecodeAt, f, e).value = Member(f) /\ f.optional
          BY <3>3, <4>1, <4>2, FieldDecoded
        <5> QED BY <4>2, <5>1 DEF Member
      <4>3. CASE v[f.key] # NoValue
        <5>1. DecodeAt[f.of][Child(e, f.key)].ok /\ DecodeAt[f.of][Child(e, f.key)].value = v[f.key]
          BY <3>3, <4>1, <4>3, Successes
        <5>2. Child(e, f.key) # Gone
          BY <3>3, <4>1, <4>3
        <5> QED BY <5>1, <5>2, FieldDecoded
      <4> QED BY <4>2, <4>3
    <3>9. StructDecode(DecodeAt, p, e) = Decoded(TRUE, v)
      <4>1. v = [k \in FieldKeys(p) |-> v[k]]
        BY <3>1 DEF IsStruct
      <4> QED BY <2>10, <3>8, <4>1, StructAllDecoded
    <3>10. DecodeRaw(DecodeAt, p, e) = Decoded(TRUE, v)
      BY <2>10, <3>9 DEF DecodeRaw
    <3> QED BY <2>5, <3>5, <3>7, <3>10
  <2> QED BY <2>6, <2>7, <2>8, <2>9, <2>10, PropsAre DEF Kinds
<1>2. Props \subseteq T
  <2> HIDE DEF T
  <2> QED BY <1>1, PropsInduction
<1> QED BY <1>2

-----------------------------------------------------------------------------
(***************************************************************************)
(* The program                                                             *)
(***************************************************************************)
\* A document that was saved is what its value is encoded to.
SavedInv == saved # Unsaved => doc = Encode(prop, saved.value)

CodecInv == TypeOK /\ SavedInv

LEMMA InitInv == Init => CodecInv
<1> SUFFICES ASSUME Init PROVE CodecInv
  OBVIOUS
<1>1. prop \in Props
  BY PropsAssumption DEF Init
<1> QED BY <1>1, MarkersAreDocs DEF Init, CodecInv, TypeOK, SavedInv

\* Until there is a value saved, a description changes to one of Props, or the
\* document to another.
LEMMA StepsAre ==
    ASSUME TypeOK, Next
    PROVE  \/ prop' \in Props /\ doc' \in Docs /\ saved' = Unsaved
           \/ \E v \in Saves(prop) : Save(v)
<1>1. saved = Unsaved /\ prop \in Props /\ doc \in Docs
  BY DEF Next, Describing, TypeOK
<1>2. ASSUME NEW p, Describe(p) PROVE prop' \in Props /\ doc' \in Docs /\ saved' = Unsaved
  BY <1>1, <1>2 DEF Describe
<1>3. ASSUME NEW p, Of(p) PROVE prop' \in Props /\ doc' \in Docs /\ saved' = Unsaved
  BY <1>1, <1>3 DEF Of
<1>4. AsMap(doc) \in Docs
  BY <1>1, MarkersAreDocs DEF AsMap
<1>5. ASSUME NEW f, To(f) \/ AddField(f) PROVE prop' \in Props /\ doc' \in Docs /\ saved' = Unsaved
  BY <1>1, <1>4, <1>5 DEF To, AddField
<1>6. ASSUME NEW d \in Loads(prop), Load(d) PROVE prop' \in Props /\ doc' \in Docs /\ saved' = Unsaved
  BY <1>1, <1>6, BoundsAssumption DEF Load
<1>7. CASE \E v \in Saves(prop) : DefaultValue(v)
  BY <1>2, <1>7 DEF DefaultValue
<1>8. CASE \E i \in Ranges : SetInterval(i)
  BY <1>2, <1>8 DEF SetInterval
<1>9. CASE \E n \in Divisors : MutipleOf(n)
  BY <1>2, <1>9 DEF MutipleOf
<1>10. CASE WithClamp
  BY <1>2, <1>10 DEF WithClamp
<1>11. CASE \E S \in SUBSET Strs : S # {} /\ OneOf(S)
  BY <1>2, <1>11 DEF OneOf
<1>12. CASE \E i \in Sizes : Length(i) \/ Size(i)
  BY <1>2, <1>12 DEF Length, Size
<1>13. CASE \E K \in SUBSET Keys : Containing(K)
  BY <1>2, <1>13 DEF Containing
<1>14. CASE Of(MapOf(prop)) \/ Of(ListOf(prop)) \/ \E n \in Extents : Of(ArrayOf(prop, n))
  BY <1>3, <1>14
<1>15. CASE \E optional \in BOOLEAN, p \in AsField(prop) : To(Field(KeyList[1], optional, p))
  BY <1>5, <1>15
<1>16. CASE \E optional \in BOOLEAN : AddField(Field(KeyList[Len(prop.fields) + 1], optional, StrProp))
  BY <1>5, <1>16
<1>17. CASE \E d \in Loads(prop) : Load(d)
  BY <1>6, <1>17
<1> QED BY <1>7, <1>8, <1>9, <1>10, <1>11, <1>12, <1>13, <1>14, <1>15, <1>16, <1>17 DEF Next

LEMMA NextInv == CodecInv /\ [Next]_vars => CodecInv'
<1> SUFFICES ASSUME CodecInv, [Next]_vars PROVE CodecInv'
  OBVIOUS
<1>1. CASE prop' \in Props /\ doc' \in Docs /\ saved' = Unsaved
  BY <1>1 DEF CodecInv, TypeOK, SavedInv
<1>2. ASSUME NEW v \in Saves(prop), Save(v) PROVE CodecInv'
  <2>1. prop \in Props /\ v \in Values[prop] /\ prop' = prop
    BY <1>2, BoundsAssumption DEF CodecInv, TypeOK, Save
  <2>2. doc' = Encode(prop, v) /\ saved' = [value |-> v]
    BY <1>2 DEF Save
  <2>3. doc' \in Docs
    BY <2>1, <2>2, EncodedDocs
  <2>4. saved' \in [value : Values[prop']] /\ saved'.value = v
    BY <2>1, <2>2
  <2> QED BY <2>1, <2>2, <2>3, <2>4 DEF CodecInv, TypeOK, SavedInv
<1>3. CASE UNCHANGED vars
  BY <1>3 DEF vars, CodecInv, TypeOK, SavedInv
<1> QED BY <1>1, <1>2, <1>3, StepsAre DEF CodecInv

LEMMA InvHolds == Spec => []CodecInv
<1> QED BY InitInv, NextInv, PTL DEF Spec

\* What is described is one of the properties, with a document of the model at
\* its source: what is encoded is no deeper than the property, a list does not
\* end in a gap, and a map has its keys once each.
THEOREM CodecTypes == Spec => []TypeOK
<1>1. CodecInv => TypeOK
  BY DEF CodecInv
<1> QED BY <1>1, InvHolds, PTL

LEMMA PartsOfProp ==
    /\ ~HasDefault <=> NoDefault(prop)
    /\ ~HasAllowed <=> NoAllowed(prop)
    /\ ~HasOptional <=> NoOptional(prop)
    /\ AllLinked <=> NoLoose(prop)
    /\ ClampsFreely <=> ClampsWithin(prop)
    /\ \A kind : ~Is(kind) <=> None(prop, kind)
BY DEF HasDefault, NoDefault, HasAllowed, NoAllowed, HasOptional, NoOptional, AllLinked, NoLoose,
       ClampsFreely, ClampsWithin, Is, None

\* What decodes without a default passes ok(), for properties of any depth,
\* if no string is one of some and no field is optional.
THEOREM WhatDecodesPassesOk == Spec => []DecodedPassesOk
<1>1. CodecInv => DecodedPassesOk
  <2> SUFFICES ASSUME prop \in Props, doc \in Docs, NoDefault(prop), NoAllowed(prop), NoOptional(prop),
                      DecodeAt[prop][doc].ok
               PROVE  OkWith(OkAt, prop, doc, TRUE)
    BY PartsOfProp DEF CodecInv, TypeOK, DecodedPassesOk, Decode, Ok
  <2>1. doc.t = DocType(prop) /\ OkAt[prop][doc]
    BY DecodedDocsPass
  <2> QED BY <2>1, OkHolds
<1> QED BY <1>1, InvHolds, PTL

\* What passes ok() decodes, for properties of any depth without a MonoList or a
\* default in them, and with what arrays hold linked to them.
THEOREM WhatPassesOkDecodes == Spec => []OkDecodes
<1>1. CodecInv => OkDecodes
  <2> SUFFICES ASSUME prop \in Props, doc \in Docs, NoDefault(prop), NoLoose(prop), None(prop, "list"),
                      OkWith(OkAt, prop, doc, TRUE)
               PROVE  DecodeAt[prop][doc].ok
    BY PartsOfProp DEF CodecInv, TypeOK, OkDecodes, Decode, Ok
  <2>1. doc.t = DocType(prop) /\ OkAt[prop][doc]
    BY PartsInherit, OkNeeded
  <2> QED BY <2>1, OkDocsDecode
<1> QED BY <1>1, InvHolds, PTL

\* What is decoded is as described, clamped or not, for properties of any depth.
THEOREM WhatDecodesIsAsDescribed == Spec => []DecodedIsAsDescribed
<1>1. CodecInv => DecodedIsAsDescribed
  <2> SUFFICES ASSUME prop \in Props, doc \in Docs, NoDefault(prop), NoAllowed(prop), None(prop, "map"),
                      ClampsWithin(prop), DecodeAt[prop][doc].ok
               PROVE  DecodeAt[prop][doc].value \in Meeting[prop]
    BY PartsOfProp DEF CodecInv, TypeOK, DecodedIsAsDescribed, Decode
  <2> QED BY DecodedMeets
<1> QED BY <1>1, InvHolds, PTL

\* A value that was saved is loaded again and passes ok(), for values of any
\* depth and length.
THEOREM WhatIsSavedIsLoaded == Spec => []SavedIsLoaded
<1>1. CodecInv => SavedIsLoaded
  <2> SUFFICES ASSUME CodecInv, saved # Unsaved, saved.value \in Meeting[prop], saved.value \in Filled[prop]
               PROVE  Decode(prop, doc) = Decoded(TRUE, saved.value) /\ Ok(prop, doc, TRUE)
    BY DEF SavedIsLoaded
  <2>1. prop \in Props /\ doc = Encode(prop, saved.value)
    BY DEF CodecInv, TypeOK, SavedInv
  <2>2. Returns(prop, saved.value)
    BY <2>1, EncodedDecodes
  <2>3. EncodeAt[prop][saved.value] # Gone /\ OkWith(OkAt, prop, EncodeAt[prop][saved.value], TRUE)
    BY <2>1, <2>2, ReturnsAre
  <2>4. doc = EncodeAt[prop][saved.value]
    BY <2>1, <2>3 DEF Encode
  <2> QED BY <2>2, <2>3, <2>4 DEF Returns, Decode, Ok
<1> QED BY <1>1, InvHolds, PTL

\* A default stands in as a whole for what is missing or not of its type.
THEOREM DefaultsStandInWhole == Spec => []DefaultStandsIn
<1>1. CodecInv => DefaultStandsIn
  BY DefaultsStandIn DEF CodecInv, TypeOK, DefaultStandsIn, Decode
<1> QED BY <1>1, InvHolds, PTL

-----------------------------------------------------------------------------
(***************************************************************************)
(* The reports are what they are defined to be                             *)
(***************************************************************************)
ReportDef(f, p) == [src \in Sources |-> [isNeeded \in BOOLEAN |-> ReportHere(f, p, src, isNeeded)]]
RReport == INSTANCE RankRecursion WITH S <- Props, Rank <- Depth, Def <- ReportDef

FittingDef(f, p) ==
    {d \in Docs :
        IsScalar(p) \/
        /\ d.t = DocType(p)
        /\ CASE p.k = "struct" -> \A x \in Fields(p) : d.at[x.key] # Gone => d.at[x.key] \in f[x.of]
             [] p.k = "map"    -> \A k \in Keys : d.at[k] # Gone => d.at[k] \in f[p.of]
             [] OTHER          -> \A i \in DOMAIN d.items : d.items[i] \in f[p.of]}
RFitting == INSTANCE RankRecursion WITH S <- Props, Rank <- Depth, Def <- FittingDef

RSchema == INSTANCE RankRecursion WITH S <- Props, Rank <- Depth, Def <- SchemaHere

EndsDef(f, p) == [src \in Sources |-> SchemaEndsHere(f, p, src)]
REnds == INSTANCE RankRecursion WITH S <- Props, Rank <- Depth, Def <- EndsDef

LEMMA ReportIsLocal ==
    \A f, g : \A p \in Props : (\A q \in Inner(p) : f[q] = g[q]) =>
        \A src, b : ReportHere(f, p, src, b) = ReportHere(g, p, src, b)
<1> SUFFICES ASSUME NEW f, NEW g, NEW p \in Props, \A q \in Inner(p) : f[q] = g[q], NEW src, NEW b
             PROVE  ReportHere(f, p, src, b) = ReportHere(g, p, src, b)
  OBVIOUS
<1>1. CASE IsContainer(p)
  <2>1. f[p.of] = g[p.of]
    BY <1>1, ContainersHold
  <2>2. Example(f, p) = Example(g, p)
    BY <2>1 DEF Example
  <2>3. MapReport(f, p, src) = MapReport(g, p, src)
    BY <2>1, <2>2 DEF MapReport
  <2>4. ListReport(f, p, src, b) = ListReport(g, p, src, b)
    BY <2>1, <2>2 DEF ListReport
  <2> QED BY <1>1, <2>3, <2>4 DEF ReportHere, IsContainer
<1>2. CASE p.k = "struct"
  <2> DEFINE At(h) == [i \in DOMAIN p.fields |->
                          h[p.fields[i].of][ChildSource(Shown(p, src), p.fields[i].key)][~p.fields[i].optional]]
  <2>1. \A i \in DOMAIN p.fields : f[p.fields[i].of] = g[p.fields[i].of]
    BY <1>2, FieldsAre
  <2>2. At(f) = At(g)
    BY <2>1
  <2>3. \A h : StructReport(h, p, src) = IF src = NoSource THEN Stuck ELSE InTurn(At(h))
    BY DEF StructReport
  <2> HIDE DEF At
  <2>4. StructReport(f, p, src) = StructReport(g, p, src)
    BY <2>2, <2>3
  <2> QED BY <1>2, <2>4 DEF ReportHere
<1>3. CASE p.k \in {"int", "str"}
  BY <1>3 DEF ReportHere
<1> QED BY <1>1, <1>2, <1>3, PropsAre DEF IsContainer, Kinds

LEMMA ReportUnfold ==
    \A p \in Props : \A src \in Sources : \A b \in BOOLEAN : Report[p][src][b] = ReportHere(Report, p, src, b)
<1>1. RReport!Ranked
  BY PropsAre DEF RReport!Ranked
<1>2. RReport!Local
  <2> SUFFICES ASSUME NEW f, NEW g, NEW p \in Props,
                      \A q \in Props : Depth[q] < Depth[p] => f[q] = g[q]
               PROVE  ReportDef(f, p) = ReportDef(g, p)
    BY DEF RReport!Local
  <2>1. \A src, b : ReportHere(f, p, src, b) = ReportHere(g, p, src, b)
    BY InnerAre, ReportIsLocal
  <2> QED BY <2>1 DEF ReportDef
<1>3. RReport!HasSolution
  BY <1>1, <1>2, RReport!RankRecursion
<1>4. Report = [p \in Props |-> ReportDef(Report, p)]
  BY <1>3 DEF RReport!HasSolution, RReport!Solves, ReportDef, Report
<1>5. \A p \in Props : Report[p] = ReportDef(Report, p)
  BY <1>4
<1>6. \A p \in Props : \A src \in Sources :
         Report[p][src] = [isNeeded \in BOOLEAN |-> ReportHere(Report, p, src, isNeeded)]
  BY <1>5 DEF ReportDef
<1> QED BY <1>6, Zenon

LEMMA FittingUnfold == \A p \in Props : Fitting[p] = FittingDef(Fitting, p)
<1>1. RFitting!Ranked
  BY PropsAre DEF RFitting!Ranked
<1>2. RFitting!Local
  <2> SUFFICES ASSUME NEW f, NEW g, NEW p \in Props,
                      \A q \in Props : Depth[q] < Depth[p] => f[q] = g[q]
               PROVE  FittingDef(f, p) = FittingDef(g, p)
    BY DEF RFitting!Local
  <2>1. CASE IsContainer(p)
    <3>1. f[p.of] = g[p.of]
      BY <2>1, ContainersHold
    <3> QED BY <2>1, <3>1 DEF FittingDef, IsContainer
  <2>2. CASE p.k = "struct"
    <3>1. \A x \in Fields(p) : f[x.of] = g[x.of]
      BY <2>2, FieldsByKey
    <3> QED BY <2>2, <3>1 DEF FittingDef
  <2>3. CASE p.k \in {"int", "str"}
    BY <2>3 DEF FittingDef, IsScalar
  <2> QED BY <2>1, <2>2, <2>3, PropsAre DEF IsContainer, Kinds
<1>3. RFitting!HasSolution
  BY <1>1, <1>2, RFitting!RankRecursion
<1>4. Fitting = [p \in Props |-> FittingDef(Fitting, p)]
  BY <1>3 DEF RFitting!HasSolution, RFitting!Solves, FittingDef, Fitting
<1> QED BY <1>4

LEMMA SchemaUnfold == \A p \in Props : Schema[p] = SchemaHere(Schema, p)
<1>1. RSchema!Ranked
  BY PropsAre DEF RSchema!Ranked
<1>2. RSchema!Local
  <2> SUFFICES ASSUME NEW f, NEW g, NEW p \in Props,
                      \A q \in Props : Depth[q] < Depth[p] => f[q] = g[q]
               PROVE  SchemaHere(f, p) = SchemaHere(g, p)
    BY DEF RSchema!Local
  <2>1. CASE IsContainer(p)
    <3>1. f[p.of] = g[p.of]
      BY <2>1, ContainersHold
    <3> QED BY <2>1, <3>1 DEF SchemaHere, MapSchema, ListSchema, IsContainer
  <2>2. CASE p.k = "struct"
    <3> DEFINE At(h) == [k \in FieldKeys(p) |-> h[FieldAt(p, k).of]]
    <3>1. At(f) = At(g)
      BY <2>2, FieldsByKey
    <3>2. \A h : StructSchema(h, p) =
            [type |-> "object", required |-> {k \in FieldKeys(p) : ~FieldAt(p, k).optional},
             properties |-> At(h), additional |-> {}]
      BY DEF StructSchema
    <3> HIDE DEF At
    <3>3. StructSchema(f, p) = StructSchema(g, p)
      BY <3>1, <3>2
    <3> QED BY <2>2, <3>3 DEF SchemaHere
  <2>3. CASE p.k \in {"int", "str"}
    BY <2>3 DEF SchemaHere
  <2> QED BY <2>1, <2>2, <2>3, PropsAre DEF IsContainer, Kinds
<1>3. RSchema!HasSolution
  BY <1>1, <1>2, RSchema!RankRecursion
<1>4. Schema = [p \in Props |-> SchemaHere(Schema, p)]
  BY <1>3 DEF RSchema!HasSolution, RSchema!Solves, Schema
<1> QED BY <1>4

LEMMA EndsUnfold == \A p \in Props : \A src \in Sources : SchemaEnds[p][src] = SchemaEndsHere(SchemaEnds, p, src)
<1>1. REnds!Ranked
  BY PropsAre DEF REnds!Ranked
<1>2. REnds!Local
  <2> SUFFICES ASSUME NEW f, NEW g, NEW p \in Props,
                      \A q \in Props : Depth[q] < Depth[p] => f[q] = g[q]
               PROVE  EndsDef(f, p) = EndsDef(g, p)
    BY DEF REnds!Local
  <2> SUFFICES ASSUME NEW src PROVE SchemaEndsHere(f, p, src) = SchemaEndsHere(g, p, src)
    BY DEF EndsDef
  <2>1. CASE IsContainer(p)
    <3>1. f[p.of] = g[p.of]
      BY <2>1, ContainersHold
    <3> QED BY <2>1, <3>1 DEF SchemaEndsHere, IsContainer
  <2>2. CASE p.k = "struct"
    <3>1. \A x \in Fields(p) : f[x.of] = g[x.of]
      BY <2>2, FieldsByKey
    <3> QED BY <2>2, <3>1 DEF SchemaEndsHere
  <2>3. CASE p.k \in {"int", "str"}
    BY <2>3 DEF SchemaEndsHere
  <2> QED BY <2>1, <2>2, <2>3, PropsAre DEF IsContainer, Kinds
<1>3. REnds!HasSolution
  BY <1>1, <1>2, REnds!RankRecursion
<1>4. SchemaEnds = [p \in Props |-> EndsDef(SchemaEnds, p)]
  BY <1>3 DEF REnds!HasSolution, REnds!Solves, EndsDef, SchemaEnds
<1>5. \A p \in Props : SchemaEnds[p] = EndsDef(SchemaEnds, p)
  BY <1>4
<1> QED BY <1>5 DEF EndsDef

-----------------------------------------------------------------------------
(***************************************************************************)
(* What a validator accepts, of the schema of a property                   *)
(***************************************************************************)
Ranks(s) == {Depth[p] : p \in {q \in Props : Schema[q] = s}}
SchemaRank == [s \in Schemas |-> CHOOSE n \in Ranks(s) : \A m \in Ranks(s) : n <= m]
AcceptsDef(f, s) == [d \in Docs |-> AcceptsHere(f, s, d)]
RAccepts == INSTANCE RankRecursion WITH S <- Schemas, Rank <- SchemaRank, Def <- AcceptsDef

\* A schema is that of a property of its rank, and of none of a lower rank.
LEMMA SchemasRanked ==
    /\ \A s \in Schemas : SchemaRank[s] \in Nat /\ \E p \in Props : Schema[p] = s /\ Depth[p] = SchemaRank[s]
    /\ \A p \in Props : Schema[p] \in Schemas /\ SchemaRank[Schema[p]] <= Depth[p]
<1>1. ASSUME NEW s \in Schemas
      PROVE  /\ SchemaRank[s] \in Ranks(s) /\ \A m \in Ranks(s) : SchemaRank[s] <= m
             /\ Ranks(s) \subseteq Nat
  <2>1. Ranks(s) \subseteq Nat
    BY PropsAre DEF Ranks
  <2>2. Ranks(s) # {}
    BY DEF Schemas, Ranks
  <2>3. \E n \in Ranks(s) : \A m \in Ranks(s) : n <= m
    BY <2>1, <2>2, RLevel!LeastNumber
  <2> QED BY <2>1, <2>3 DEF SchemaRank
<1>2. \A s \in Schemas : SchemaRank[s] \in Nat /\ \E p \in Props : Schema[p] = s /\ Depth[p] = SchemaRank[s]
  BY <1>1 DEF Ranks
<1>3. ASSUME NEW p \in Props PROVE Schema[p] \in Schemas /\ SchemaRank[Schema[p]] <= Depth[p]
  <2>1. Schema[p] \in Schemas
    BY DEF Schemas
  <2>2. Depth[p] \in Ranks(Schema[p])
    BY DEF Ranks
  <2> QED BY <1>1, <2>1, <2>2
<1> QED BY <1>2, <1>3

\* What is in the schema of a property.
LEMMA SchemasAre ==
    \A p \in Props :
        /\ p.k = "int"    => Schema[p] = IntSchema(p) /\ Schema[p].type = "integer"
        /\ p.k = "str"    => Schema[p] = StrSchema(p) /\ Schema[p].type = "string"
        /\ p.k = "map"    => /\ Schema[p].type = "object" /\ Schema[p].required = p.required
                             /\ Schema[p].properties = <<>> /\ Schema[p].additional = {Schema[p.of]}
        /\ p.k \in {"list", "array"} => Schema[p].type = "array" /\ Schema[p].items = Schema[p.of]
        /\ p.k = "struct" => /\ Schema[p].type = "object"
                             /\ Schema[p].required = {k \in FieldKeys(p) : ~FieldAt(p, k).optional}
                             /\ DOMAIN Schema[p].properties = FieldKeys(p)
                             /\ \A k \in FieldKeys(p) : Schema[p].properties[k] = Schema[FieldAt(p, k).of]
                             /\ Schema[p].additional = {}
<1> SUFFICES ASSUME NEW p \in Props
             PROVE
        /\ p.k = "int"    => Schema[p] = IntSchema(p) /\ Schema[p].type = "integer"
        /\ p.k = "str"    => Schema[p] = StrSchema(p) /\ Schema[p].type = "string"
        /\ p.k = "map"    => /\ Schema[p].type = "object" /\ Schema[p].required = p.required
                             /\ Schema[p].properties = <<>> /\ Schema[p].additional = {Schema[p.of]}
        /\ p.k \in {"list", "array"} => Schema[p].type = "array" /\ Schema[p].items = Schema[p.of]
        /\ p.k = "struct" => /\ Schema[p].type = "object"
                             /\ Schema[p].required = {k \in FieldKeys(p) : ~FieldAt(p, k).optional}
                             /\ DOMAIN Schema[p].properties = FieldKeys(p)
                             /\ \A k \in FieldKeys(p) : Schema[p].properties[k] = Schema[FieldAt(p, k).of]
                             /\ Schema[p].additional = {}
  OBVIOUS
<1>0. Schema[p] = SchemaHere(Schema, p)
  BY SchemaUnfold
<1>1. p.k = "int" => Schema[p] = IntSchema(p) /\ Schema[p].type = "integer"
  BY <1>0 DEF SchemaHere, IntSchema
<1>2. p.k = "str" => Schema[p] = StrSchema(p) /\ Schema[p].type = "string"
  BY <1>0 DEF SchemaHere, StrSchema
<1>3. CASE p.k = "map"
  <2>1. Schema[p] = MapSchema(Schema, p)
    BY <1>0, <1>3 DEF SchemaHere
  <2> DEFINE None0 == <<>>
             extra == {Schema[p.of]}
  <2>2. Schema[p] = [type |-> "object", required |-> p.required, properties |-> None0, additional |-> extra]
    BY <2>1 DEF MapSchema
  <2> HIDE DEF None0, extra
  <2>3. /\ Schema[p].type = "object" /\ Schema[p].required = p.required
        /\ Schema[p].properties = None0 /\ Schema[p].additional = extra
    BY <2>2
  <2> QED BY <1>3, <2>3 DEF None0, extra
<1>4. CASE p.k \in {"list", "array"}
  <2>1. Schema[p] = ListSchema(Schema, p)
    BY <1>0, <1>4 DEF SchemaHere
  <2> QED BY <1>4, <2>1 DEF ListSchema
<1>5. CASE p.k = "struct"
  <2> DEFINE needed == {k \in FieldKeys(p) : ~FieldAt(p, k).optional}
             at == [k \in FieldKeys(p) |-> Schema[FieldAt(p, k).of]]
             no == {}
  <2>1. Schema[p] = StructSchema(Schema, p)
    BY <1>0, <1>5 DEF SchemaHere
  <2>2. Schema[p] = [type |-> "object", required |-> needed, properties |-> at, additional |-> no]
    BY <2>1 DEF StructSchema
  <2>3. DOMAIN at = FieldKeys(p) /\ \A k \in FieldKeys(p) : at[k] = Schema[FieldAt(p, k).of]
    OBVIOUS
  <2> HIDE DEF needed, at, no
  <2>4. /\ Schema[p].type = "object" /\ Schema[p].required = needed
        /\ Schema[p].properties = at /\ Schema[p].additional = no
    BY <2>2
  <2> QED BY <1>5, <2>3, <2>4 DEF needed, no
<1> QED BY <1>1, <1>2, <1>3, <1>4, <1>5, PropsAre DEF Kinds

LEMMA AcceptsIsLocal ==
    \A f, g : \A p \in Props : (\A q \in Inner(p) : f[Schema[q]] = g[Schema[q]]) =>
        \A d : AcceptsHere(f, Schema[p], d) = AcceptsHere(g, Schema[p], d)
<1> SUFFICES ASSUME NEW f, NEW g, NEW p \in Props, \A q \in Inner(p) : f[Schema[q]] = g[Schema[q]], NEW d
             PROVE  AcceptsHere(f, Schema[p], d) = AcceptsHere(g, Schema[p], d)
  OBVIOUS
<1>1. CASE p.k = "map"
  <2>1. f[Schema[p.of]] = g[Schema[p.of]]
    BY <1>1, ContainersHold DEF IsContainer
  <2>2. Schema[p].type = "object" /\ DOMAIN Schema[p].properties = {} /\ Schema[p].additional = {Schema[p.of]}
    BY <1>1, SchemasAre
  <2>3. AcceptsObject(f, Schema[p], d) = AcceptsObject(g, Schema[p], d)
    BY <2>1, <2>2 DEF AcceptsObject
  <2> QED BY <2>2, <2>3 DEF AcceptsHere
<1>2. CASE p.k \in {"list", "array"}
  <2>1. f[Schema[p.of]] = g[Schema[p.of]]
    BY <1>2, ContainersHold DEF IsContainer
  <2>2. Schema[p].type = "array" /\ Schema[p].items = Schema[p.of]
    BY <1>2, SchemasAre
  <2> QED BY <2>1, <2>2 DEF AcceptsHere
<1>3. CASE p.k = "struct"
  <2>1. \A k \in FieldKeys(p) : f[Schema[FieldAt(p, k).of]] = g[Schema[FieldAt(p, k).of]]
    BY <1>3, FieldsByKey
  <2>2. /\ Schema[p].type = "object" /\ DOMAIN Schema[p].properties = FieldKeys(p) /\ Schema[p].additional = {}
        /\ \A k \in FieldKeys(p) : Schema[p].properties[k] = Schema[FieldAt(p, k).of]
    BY <1>3, SchemasAre
  <2>3. AcceptsObject(f, Schema[p], d) = AcceptsObject(g, Schema[p], d)
    BY <2>1, <2>2 DEF AcceptsObject
  <2> QED BY <2>2, <2>3 DEF AcceptsHere
<1>4. CASE p.k \in {"int", "str"}
  <2>1. Schema[p].type \in {"integer", "string"}
    BY <1>4, SchemasAre
  <2> QED BY <2>1 DEF AcceptsHere
<1> QED BY <1>1, <1>2, <1>3, <1>4, PropsAre DEF Kinds

LEMMA AcceptsUnfold ==
    \A p \in Props : \A d \in Docs : Accepts[Schema[p]][d] = AcceptsHere(Accepts, Schema[p], d)
<1>1. RAccepts!Ranked
  BY SchemasRanked DEF RAccepts!Ranked
<1>2. RAccepts!Local
  <2> SUFFICES ASSUME NEW f, NEW g, NEW s \in Schemas,
                      \A y \in Schemas : SchemaRank[y] < SchemaRank[s] => f[y] = g[y]
               PROVE  AcceptsDef(f, s) = AcceptsDef(g, s)
    BY DEF RAccepts!Local
  <2>1. PICK p \in Props : Schema[p] = s /\ Depth[p] = SchemaRank[s]
    BY SchemasRanked
  <2>2. \A q \in Inner(p) : f[Schema[q]] = g[Schema[q]]
    <3> SUFFICES ASSUME NEW q \in Inner(p) PROVE SchemaRank[Schema[q]] < SchemaRank[s] /\ Schema[q] \in Schemas
      OBVIOUS
    <3>1. q \in Props /\ Depth[q] < Depth[p]
      BY InnerAre
    <3>2. Schema[q] \in Schemas /\ SchemaRank[Schema[q]] <= Depth[q] /\ SchemaRank[Schema[q]] \in Nat
      BY <3>1, SchemasRanked
    <3> QED BY <2>1, <3>1, <3>2, PropsAre
  <2>3. \A d : AcceptsHere(f, s, d) = AcceptsHere(g, s, d)
    <3>1. \A d : AcceptsHere(f, Schema[p], d) = AcceptsHere(g, Schema[p], d)
      BY <2>2, AcceptsIsLocal
    <3> QED BY <2>1, <3>1
  <2> QED BY <2>3 DEF AcceptsDef
<1>3. RAccepts!HasSolution
  BY <1>1, <1>2, RAccepts!RankRecursion
<1>4. Accepts = [s \in Schemas |-> AcceptsDef(Accepts, s)]
  BY <1>3 DEF RAccepts!HasSolution, RAccepts!Solves, AcceptsDef, Accepts
<1>5. \A s \in Schemas : Accepts[s] = AcceptsDef(Accepts, s)
  BY <1>4
<1>6. \A s \in Schemas : \A d \in Docs : Accepts[s][d] = AcceptsHere(Accepts, s, d)
  BY <1>5 DEF AcceptsDef
<1>7. \A p \in Props : Schema[p] \in Schemas
  BY SchemasRanked
<1> QED BY <1>6, <1>7

-----------------------------------------------------------------------------
(***************************************************************************)
(* The bounds in a schema                                                  *)
(***************************************************************************)
LEMMA NumbersAdmitted ==
    \A i \in I!Intervals : \A n \in I!Ints : N!AdmitsNumber(N!NumericBounds(i), n) <=> I!Contains(i, n)
<1> SUFFICES ASSUME NEW i \in I!Intervals, NEW n \in I!Ints
             PROVE  N!AdmitsNumber(N!NumericBounds(i), n) <=> I!Contains(i, n)
  OBVIOUS
<1> DEFINE lo == IF i.min = NoBound THEN {} ELSE {i.min}
           up == IF i.max = NoBound THEN {} ELSE {i.max}
           b == N!NumericBounds(i)
<1>1. b.minimum = lo /\ b.maximum = up
  <2>1. b = [minimum |-> lo, maximum |-> up]
    BY DEF N!NumericBounds, N!Printed
  <2> HIDE DEF lo, up, b
  <2> QED BY <2>1
<1>2. /\ i.min # NoBound => i.min.value \in Int /\ i.min.is_inclusive \in BOOLEAN
      /\ i.max # NoBound => i.max.value \in Int /\ i.max.is_inclusive \in BOOLEAN
      /\ n \in Int
  BY LimitsAssumption DEF I!Intervals, I!Bounds, I!Ints
<1> HIDE DEF b
<1> QED BY <1>1, <1>2 DEF N!AdmitsNumber, I!Contains, I!LowerContains, I!UpperContains, b

\* Lengths may be moved to a bound that says less than the interval, but to none
\* that says more.
LEMMA LengthsAdmitted ==
    \A i \in U!Intervals : \A n \in U!Ints :
        /\ I!Contains(i, n) => L!AdmitsLength(L!LengthBounds(i), n)
        /\ ~L!Wraps(i) /\ L!AdmitsLength(L!LengthBounds(i), n) => I!Contains(i, n)
<1> SUFFICES ASSUME NEW i \in U!Intervals, NEW n \in U!Ints
             PROVE  /\ I!Contains(i, n) => L!AdmitsLength(L!LengthBounds(i), n)
                    /\ ~L!Wraps(i) /\ L!AdmitsLength(L!LengthBounds(i), n) => I!Contains(i, n)
  OBVIOUS
<1> DEFINE least == IF i.min.is_inclusive THEN i.min.value ELSE L!Inc(i.min.value)
           most  == IF i.max.is_inclusive THEN i.max.value ELSE L!Dec(i.max.value)
           lo == IF i.min = NoBound THEN {} ELSE {least}
           up == IF i.max = NoBound THEN {} ELSE {most}
           b == L!LengthBounds(i)
<1>1. b.minLength = lo /\ b.maxLength = up
  <2>1. b = [minLength |-> lo, maxLength |-> up]
    BY DEF L!LengthBounds, L!Printed
  <2> HIDE DEF lo, up, b
  <2> QED BY <2>1
<1>2. n \in 0..MaxInt /\ MaxInt \in Nat /\ 2 <= MaxInt
  BY LimitsAssumption DEF U!Ints
<1>3. ASSUME i.min # NoBound
      PROVE  /\ i.min.value \in 0..MaxInt /\ i.min.is_inclusive \in BOOLEAN
             /\ i.min = [value |-> i.min.value, is_inclusive |-> i.min.is_inclusive]
  BY <1>3 DEF U!Intervals, U!Bounds, U!Ints
<1>4. ASSUME i.max # NoBound
      PROVE  /\ i.max.value \in 0..MaxInt /\ i.max.is_inclusive \in BOOLEAN
             /\ i.max = [value |-> i.max.value, is_inclusive |-> i.max.is_inclusive]
  BY <1>4 DEF U!Intervals, U!Bounds, U!Ints
<1>5. ASSUME i.min # NoBound
      PROVE  /\ I!LowerContains(i.min, n) => least <= n
             /\ ~L!Wraps(i) /\ least <= n => I!LowerContains(i.min, n)
  <2>1. CASE i.min.is_inclusive
    BY <1>2, <1>3, <1>5, <2>1 DEF I!LowerContains
  <2>2. CASE ~i.min.is_inclusive
    <3>1. ~L!Wraps(i) => i.min.value # MaxInt
      BY <1>3, <1>5, <2>2 DEF L!Wraps, L!Bound
    <3> QED BY <1>2, <1>3, <1>5, <2>2, <3>1 DEF I!LowerContains, L!Inc
  <2> QED BY <2>1, <2>2
<1>6. ASSUME i.max # NoBound
      PROVE  /\ I!UpperContains(i.max, n) => n <= most
             /\ ~L!Wraps(i) /\ n <= most => I!UpperContains(i.max, n)
  <2>1. CASE i.max.is_inclusive
    BY <1>2, <1>4, <1>6, <2>1 DEF I!UpperContains
  <2>2. CASE ~i.max.is_inclusive
    <3>1. ~L!Wraps(i) => i.max.value # 0
      BY <1>4, <1>6, <2>2 DEF L!Wraps, L!Bound
    <3> QED BY <1>2, <1>4, <1>6, <2>2, <3>1 DEF I!UpperContains, L!Dec
  <2> QED BY <2>1, <2>2
<1>7. /\ (\A m \in lo : m <= n) <=> (i.min # NoBound => least <= n)
      /\ (\A m \in up : n <= m) <=> (i.max # NoBound => n <= most)
  <2> HIDE DEF least, most
  <2> QED OBVIOUS
<1> HIDE DEF lo, up, least, most, b
<1>8. L!AdmitsLength(b, n) <=> (i.min # NoBound => least <= n) /\ (i.max # NoBound => n <= most)
  BY <1>1, <1>7 DEF L!AdmitsLength
<1> QED BY <1>5, <1>6, <1>8 DEF I!Contains, b

\* What a validator accepts, of the schema of a property.
LEMMA AcceptsByKind ==
    \A p \in Props : \A d \in Docs :
        /\ p.k = "int" =>
              (Accepts[Schema[p]][d] <=>
                  d.t = "int" /\ IsDivisible(p, d.value) /\ I!Contains(p.interval, d.value))
        /\ p.k = "str" =>
              (Accepts[Schema[p]][d] <=>
                  /\ d.t = "str" /\ (p.allowed # {} => d.value \in p.allowed)
                  /\ L!AdmitsLength(L!LengthBounds(p.length), LengthOf[d.value]))
        /\ p.k = "map" =>
              (Accepts[Schema[p]][d] <=>
                  /\ d.t = "map" /\ MapOk(p, d)
                  /\ \A k \in Keys : d.at[k] # Gone => Accepts[Schema[p.of]][d.at[k]])
        /\ p.k \in {"list", "array"} =>
              (Accepts[Schema[p]][d] <=>
                  d.t = "list" /\ \A i \in DOMAIN d.items : Accepts[Schema[p.of]][d.items[i]])
        /\ p.k = "struct" =>
              (Accepts[Schema[p]][d] <=>
                  /\ d.t = "map"
                  /\ \A f \in Fields(p) : IF d.at[f.key] = Gone THEN f.optional
                                          ELSE Accepts[Schema[f.of]][d.at[f.key]])
<1> SUFFICES ASSUME NEW p \in Props, NEW d \in Docs
             PROVE
        /\ p.k = "int" =>
              (Accepts[Schema[p]][d] <=>
                  d.t = "int" /\ IsDivisible(p, d.value) /\ I!Contains(p.interval, d.value))
        /\ p.k = "str" =>
              (Accepts[Schema[p]][d] <=>
                  /\ d.t = "str" /\ (p.allowed # {} => d.value \in p.allowed)
                  /\ L!AdmitsLength(L!LengthBounds(p.length), LengthOf[d.value]))
        /\ p.k = "map" =>
              (Accepts[Schema[p]][d] <=>
                  /\ d.t = "map" /\ MapOk(p, d)
                  /\ \A k \in Keys : d.at[k] # Gone => Accepts[Schema[p.of]][d.at[k]])
        /\ p.k \in {"list", "array"} =>
              (Accepts[Schema[p]][d] <=>
                  d.t = "list" /\ \A i \in DOMAIN d.items : Accepts[Schema[p.of]][d.items[i]])
        /\ p.k = "struct" =>
              (Accepts[Schema[p]][d] <=>
                  /\ d.t = "map"
                  /\ \A f \in Fields(p) : IF d.at[f.key] = Gone THEN f.optional
                                          ELSE Accepts[Schema[f.of]][d.at[f.key]])
  OBVIOUS
<1> DEFINE s == Schema[p]
<1>1. Accepts[s][d] <=> AcceptsHere(Accepts, s, d)
  BY AcceptsUnfold
<1>2. /\ TypeIn(d) = "integer" <=> d.t = "int"
      /\ TypeIn(d) = "string" <=> d.t = "str"
      /\ TypeIn(d) = "object" <=> d.t = "map"
      /\ TypeIn(d) = "array" <=> d.t = "list"
  BY DocsAre DEF TypeIn
<1>3. CASE p.k = "int"
  <2>1. s = IntSchema(p) /\ s.type = "integer"
    BY <1>3, SchemasAre
  <2> HIDE DEF s
  <2>2. s.multipleOf = {p.multiple_of} \ {0} /\ s.bounds = N!NumericBounds(p.interval)
    BY <2>1 DEF IntSchema
  <2>3. ASSUME d.t = "int"
        PROVE  /\ N!AdmitsNumber(s.bounds, d.value) <=> I!Contains(p.interval, d.value)
               /\ (\A m \in s.multipleOf : d.value % m = 0) <=> IsDivisible(p, d.value)
    <3>1. d.value \in I!Ints /\ p.interval \in I!Intervals
      BY <1>3, <2>3, DocsAre, PropsAre DEF IsProp
    <3>2. N!AdmitsNumber(s.bounds, d.value) <=> I!Contains(p.interval, d.value)
      BY <2>2, <3>1, NumbersAdmitted
    <3>3. (\A m \in s.multipleOf : d.value % m = 0) <=> IsDivisible(p, d.value)
      BY <2>2 DEF IsDivisible
    <3> QED BY <3>2, <3>3
  <2>4. AcceptsHere(Accepts, s, d) <=>
           d.t = "int" /\ IsDivisible(p, d.value) /\ I!Contains(p.interval, d.value)
    BY <1>2, <2>1, <2>3 DEF AcceptsHere
  <2> QED BY <1>1, <1>3, <2>4 DEF s
<1>4. CASE p.k = "str"
  <2>1. s = StrSchema(p) /\ s.type = "string"
    BY <1>4, SchemasAre
  <2> HIDE DEF s
  <2>2. s.enum = p.allowed /\ s.length = L!LengthBounds(p.length)
    BY <2>1 DEF StrSchema
  <2>3. AcceptsHere(Accepts, s, d) <=>
           /\ d.t = "str" /\ (p.allowed # {} => d.value \in p.allowed)
           /\ L!AdmitsLength(L!LengthBounds(p.length), LengthOf[d.value])
    BY <1>2, <2>1, <2>2 DEF AcceptsHere
  <2> QED BY <1>1, <1>4, <2>3 DEF s
<1>5. CASE p.k = "map"
  <2>1. /\ s.type = "object" /\ s.required = p.required /\ DOMAIN s.properties = {}
        /\ s.additional = {Schema[p.of]}
    BY <1>5, SchemasAre
  <2> HIDE DEF s
  <2>2. AcceptsObject(Accepts, s, d) <=>
           MapOk(p, d) /\ \A k \in Keys : d.at[k] # Gone => Accepts[Schema[p.of]][d.at[k]]
    BY <2>1 DEF AcceptsObject, MapOk
  <2>3. AcceptsHere(Accepts, s, d) <=> d.t = "map" /\ AcceptsObject(Accepts, s, d)
    BY <1>2, <2>1 DEF AcceptsHere
  <2> QED BY <1>1, <1>5, <2>2, <2>3 DEF s
<1>6. CASE p.k \in {"list", "array"}
  <2>1. s.type = "array" /\ s.items = Schema[p.of]
    BY <1>6, SchemasAre
  <2> HIDE DEF s
  <2>2. AcceptsHere(Accepts, s, d) <=>
           d.t = "list" /\ \A i \in DOMAIN d.items : Accepts[Schema[p.of]][d.items[i]]
    BY <1>2, <2>1 DEF AcceptsHere
  <2> QED BY <1>1, <1>6, <2>2 DEF s
<1>7. CASE p.k = "struct"
  <2>1. /\ s.type = "object" /\ s.required = {k \in FieldKeys(p) : ~FieldAt(p, k).optional}
        /\ DOMAIN s.properties = FieldKeys(p) /\ s.additional = {}
        /\ \A k \in FieldKeys(p) : s.properties[k] = Schema[FieldAt(p, k).of]
    BY <1>7, SchemasAre
  <2> HIDE DEF s
  <2>2. AcceptsObject(Accepts, s, d) <=>
           /\ \A k \in FieldKeys(p) : ~FieldAt(p, k).optional => d.at[k] # Gone
           /\ \A k \in FieldKeys(p) : k \in Keys /\ d.at[k] # Gone => Accepts[Schema[FieldAt(p, k).of]][d.at[k]]
    BY <2>1 DEF AcceptsObject
  <2>3. /\ \A f \in Fields(p) : f.key \in FieldKeys(p) /\ f.key \in Keys /\ FieldAt(p, f.key) = f
        /\ \A k \in FieldKeys(p) : FieldAt(p, k) \in Fields(p) /\ FieldAt(p, k).key = k
    BY <1>7, FieldsByKey
  <2>4. AcceptsObject(Accepts, s, d) <=>
           \A f \in Fields(p) : IF d.at[f.key] = Gone THEN f.optional ELSE Accepts[Schema[f.of]][d.at[f.key]]
    <3>1. ASSUME AcceptsObject(Accepts, s, d), NEW f \in Fields(p)
          PROVE  IF d.at[f.key] = Gone THEN f.optional ELSE Accepts[Schema[f.of]][d.at[f.key]]
      BY <2>2, <2>3, <3>1
    <3>2. ASSUME \A f \in Fields(p) : IF d.at[f.key] = Gone THEN f.optional ELSE Accepts[Schema[f.of]][d.at[f.key]]
          PROVE  AcceptsObject(Accepts, s, d)
      BY <2>2, <2>3, <3>2
    <3> QED BY <3>1, <3>2
  <2>5. AcceptsHere(Accepts, s, d) <=> d.t = "map" /\ AcceptsObject(Accepts, s, d)
    BY <1>2, <2>1 DEF AcceptsHere
  <2> QED BY <1>1, <1>7, <2>4, <2>5 DEF s
<1> QED BY <1>3, <1>4, <1>5, <1>6, <1>7, PropsAre DEF Kinds

-----------------------------------------------------------------------------
(***************************************************************************)
(* What a validator accepts and what is ok                                 *)
(***************************************************************************)
NoSizes(p)  == \A q \in Parts[p] : q.k # "array" /\ (q.k = "list" => q.size = I!All)
NoWraps(p)  == \A q \in Parts[p] : q.k = "str" => ~L!Wraps(q.length)
NoClamps(p) == \A q \in Parts[p] : q.k = "int" => ~q.with_clamp

LEMMA ReportsInherit ==
    \A p \in Props :
        /\ NoSizes(p) => /\ p.k # "array" /\ (p.k = "list" => p.size = I!All)
                         /\ \A q \in Inner(p) : NoSizes(q)
        /\ NoWraps(p) => (p.k = "str" => ~L!Wraps(p.length)) /\ \A q \in Inner(p) : NoWraps(q)
        /\ NoClamps(p) => (p.k = "int" => ~p.with_clamp) /\ \A q \in Inner(p) : NoClamps(q)
BY PartsHold DEF NoSizes, NoWraps, NoClamps

LEMMA StringsAre ==
    \A p \in Props : \A d \in Docs : p.k = "str" /\ d.t = "str" =>
        p.length \in U!Intervals /\ LengthOf[d.value] \in U!Ints
BY PropsAre, DocsAre, StringsAssumption DEF IsProp

LEMMA AcceptedDocsPass ==
    \A p \in Props : NoSizes(p) /\ NoWraps(p) =>
        \A d \in Docs : Accepts[Schema[p]][d] => d.t = DocType(p) /\ OkAt[p][d]
<1> DEFINE Plain(p) == NoSizes(p) /\ NoWraps(p)
           Passes(p) == \A d \in Docs : Accepts[Schema[p]][d] => d.t = DocType(p) /\ OkAt[p][d]
           T == {p \in Props : Plain(p) => Passes(p)}
<1>1. ASSUME NEW p \in Props, \A q \in Inner(p) : q \in T
      PROVE  p \in T
  <2> SUFFICES ASSUME Plain(p), NEW d \in Docs, Accepts[Schema[p]][d]
               PROVE  d.t = DocType(p) /\ OkAt[p][d]
    OBVIOUS
  <2>1. \A q \in Inner(p) : Plain(q)
    BY ReportsInherit
  <2>2. \A q \in Inner(p) : q \in Props /\ Passes(q)
    BY <1>1, <2>1
  <2>3. \A q \in Inner(p) : \A x \in Docs : Accepts[Schema[q]][x] => \A b : OkWith(OkAt, q, x, b)
    BY <2>2, OkHolds
  <2> HIDE DEF Passes, T
  <2>4. CASE p.k = "int"
    <3>1. d.t = "int" /\ IsDivisible(p, d.value) /\ I!Contains(p.interval, d.value)
      BY <2>4, AcceptsByKind
    <3>2. d.t = DocType(p) /\ IntOk(p, d.value)
      BY <2>4, <3>1 DEF DocType, IntOk
    <3> QED BY <2>4, <3>2, OkByKind
  <2>5. CASE p.k = "str"
    <3>1. /\ d.t = "str" /\ (p.allowed # {} => d.value \in p.allowed)
          /\ L!AdmitsLength(L!LengthBounds(p.length), LengthOf[d.value])
      BY <2>5, AcceptsByKind
    <3>2. I!Contains(p.length, LengthOf[d.value])
      <4>1. ~L!Wraps(p.length)
        BY <2>5, ReportsInherit
      <4> QED BY <2>5, <3>1, <4>1, StringsAre, LengthsAdmitted
    <3>3. d.t = DocType(p) /\ StrOk(p, d.value)
      BY <2>5, <3>1, <3>2 DEF DocType, StrOk
    <3> QED BY <2>5, <3>3, OkByKind
  <2>6. CASE p.k = "map"
    <3>1. d.t = "map" /\ MapOk(p, d)
      BY <2>6, AcceptsByKind
    <3>2. d.t = DocType(p)
      BY <2>6, <3>1 DEF DocType
    <3> QED BY <2>6, <3>1, <3>2, OkByKind
  <2>7. CASE p.k = "list"
    <3>1. d.t = "list" /\ \A i \in DOMAIN d.items : Accepts[Schema[p.of]][d.items[i]]
      BY <2>7, AcceptsByKind
    <3>2. d.t = DocType(p)
      BY <2>7, <3>1 DEF DocType
    <3>3. \A i \in DOMAIN d.items : OkWith(OkAt, p.of, d.items[i], FALSE)
      <4>1. p.of \in Inner(p)
        BY <2>7, ContainersHold DEF IsContainer
      <4> QED BY <2>3, <3>1, <4>1, ListDocs
    <3>4. I!Contains(p.size, Len(d.items))
      <4>1. p.size = I!All
        BY <2>7, ReportsInherit
      <4> QED BY <4>1 DEF I!Contains, I!All, I!Between, I!LowerContains, I!UpperContains
    <3>5. ListOk(OkAt, p, d)
      BY <3>3, <3>4 DEF ListOk
    <3> QED BY <2>7, <3>2, <3>5, OkByKind
  <2>8. CASE p.k = "struct"
    <3>1. /\ d.t = "map"
          /\ \A f \in Fields(p) : IF d.at[f.key] = Gone THEN f.optional ELSE Accepts[Schema[f.of]][d.at[f.key]]
      BY <2>8, AcceptsByKind
    <3>2. d.t = DocType(p)
      BY <2>8, <3>1 DEF DocType
    <3>3. ASSUME NEW f \in Fields(p) PROVE OkWith(OkAt, f.of, d.at[f.key], ~f.optional)
      <4>1. f.of \in Inner(p) /\ f.of \in Props /\ f.key \in Keys
        BY <2>8, FieldsByKey
      <4>2. CASE d.at[f.key] = Gone
        <5>1. f.optional
          BY <3>1, <4>2
        <5>2. d.at[f.key].t # DocType(f.of)
          BY <4>1, <4>2, PropsAre DEF Gone, DocType, Kinds
        <5> QED BY <5>1, <5>2 DEF OkWith
      <4>3. CASE d.at[f.key] # Gone
        <5>1. Accepts[Schema[f.of]][d.at[f.key]] /\ d.at[f.key] \in Docs
          BY <3>1, <4>1, <4>3, MapDocs
        <5> QED BY <2>3, <4>1, <5>1
      <4> QED BY <4>2, <4>3
    <3>4. StructOk(OkAt, p, d)
      BY <3>3 DEF StructOk
    <3> QED BY <2>8, <3>2, <3>4, OkByKind
  <2>9. p.k # "array"
    BY ReportsInherit
  <2> QED BY <2>4, <2>5, <2>6, <2>7, <2>8, <2>9, PropsAre DEF Kinds
<1>2. Props \subseteq T
  <2> HIDE DEF T
  <2> QED BY <1>1, PropsInduction
<1> QED BY <1>2

LEMMA OkDocsAreAccepted ==
    \A p \in Props :
        /\ None(p, "map") /\ None(p, "list") /\ NoLoose(p) /\ NoOptional(p) /\ NoDefault(p) /\ NoClamps(p)
        => \A d \in Docs : d.t = DocType(p) /\ OkAt[p][d] => Accepts[Schema[p]][d]
<1> DEFINE Plain(p) == /\ None(p, "map") /\ None(p, "list") /\ NoLoose(p)
                       /\ NoOptional(p) /\ NoDefault(p) /\ NoClamps(p)
           Passes(p) == \A d \in Docs : d.t = DocType(p) /\ OkAt[p][d] => Accepts[Schema[p]][d]
           T == {p \in Props : Plain(p) => Passes(p)}
<1>1. ASSUME NEW p \in Props, \A q \in Inner(p) : q \in T
      PROVE  p \in T
  <2> SUFFICES ASSUME Plain(p), NEW d \in Docs, d.t = DocType(p), OkAt[p][d]
               PROVE  Accepts[Schema[p]][d]
    OBVIOUS
  <2>1. \A q \in Inner(p) : Plain(q)
    BY PartsInherit, ReportsInherit
  <2>2. \A q \in Inner(p) : q \in Props /\ q.default = NoValue /\ Passes(q)
    BY <1>1, <2>1, PartsInherit
  <2>3. \A q \in Inner(p) : \A x \in Docs : OkWith(OkAt, q, x, TRUE) =>
           x # Gone /\ Accepts[Schema[q]][x]
    <3> SUFFICES ASSUME NEW q \in Inner(p), NEW x \in Docs, OkWith(OkAt, q, x, TRUE)
                 PROVE  x # Gone /\ Accepts[Schema[q]][x]
      OBVIOUS
    <3>1. x.t = DocType(q) /\ OkAt[q][x]
      BY <2>2, OkNeeded
    <3>2. DocType(q) # "gone"
      BY <2>2, PropsAre DEF DocType, Kinds
    <3> QED BY <2>2, <3>1, <3>2 DEF Gone
  <2> HIDE DEF Passes, T
  <2>4. CASE p.k = "int"
    <3>1. IntOk(p, d.value) /\ ~p.with_clamp
      BY <2>4, OkByKind, ReportsInherit
    <3> QED BY <2>4, <3>1, AcceptsByKind DEF DocType, IntOk
  <2>5. CASE p.k = "str"
    <3>1. d.t = "str" /\ StrOk(p, d.value)
      BY <2>5, OkByKind DEF DocType
    <3>2. L!AdmitsLength(L!LengthBounds(p.length), LengthOf[d.value])
      BY <2>5, <3>1, StringsAre, LengthsAdmitted DEF StrOk
    <3> QED BY <2>5, <3>1, <3>2, AcceptsByKind DEF StrOk
  <2>6. CASE p.k = "array"
    <3>1. d.t = "list" /\ ArrayOk(OkAt, p, d)
      BY <2>6, OkByKind DEF DocType
    <3>2. \A i \in DOMAIN d.items : Accepts[Schema[p.of]][d.items[i]]
      <4>1. p.of \in Inner(p) /\ p.linked
        BY <2>6, ContainersHold, PartsInherit DEF IsContainer
      <4>2. \A i \in DOMAIN d.items : OkWith(OkAt, p.of, d.items[i], TRUE)
        BY <2>6, <3>1, <4>1, LinkedNeeds
      <4> QED BY <2>3, <3>1, <4>1, <4>2, ListDocs
    <3> QED BY <2>6, <3>1, <3>2, AcceptsByKind
  <2>7. CASE p.k = "struct"
    <3>1. d.t = "map" /\ StructOk(OkAt, p, d)
      BY <2>7, OkByKind DEF DocType
    <3>2. ASSUME NEW f \in Fields(p)
          PROVE  d.at[f.key] # Gone /\ Accepts[Schema[f.of]][d.at[f.key]]
      <4>1. f.of \in Inner(p) /\ f.key \in Keys /\ ~f.optional
        BY <2>7, FieldsByKey, PartsInherit
      <4>2. OkWith(OkAt, f.of, d.at[f.key], ~f.optional)
        BY <3>1 DEF StructOk
      <4>3. (~f.optional) = TRUE
        BY <4>1
      <4>4. OkWith(OkAt, f.of, d.at[f.key], TRUE)
        BY <4>2, <4>3
      <4> QED BY <2>3, <3>1, <4>1, <4>4, MapDocs
    <3> QED BY <2>7, <3>1, <3>2, AcceptsByKind
  <2>8. p.k # "map" /\ p.k # "list"
    BY PartsInherit
  <2> QED BY <2>4, <2>5, <2>6, <2>7, <2>8, PropsAre DEF Kinds
<1>2. Props \subseteq T
  <2> HIDE DEF T
  <2> QED BY <1>1, PropsInduction
<1> QED BY <1>2

LEMMA EncodedDocsAreAccepted ==
    \A p \in Props : \A v \in Meeting[p] : v \in Filled[p] => Accepts[Schema[p]][EncodeAt[p][v]]
<1> DEFINE Passes(p) == \A v \in Meeting[p] : v \in Filled[p] => Accepts[Schema[p]][EncodeAt[p][v]]
           T == {p \in Props : Passes(p)}
<1>1. ASSUME NEW p \in Props, \A q \in Inner(p) : q \in T
      PROVE  p \in T
  <2> SUFFICES ASSUME NEW v \in Meeting[p], v \in Filled[p] PROVE Accepts[Schema[p]][EncodeAt[p][v]]
    OBVIOUS
  <2> DEFINE e == EncodeAt[p][v]
  <2>1. \A q \in Inner(p) : \A w \in Meeting[q] : w \in Filled[q] =>
           EncodeAt[q][w] # Gone /\ EncodeAt[q][w] \in Docs /\ Accepts[Schema[q]][EncodeAt[q][w]]
    BY <1>1, InnerAre, MeetingInValues, EncodedDocs, EncodedDecodes, ReturnsAre
  <2>2. e = EncodeHere(EncodeAt, p, v) /\ e \in Docs
    BY MeetingInValues, EncodeUnfold, EncodedDocs
  <2>3. v \in MeetingDef(Meeting, p) /\ v \in FilledDef(Filled, p)
    BY MeetingUnfold, FilledUnfold
  <2>4. Returns(p, v)
    BY EncodedDecodes
  <2>5. e.t = DocType(p) /\ OkAt[p][e]
    BY <2>4 DEF Returns
  <2> HIDE DEF e, T, Passes
  <2> SUFFICES Accepts[Schema[p]][e]
    BY DEF e
  <2>6. CASE p.k = "int"
    <3>1. e = Int_(v) /\ IsDivisible(p, v) /\ I!Contains(p.interval, v)
      BY <2>2, <2>3, <2>6 DEF EncodeHere, MeetingDef
    <3>2. e.t = "int" /\ e.value = v
      BY <3>1 DEF Int_
    <3> QED BY <2>2, <2>6, <3>1, <3>2, AcceptsByKind
  <2>7. CASE p.k = "str"
    <3>1. e.t = "str" /\ StrOk(p, e.value)
      BY <2>2, <2>5, <2>7, OkByKind DEF DocType
    <3>2. L!AdmitsLength(L!LengthBounds(p.length), LengthOf[e.value])
      BY <2>2, <2>7, <3>1, StringsAre, LengthsAdmitted DEF StrOk
    <3> QED BY <2>2, <2>7, <3>1, <3>2, AcceptsByKind DEF StrOk
  <2>8. CASE p.k = "map"
    <3> DEFINE at == [k \in Keys |-> IF v[k] = NoValue THEN Gone ELSE EncodeAt[p.of][v[k]]]
    <3>1. p.of \in Inner(p)
      BY <2>8, ContainersHold DEF IsContainer
    <3>2. /\ v \in [Keys -> {NoValue} \cup Meeting[p.of]] /\ v \in [Keys -> {NoValue} \cup Filled[p.of]]
          /\ \E k \in Keys : v[k] # NoValue
      BY <2>3, <2>8 DEF MeetingDef, FilledDef
    <3>3. e = MapOfDocs(at)
      BY <2>2, <2>8, <3>2 DEF EncodeHere, MapEncode
    <3>4. ASSUME NEW k \in Keys
          PROVE  at[k] \in Docs /\ (at[k] # Gone => Accepts[Schema[p.of]][at[k]])
      BY <2>1, <3>1, <3>2, MarkersAreDocs
    <3>5. e.at = at
      <4>1. at \in [Keys -> Docs]
        BY <3>4
      <4> HIDE DEF at
      <4> QED BY <3>3, <4>1, MapsAreDocs
    <3> HIDE DEF at
    <3>6. e.t = "map" /\ MapOk(p, e)
      BY <2>2, <2>5, <2>8, OkByKind DEF DocType
    <3> QED BY <2>2, <2>8, <3>4, <3>5, <3>6, AcceptsByKind
  <2>9. CASE p.k \in {"list", "array"}
    <3> DEFINE at == [i \in DOMAIN v |-> EncodeAt[p.of][v[i]]]
    <3>1. p.of \in Inner(p)
      BY <2>9, ContainersHold DEF IsContainer
    <3>2. \E n \in Nat : /\ DOMAIN v = 1..n /\ v # <<>>
                         /\ \A i \in 1..n : v[i] \in Meeting[p.of] /\ v[i] \in Filled[p.of]
      <4>1. CASE p.k = "list"
        <5>1. v \in Seq(Meeting[p.of]) /\ v \in Seq(Filled[p.of]) /\ v # <<>>
          BY <2>3, <4>1 DEF MeetingDef, FilledDef
        <5> QED BY <5>1, SeqsAre
      <4>2. CASE p.k = "array"
        <5>1. /\ v \in [1..p.n -> Meeting[p.of]] /\ v \in [1..p.n -> Filled[p.of]]
              /\ v # <<>> /\ p.n \in Nat
          BY <2>3, <4>2, PropsAre DEF MeetingDef, FilledDef, IsProp
        <5> QED BY <5>1
      <4> QED BY <2>9, <4>1, <4>2
    <3>3. PICK n \in Nat : /\ DOMAIN v = 1..n /\ v # <<>>
                           /\ \A i \in 1..n : v[i] \in Meeting[p.of] /\ v[i] \in Filled[p.of]
      BY <3>2
    <3>4. at \in [1..n -> Docs] /\ \A i \in 1..n : at[i] # Gone /\ Accepts[Schema[p.of]][at[i]]
      BY <2>1, <3>1, <3>3
    <3>5. e = ListOfDocs(at)
      BY <2>2, <2>9, <3>3 DEF EncodeHere, ElementsEncode
    <3> HIDE DEF at
    <3>6. e = List_(at)
      BY <3>4, <3>5, ListsAreDocs
    <3>7. e.t = "list" /\ e.items = at /\ DOMAIN at = 1..n
      BY <3>4, <3>6 DEF List_
    <3> QED BY <2>2, <2>9, <3>4, <3>7, AcceptsByKind
  <2>10. CASE p.k = "struct"
    <3> DEFINE at == [k \in Keys |-> IF k \notin FieldKeys(p) \/ v[k] = NoValue THEN Gone
                                     ELSE EncodeAt[FieldAt(p, k).of][v[k]]]
    <3>1. IsStruct(p, Meeting, v) /\ IsStruct(p, Filled, v)
      BY <2>3, <2>10, StructsAre DEF MeetingDef, FilledDef
    <3>2. e = MapOfDocs(at)
      BY <2>2, <2>10 DEF EncodeHere, StructEncode
    <3>3. ASSUME NEW f \in Fields(p)
          PROVE  IF at[f.key] = Gone THEN f.optional ELSE Accepts[Schema[f.of]][at[f.key]]
      <4>1. f.key \in FieldKeys(p) /\ f.key \in Keys /\ FieldAt(p, f.key) = f /\ f.of \in Inner(p)
        BY <2>10, FieldsByKey
      <4>2. /\ v[f.key] = NoValue => at[f.key] = Gone
            /\ v[f.key] # NoValue => at[f.key] = EncodeAt[f.of][v[f.key]]
        BY <4>1
      <4>3. /\ v[f.key] = NoValue => f.optional
            /\ v[f.key] # NoValue => v[f.key] \in Meeting[f.of] /\ v[f.key] \in Filled[f.of]
        BY <3>1 DEF IsStruct
      <4> HIDE DEF at
      <4> QED BY <2>1, <4>1, <4>2, <4>3
    <3>4. e.t = "map" /\ e.at = at
      <4>1. \A k \in FieldKeys(p) : v[k] # NoValue => EncodeAt[FieldAt(p, k).of][v[k]] \in Docs
        <5>1. \A k \in FieldKeys(p) : /\ FieldAt(p, k) \in Fields(p) /\ FieldAt(p, k).key = k
                                      /\ FieldAt(p, k).of \in Props
          BY <2>10, FieldsByKey
        <5>2. \A k \in FieldKeys(p) : v[k] # NoValue => v[k] \in Values[FieldAt(p, k).of]
          BY <3>1, <5>1, MeetingInValues DEF IsStruct
        <5> QED BY <5>1, <5>2, EncodedDocs
      <4>2. at \in [Keys -> Docs]
        BY <4>1, MarkersAreDocs
      <4> HIDE DEF at
      <4> QED BY <3>2, <4>2, MapsAreDocs
    <3> HIDE DEF at
    <3> QED BY <2>2, <2>10, <3>3, <3>4, AcceptsByKind
  <2> QED BY <2>6, <2>7, <2>8, <2>9, <2>10, PropsAre DEF Kinds
<1>2. Props \subseteq T
  <2> HIDE DEF T
  <2> QED BY <1>1, PropsInduction
<1> QED BY <1>2

LEMMA ReportsOfProp ==
    /\ ~HasSize <=> NoSizes(prop)
    /\ ~Wraps <=> NoWraps(prop)
    /\ ~Clamps <=> NoClamps(prop)
BY DEF HasSize, NoSizes, Wraps, NoWraps, Clamps, NoClamps

\* Of documents of any depth and length, the schema accepts only what passes
\* ok(): it is no wider than the description, but for sizes of lists and bounds
\* of lengths that cannot be moved by one.
THEOREM WhatIsAcceptedIsOk == Spec => []AcceptedIsOk
<1>1. CodecInv => AcceptedIsOk
  <2> SUFFICES ASSUME CodecInv, NoSizes(prop), NoWraps(prop), Accepts[Schema[prop]][doc]
               PROVE  OkWith(OkAt, prop, doc, TRUE)
    BY ReportsOfProp DEF AcceptedIsOk, Accepted, Ok
  <2>1. prop \in Props /\ doc \in Docs
    BY DEF CodecInv, TypeOK
  <2>2. doc.t = DocType(prop) /\ OkAt[prop][doc]
    BY <2>1, AcceptedDocsPass
  <2> QED BY <2>1, <2>2, OkHolds
<1> QED BY <1>1, InvHolds, PTL

\* And of what ok() looks at in full, it accepts all that passes ok().
THEOREM WhatIsOkIsAccepted == Spec => []OkIsAccepted
<1>1. CodecInv => OkIsAccepted
  <2> SUFFICES ASSUME CodecInv, ~Is("map"), ~Is("list"), AllLinked, ~HasOptional, ~HasDefault, ~Clamps,
                      Ok(prop, doc, TRUE)
               PROVE  Accepts[Schema[prop]][doc]
    BY DEF OkIsAccepted, Accepted
  <2>1. prop \in Props /\ doc \in Docs
    BY DEF CodecInv, TypeOK
  <2>2. /\ None(prop, "map") /\ None(prop, "list") /\ NoLoose(prop)
        /\ NoOptional(prop) /\ NoDefault(prop) /\ NoClamps(prop)
    BY PartsOfProp, ReportsOfProp
  <2>3. prop.default = NoValue
    BY <2>1, <2>2, PartsInherit
  <2>4. doc.t = DocType(prop) /\ OkAt[prop][doc]
    BY <2>1, <2>3, OkNeeded DEF Ok
  <2> QED BY <2>1, <2>2, <2>4, OkDocsAreAccepted
<1> QED BY <1>1, InvHolds, PTL

\* What a program saves through a description is accepted by its schema, for
\* values of any depth and length.
THEOREM WhatIsSavedIsAccepted == Spec => []SavedIsAccepted
<1>1. CodecInv => SavedIsAccepted
  <2> SUFFICES ASSUME CodecInv, saved # Unsaved, saved.value \in Meeting[prop], saved.value \in Filled[prop]
               PROVE  Accepts[Schema[prop]][doc]
    BY DEF SavedIsAccepted, Accepted
  <2>1. prop \in Props /\ doc = Encode(prop, saved.value)
    BY DEF CodecInv, TypeOK, SavedInv
  <2>2. EncodeAt[prop][saved.value] # Gone
    BY <2>1, EncodedDecodes, ReturnsAre
  <2>3. doc = EncodeAt[prop][saved.value]
    BY <2>1, <2>2 DEF Encode
  <2> QED BY <2>1, <2>3, EncodedDocsAreAccepted
<1> QED BY <1>1, InvHolds, PTL

-----------------------------------------------------------------------------
(***************************************************************************)
(* Whether schemas are printed to their end                                *)
(***************************************************************************)
LEMMA SourcesAre ==
    /\ NoSource \in Sources /\ NullSource \in Sources /\ Docs \subseteq Sources
    /\ NoSource \notin Docs /\ NullSource \notin Docs /\ NoSource # NullSource
<1>1. NoSource.t = "none" /\ NullSource.t = "null"
  BY DEF NoSource, NullSource
<1>2. \A d \in Docs : d.t \in {"gone", "nil", "int", "str", "map", "list"}
  BY DocsAre
<1> QED BY <1>1, <1>2 DEF Sources

LEMMA DocSources ==
    \A d \in Docs : \A k \in Keys :
        /\ ChildSource(d, k) = IF Child(d, k) = Gone THEN NoSource ELSE Child(d, k)
        /\ ChildSource(d, k) \in Sources
        /\ Content(d) = d
<1> SUFFICES ASSUME NEW d \in Docs, NEW k \in Keys
             PROVE  /\ ChildSource(d, k) = IF Child(d, k) = Gone THEN NoSource ELSE Child(d, k)
                    /\ ChildSource(d, k) \in Sources
                    /\ Content(d) = d
  OBVIOUS
<1>1. d # NullSource
  BY SourcesAre
<1>2. ChildSource(d, k) = IF Child(d, k) = Gone THEN NoSource ELSE Child(d, k)
  BY <1>1 DEF ChildSource
<1> QED BY <1>1, <1>2, ChildDocs, SourcesAre DEF Content

\* A schema without a struct asks for no source.
LEMMA StructlessSchemasEnd ==
    \A p \in Props : None(p, "struct") => \A src \in Sources : SchemaEnds[p][src]
<1> DEFINE Ends(p) == \A src \in Sources : SchemaEnds[p][src]
           T == {p \in Props : None(p, "struct") => Ends(p)}
<1>1. ASSUME NEW p \in Props, \A q \in Inner(p) : q \in T
      PROVE  p \in T
  <2> SUFFICES ASSUME None(p, "struct"), NEW src \in Sources PROVE SchemaEnds[p][src]
    OBVIOUS
  <2>1. p.k # "struct" /\ \A q \in Inner(p) : Ends(q)
    BY <1>1, PartsInherit
  <2>2. SchemaEnds[p][src] = SchemaEndsHere(SchemaEnds, p, src)
    BY EndsUnfold
  <2>3. CASE IsContainer(p)
    <3>1. SchemaEnds[p.of][NoSource]
      BY <2>1, <2>3, ContainersHold, SourcesAre
    <3>2. SchemaEndsHere(SchemaEnds, p, src)
      BY <2>3, <3>1 DEF SchemaEndsHere, IsContainer
    <3> QED BY <2>2, <3>2
  <2>4. CASE p.k \in {"int", "str"}
    <3>1. SchemaEndsHere(SchemaEnds, p, src)
      BY <2>4 DEF SchemaEndsHere
    <3> QED BY <2>2, <3>1
  <2> QED BY <2>1, <2>3, <2>4, PropsAre DEF IsContainer, Kinds
<1>2. Props \subseteq T
  <2> HIDE DEF T
  <2> QED BY <1>1, PropsInduction
<1> QED BY <1>2

NoneBuried(p) == \A q \in Parts[p] : IsContainer(q) => None(q, "struct")

LEMMA BuriedInherit ==
    \A p \in Props : NoneBuried(p) =>
        (IsContainer(p) => None(p, "struct")) /\ \A q \in Inner(p) : NoneBuried(q)
BY PartsHold DEF NoneBuried

LEMMA SchemasOfOkDocsEnd ==
    \A p \in Props : NoOptional(p) /\ NoDefault(p) /\ NoneBuried(p) =>
        \A d \in Docs : d.t = DocType(p) /\ OkAt[p][d] => SchemaEnds[p][d]
<1> DEFINE Plain(p) == NoOptional(p) /\ NoDefault(p) /\ NoneBuried(p)
           Ends(p) == \A d \in Docs : d.t = DocType(p) /\ OkAt[p][d] => SchemaEnds[p][d]
           T == {p \in Props : Plain(p) => Ends(p)}
<1>1. ASSUME NEW p \in Props, \A q \in Inner(p) : q \in T
      PROVE  p \in T
  <2> SUFFICES ASSUME Plain(p), NEW d \in Docs, d.t = DocType(p), OkAt[p][d]
               PROVE  SchemaEnds[p][d]
    OBVIOUS
  <2>1. \A q \in Inner(p) : q \in Props /\ q.default = NoValue /\ Ends(q)
    BY <1>1, InnerAre, PartsInherit, BuriedInherit
  <2>2. CASE p.k # "struct"
    <3>1. None(p, "struct")
      <4>1. CASE IsContainer(p)
        BY <4>1, BuriedInherit
      <4>2. CASE ~IsContainer(p)
        <5>1. Inner(p) = {}
          BY <2>2, <4>2 DEF Inner
        <5>2. \A q \in Parts[p] : q = p
          BY <5>1, PartsAre
        <5> QED BY <2>2, <5>2 DEF None
      <4> QED BY <4>1, <4>2
    <3> QED BY <3>1, StructlessSchemasEnd, SourcesAre
  <2>3. CASE p.k = "struct"
    <3>1. d.t = "map" /\ StructOk(OkAt, p, d)
      BY <2>3, OkByKind DEF DocType
    <3>2. ASSUME NEW f \in Fields(p) PROVE SchemaEnds[f.of][ChildSource(d, f.key)]
      <4>1. f.of \in Inner(p) /\ f.key \in Keys /\ (~f.optional) = TRUE
        BY <2>3, FieldsByKey, PartsInherit
      <4>2. OkWith(OkAt, f.of, d.at[f.key], TRUE)
        BY <3>1, <4>1 DEF StructOk
      <4>3. d.at[f.key] \in Docs
        BY <3>1, <4>1, MapDocs
      <4>4. d.at[f.key].t = DocType(f.of) /\ OkAt[f.of][d.at[f.key]]
        <5> HIDE DEF Ends
        <5> QED BY <2>1, <4>1, <4>2, OkNeeded
      <4>5. d.at[f.key] # Gone
        BY <2>1, <4>1, <4>4, PropsAre DEF Gone, DocType, Kinds
      <4>6. ChildSource(d, f.key) = d.at[f.key]
        BY <3>1, <4>1, <4>5, DocSources DEF Child
      <4> QED BY <2>1, <4>1, <4>3, <4>4, <4>6
    <3>3. SchemaEndsHere(SchemaEnds, p, d)
      BY <2>3, <3>2, SourcesAre DEF SchemaEndsHere
    <3> QED BY <3>3, EndsUnfold, SourcesAre
  <2> QED BY <2>2, <2>3
<1>2. Props \subseteq T
  <2> HIDE DEF T
  <2> QED BY <1>1, PropsInduction
<1> QED BY <1>2

\* The schema of a document that has all that is described is printed to its
\* end, however deep the structs in structs are.
THEOREM TheSchemaIsPrinted == Spec => []SchemaIsPrinted
<1>1. CodecInv => SchemaIsPrinted
  <2> SUFFICES ASSUME CodecInv, ~HasOptional, ~HasDefault, NoneBuried(prop), Ok(prop, doc, TRUE)
               PROVE  SchemaEnds[prop][doc]
    BY DEF SchemaIsPrinted, NoneBuried, None
  <2>1. prop \in Props /\ doc \in Docs
    BY DEF CodecInv, TypeOK
  <2>2. NoOptional(prop) /\ NoDefault(prop) /\ prop.default = NoValue
    BY <2>1, PartsOfProp, PartsInherit
  <2>3. doc.t = DocType(prop) /\ OkAt[prop][doc]
    BY <2>1, <2>2, OkNeeded DEF Ok
  <2> QED BY <2>1, <2>2, <2>3, SchemasOfOkDocsEnd
<1> QED BY <1>1, InvHolds, PTL

-----------------------------------------------------------------------------
(***************************************************************************)
(* What is marked and what is not ok                                       *)
(***************************************************************************)
LEMMA MarksAre ==
    /\ \A marks : Marked(marks).ends /\ Marked(marks).marks = marks
    /\ ~Stuck.ends /\ Stuck.marks = {}
BY DEF Marked, Stuck

LEMMA ExamplesAreUnmarked == \A report, p : Example(report, p).marks = {}
BY DEF Example

\* Parts reported one after the other mark nothing together if none does alone,
\* and get to their end if each does.
LEMMA TurnsAre ==
    ASSUME NEW reports
    PROVE  /\ (\A i \in DOMAIN reports : reports[i].marks = {}) => InTurn(reports).marks = {}
           /\ (\A i \in DOMAIN reports : reports[i].ends) /\ DOMAIN reports = 1..Len(reports) /\ Len(reports) \in Nat =>
                 /\ InTurn(reports).ends
                 /\ \A i \in DOMAIN reports : reports[i].marks \subseteq InTurn(reports).marks
<1> DEFINE Begins(i) == \A j \in 1..(i - 1) : reports[j].ends
           ends == \A i \in DOMAIN reports : reports[i].ends
           marks == UNION {reports[i].marks : i \in {i \in DOMAIN reports : Begins(i)}}
           examples == UNION {reports[i].examples : i \in {i \in DOMAIN reports : Begins(i)}}
<1>1. InTurn(reports) = [ends |-> ends, marks |-> marks, examples |-> examples]
  BY DEF InTurn
<1>2. InTurn(reports).marks = marks
  <2> HIDE DEF ends, marks, examples
  <2> QED BY <1>1
<1>3. ends => InTurn(reports).ends
  <2> SUFFICES ASSUME ends PROVE InTurn(reports).ends
    OBVIOUS
  <2>1. ends = TRUE
    OBVIOUS
  <2> HIDE DEF ends, marks, examples
  <2>2. InTurn(reports) = [ends |-> TRUE, marks |-> marks, examples |-> examples]
    BY <1>1, <2>1
  <2> QED BY <2>2
<1>4. (\A i \in DOMAIN reports : reports[i].marks = {}) => marks = {}
  OBVIOUS
<1>5. ASSUME ends, DOMAIN reports = 1..Len(reports), Len(reports) \in Nat, NEW i \in DOMAIN reports
      PROVE  reports[i].marks \subseteq marks
  <2>1. \A j \in 1..(i - 1) : j \in DOMAIN reports
    BY <1>5
  <2>2. Begins(i)
    BY <1>5, <2>1
  <2> HIDE DEF Begins
  <2> QED BY <2>2
<1> HIDE DEF marks
<1> QED BY <1>2, <1>3, <1>4, <1>5

LEMMA ScalarsAre ==
    \A p \in Props : IsScalar(p) =>
        /\ p.k \in {"int", "str"} /\ p.k # "list" /\ Parts[p] = {p} /\ DocType(p) = p.k
        /\ \A src \in Sources : \A b \in BOOLEAN : Report[p][src][b] = ScalarReport(p, src, b)
<1> SUFFICES ASSUME NEW p \in Props, p.k \in {"int", "str"}
             PROVE  /\ p.k # "list" /\ Parts[p] = {p} /\ DocType(p) = p.k
                    /\ \A src \in Sources : \A b \in BOOLEAN : Report[p][src][b] = ScalarReport(p, src, b)
  BY DEF IsScalar
<1>1. Parts[p] = {p}
  <2>1. Inner(p) = {}
    BY DEF Inner, IsContainer
  <2>2. UNION {Parts[q] : q \in Inner(p)} = {}
    BY <2>1
  <2> QED BY <2>2, PartsAre, Zenon
<1>2. \A src, b : ReportHere(Report, p, src, b) = ScalarReport(p, src, b)
  BY DEF ReportHere
<1> QED BY <1>1, <1>2, ReportUnfold DEF DocType

\* A scalar that is ok is not marked, and no other source is needed for it.
LEMMA OkScalarsAreUnmarked ==
    \A p \in Props : IsScalar(p) /\ p.default = NoValue =>
        /\ \A d \in Docs : \A b \in BOOLEAN : OkWith(OkAt, p, d, b) => Report[p][d][b].marks = {}
        /\ Report[p][NoSource][FALSE].marks = {}
<1> SUFFICES ASSUME NEW p \in Props, IsScalar(p), p.default = NoValue
             PROVE  /\ \A d \in Docs : \A b \in BOOLEAN : OkWith(OkAt, p, d, b) => Report[p][d][b].marks = {}
                    /\ Report[p][NoSource][FALSE].marks = {}
  OBVIOUS
<1>1. NoDefault(p) /\ NoLoose(p) /\ None(p, "list")
  BY ScalarsAre DEF NoDefault, NoLoose, None
<1>2. ASSUME NEW d \in Docs, NEW b \in BOOLEAN, OkWith(OkAt, p, d, b)
      PROVE  ScalarReport(p, d, b).marks = {}
  <2>1. d # NoSource
    BY SourcesAre
  <2>2. Content(d) = d
    BY SourcesAre DEF Content
  <2>3. CASE d.t = DocType(p)
    <3>1. DecodeAt[p][d].ok
      BY <1>1, <1>2, <2>3, OkDocsDecode DEF OkWith
    <3> QED BY <2>1, <2>2, <3>1, MarksAre DEF ScalarReport, Decode
  <2>4. CASE d.t # DocType(p)
    <3>1. ~b
      BY <1>2, <2>4 DEF OkWith
    <3> QED BY <2>4, <3>1, MarksAre DEF ScalarReport
  <2> QED BY <2>3, <2>4
<1>3. ScalarReport(p, NoSource, FALSE).marks = {}
  <2>1. NoSource.t # DocType(p)
    BY ScalarsAre DEF NoSource
  <2> QED BY <2>1, MarksAre DEF ScalarReport
<1> QED BY <1>2, <1>3, ScalarsAre, SourcesAre

\* What is missing and need not be there is not marked.
LEMMA MissingIsUnmarked ==
    \A p \in Props : p.default = NoValue /\ p.k # "map" => Report[p][NoSource][FALSE].marks = {}
<1> SUFFICES ASSUME NEW p \in Props, p.default = NoValue, p.k # "map"
             PROVE  Report[p][NoSource][FALSE].marks = {}
  OBVIOUS
<1>1. Report[p][NoSource][FALSE] = ReportHere(Report, p, NoSource, FALSE)
  BY ReportUnfold, SourcesAre
<1>2. CASE IsScalar(p)
  BY <1>2, OkScalarsAreUnmarked
<1>3. CASE p.k = "struct"
  BY <1>1, <1>3, MarksAre DEF ReportHere, StructReport
<1>4. CASE p.k \in {"list", "array"}
  BY <1>1, <1>4, MarksAre DEF ReportHere, ListReport
<1> QED BY <1>2, <1>3, <1>4, PropsAre DEF IsScalar, Kinds

\* ok() and the report ask the same of a container, whether its elements are needed.
LEMMA ElementsAreOk ==
    \A p \in Props : \A d \in Docs : p.k \in {"list", "array"} /\ d.t = DocType(p) /\ OkAt[p][d] =>
        \A i \in DOMAIN d.items : OkWith(OkAt, p.of, d.items[i], p.k = "array" /\ p.linked /\ i <= p.n)
<1> SUFFICES ASSUME NEW p \in Props, NEW d \in Docs, p.k \in {"list", "array"}, d.t = DocType(p), OkAt[p][d],
                    NEW i \in DOMAIN d.items
             PROVE  OkWith(OkAt, p.of, d.items[i], p.k = "array" /\ p.linked /\ i <= p.n)
  OBVIOUS
<1> DEFINE needs == p.k = "array" /\ p.linked /\ i <= p.n
<1>1. CASE p.k = "list"
  <2>1. ListOk(OkAt, p, d) /\ needs = FALSE
    BY <1>1, OkByKind
  <2>2. OkWith(OkAt, p.of, d.items[i], FALSE)
    BY <2>1 DEF ListOk
  <2> HIDE DEF needs
  <2>3. OkWith(OkAt, p.of, d.items[i], needs)
    BY <2>1, <2>2
  <2> QED BY <2>3 DEF needs
<1>2. CASE p.k = "array"
  <2>1. ArrayOk(OkAt, p, d) /\ p.linked \in BOOLEAN /\ d.t = "list"
    BY <1>2, OkByKind, PropsAre DEF IsProp, DocType
  <2>2. i <= p.n
    BY <2>1, ListDocs DEF ArrayOk
  <2>3. needs = p.linked
    BY <1>2, <2>1, <2>2
  <2>4. OkWith(OkAt, p.of, d.items[i], p.linked)
    BY <2>1 DEF ArrayOk
  <2> HIDE DEF needs
  <2>5. OkWith(OkAt, p.of, d.items[i], needs)
    BY <2>3, <2>4
  <2> QED BY <2>5 DEF needs
<1> QED BY <1>1, <1>2

LEMMA OkDocsAreUnmarked ==
    \A p \in Props : NoDefault(p) /\ None(p, "map") =>
        \A d \in Fitting[p] : \A b \in BOOLEAN : OkWith(OkAt, p, d, b) => Report[p][d][b].marks = {}
<1> DEFINE Plain(p) == NoDefault(p) /\ None(p, "map")
           Passes(p) == \A d \in Fitting[p] : \A b \in BOOLEAN : OkWith(OkAt, p, d, b) => Report[p][d][b].marks = {}
           T == {p \in Props : Plain(p) => Passes(p)}
<1>1. ASSUME NEW p \in Props, \A q \in Inner(p) : q \in T
      PROVE  p \in T
  <2> SUFFICES ASSUME Plain(p), NEW d \in Fitting[p], NEW b \in BOOLEAN, OkWith(OkAt, p, d, b)
               PROVE  Report[p][d][b].marks = {}
    OBVIOUS
  <2>1. p.default = NoValue /\ \A q \in Inner(p) : Plain(q)
    BY PartsInherit
  <2>2. \A q \in Inner(p) : q \in Props /\ Passes(q) /\ q.default = NoValue /\ q.k # "map"
    BY <1>1, <2>1, PartsInherit
  <2>3. d \in FittingDef(Fitting, p) /\ d \in Docs
    BY FittingUnfold DEF FittingDef
  <2>4. Report[p][d][b] = ReportHere(Report, p, d, b) /\ d # NoSource
    BY <2>3, ReportUnfold, SourcesAre
  <2>5. Shown(p, d) = d /\ ~IsDefault(p, d)
    BY <2>1 DEF Shown, IsDefault
  <2> HIDE DEF T, Plain, Passes
  <2>6. CASE IsScalar(p)
    BY <2>1, <2>3, <2>6, OkScalarsAreUnmarked
  <2>7. ~IsScalar(p) => d.t = DocType(p) /\ OkAt[p][d]
    BY <2>3 DEF FittingDef, OkWith
  <2>8. CASE p.k = "struct"
    <3> DEFINE reports == [i \in DOMAIN p.fields |->
                             Report[p.fields[i].of][ChildSource(d, p.fields[i].key)][~p.fields[i].optional]]
    <3>1. /\ d.t = "map" /\ StructOk(OkAt, p, d)
          /\ \A f \in Fields(p) : d.at[f.key] # Gone => d.at[f.key] \in Fitting[f.of]
      BY <2>3, <2>7, <2>8, OkByKind DEF FittingDef, IsScalar, DocType
    <3>2. Report[p][d][b] = InTurn(reports)
      BY <2>4, <2>5, <2>8 DEF ReportHere, StructReport
    <3>3. ASSUME NEW i \in DOMAIN p.fields
          PROVE  Report[p.fields[i].of][ChildSource(d, p.fields[i].key)][~p.fields[i].optional].marks = {}
      <4> DEFINE f == p.fields[i]
                 x == d.at[f.key]
      <4>1. f \in Fields(p) /\ f.of \in Inner(p) /\ f.of \in Props /\ (~f.optional) \in BOOLEAN
        BY <2>8, FieldsAre
      <4>2. OkWith(OkAt, f.of, x, ~f.optional)
        BY <3>1, <4>1 DEF StructOk
      <4>3. ChildSource(d, f.key) = IF x = Gone THEN NoSource ELSE x
        BY <2>3, <2>8, <3>1, FieldsAre, DocSources DEF Child
      <4>4. x # Gone => x \in Fitting[f.of]
        BY <3>1, <4>1
      <4> HIDE DEF f, x
      <4>5. CASE x = Gone
        <5>1. x.t # DocType(f.of)
          BY <4>1, <4>5, PropsAre DEF Gone, DocType, Kinds
        <5>2. (~f.optional) = FALSE
          BY <2>2, <4>1, <4>2, <5>1 DEF OkWith
        <5>3. Report[f.of][NoSource][FALSE].marks = {}
          BY <2>2, <4>1, MissingIsUnmarked
        <5>4. Report[f.of][ChildSource(d, f.key)][~f.optional].marks = {}
          BY <4>3, <4>5, <5>2, <5>3
        <5> QED BY <5>4 DEF f
      <4>6. CASE x # Gone
        <5>1. Report[f.of][x][~f.optional].marks = {}
          BY <2>2, <4>1, <4>2, <4>4, <4>6 DEF Passes
        <5>2. Report[f.of][ChildSource(d, f.key)][~f.optional].marks = {}
          BY <4>3, <4>6, <5>1
        <5> QED BY <5>2 DEF f
      <4> QED BY <4>5, <4>6
    <3>4. \A i \in DOMAIN reports : reports[i].marks = {}
      BY <3>3
    <3> HIDE DEF reports
    <3> QED BY <3>2, <3>4, TurnsAre
  <2>9. CASE p.k \in {"list", "array"}
    <3>1. /\ d.t = "list" /\ OkAt[p][d] /\ d.t = DocType(p)
          /\ \A i \in DOMAIN d.items : d.items[i] \in Fitting[p.of]
      BY <2>3, <2>7, <2>9 DEF FittingDef, IsScalar, DocType
    <3> DEFINE Needs(i) == p.k = "array" /\ p.linked /\ i <= p.n
    <3>2. \A i \in DOMAIN d.items : OkWith(OkAt, p.of, d.items[i], Needs(i))
      BY <2>3, <2>9, <3>1, ElementsAreOk
    <3>3. p.of \in Inner(p) /\ Elements(d) = d.items
      BY <2>9, <3>1, ContainersHold DEF IsContainer, Elements
    <3>4. Ok(p, d, b)
      BY <2>3, <3>1, OkHolds DEF Ok
    <3> DEFINE reports == [i \in DOMAIN d.items |-> Report[p.of][d.items[i]][Needs(i)]]
    <3>5. ListReport(Report, p, d, b) \in {Example(Report, p), Marked({}), InTurn(reports)}
      BY <2>4, <2>5, <3>1, <3>3, <3>4 DEF ListReport
    <3>6. ASSUME NEW i \in DOMAIN d.items
          PROVE  Report[p.of][d.items[i]][Needs(i)].marks = {}
      <4> DEFINE c == Needs(i)
      <4>1. c \in BOOLEAN /\ OkWith(OkAt, p.of, d.items[i], c)
        BY <3>2
      <4> HIDE DEF c
      <4>2. Report[p.of][d.items[i]][c].marks = {}
        BY <2>2, <3>1, <3>3, <4>1 DEF Passes
      <4> QED BY <4>2 DEF c
    <3>7. \A i \in DOMAIN reports : reports[i].marks = {}
      BY <3>6
    <3> HIDE DEF reports
    <3>8. ListReport(Report, p, d, b).marks = {}
      BY <3>5, <3>7, ExamplesAreUnmarked, MarksAre, TurnsAre
    <3> QED BY <2>4, <2>9, <3>8 DEF ReportHere
  <2>10. p.k # "map"
    BY PartsInherit DEF Plain
  <2> QED BY <2>6, <2>8, <2>9, <2>10, PropsAre DEF IsScalar, Kinds
<1>2. Props \subseteq T
  <2> HIDE DEF T
  <2> QED BY <1>1, PropsInduction
<1> QED BY <1>2

\* What the report marks in a document of any depth, outside of the examples of
\* what is empty, ok() objects to.
THEOREM WhatIsMarkedIsNotOk == Spec => []MarkedIsNotOk
<1>1. CodecInv => MarkedIsNotOk
  <2> SUFFICES ASSUME CodecInv, ~HasDefault, ~Is("map"), doc \in Fitting[prop], OkWith(OkAt, prop, doc, TRUE)
               PROVE  Report[prop][doc][TRUE].marks = {}
    BY DEF MarkedIsNotOk, Reported, Ok
  <2>1. prop \in Props /\ NoDefault(prop) /\ None(prop, "map")
    BY PartsOfProp DEF CodecInv, TypeOK
  <2> QED BY <2>1, OkDocsAreUnmarked
<1> QED BY <1>1, InvHolds, PTL

\* A scalar is reported to the end, and marked if it is not ok or missing where
\* it is needed.
LEMMA NotOkScalarsHaveMarks ==
    \A p \in Props : IsScalar(p) =>
        /\ \A src \in Sources : \A b \in BOOLEAN : Report[p][src][b].ends
        /\ NoDefault(p) /\ NoAllowed(p) =>
              /\ \A d \in Docs : \A b \in BOOLEAN : ~OkWith(OkAt, p, d, b) => Report[p][d][b].marks # {}
              /\ Report[p][NoSource][TRUE].marks # {}
<1> SUFFICES ASSUME NEW p \in Props, IsScalar(p)
             PROVE  /\ \A src \in Sources : \A b \in BOOLEAN : Report[p][src][b].ends
                    /\ NoDefault(p) /\ NoAllowed(p) =>
                          /\ \A d \in Docs : \A b \in BOOLEAN :
                                ~OkWith(OkAt, p, d, b) => Report[p][d][b].marks # {}
                          /\ Report[p][NoSource][TRUE].marks # {}
  OBVIOUS
<1>1. \A src, b : ScalarReport(p, src, b).ends
  BY MarksAre DEF ScalarReport
<1>2. ASSUME NoDefault(p), NoAllowed(p), NEW d \in Docs, NEW b \in BOOLEAN, ~OkWith(OkAt, p, d, b)
      PROVE  ScalarReport(p, d, b).marks # {}
  <2>1. NoOptional(p)
    BY ScalarsAre DEF NoOptional
  <2>2. ~DecodeAt[p][d].ok
    <3>1. d.t = DocType(p) => ~OkAt[p][d]
      BY <1>2 DEF OkWith
    <3> QED BY <1>2, <2>1, <3>1, DecodedDocsPass
  <2>3. Content(d) = d
    BY SourcesAre DEF Content
  <2>4. CASE d.t = DocType(p)
    <3>1. ScalarReport(p, d, b) = Marked({"INVALID"})
      BY <2>2, <2>3, <2>4 DEF ScalarReport, Decode
    <3> QED BY <3>1, MarksAre
  <2>5. CASE d.t # DocType(p)
    <3>1. b
      BY <1>2, <2>5 DEF OkWith
    <3>2. ScalarReport(p, d, b) = Marked({"REQUIRED"})
      BY <2>2, <2>3, <2>5, <3>1 DEF ScalarReport, Decode
    <3> QED BY <3>2, MarksAre
  <2> QED BY <2>4, <2>5
<1>3. ScalarReport(p, NoSource, TRUE).marks # {}
  <2>1. NoSource.t # DocType(p)
    BY ScalarsAre DEF NoSource
  <2>2. ScalarReport(p, NoSource, TRUE) = Marked({"REQUIRED"})
    BY <2>1 DEF ScalarReport
  <2> QED BY <2>2, MarksAre
<1>4. \A src \in Sources : \A b \in BOOLEAN : Report[p][src][b] = ScalarReport(p, src, b)
  BY ScalarsAre
<1>5. \A src \in Sources : \A b \in BOOLEAN : Report[p][src][b].ends
  BY <1>1, <1>4
<1>6. ASSUME NoDefault(p), NoAllowed(p), NEW d \in Docs, NEW b \in BOOLEAN, ~OkWith(OkAt, p, d, b)
      PROVE  Report[p][d][b].marks # {}
  BY <1>2, <1>4, <1>6, SourcesAre
<1>7. Report[p][NoSource][TRUE].marks # {}
  BY <1>3, <1>4, SourcesAre
<1> QED BY <1>5, <1>6, <1>7

LEMMA NotOkStructsHaveMarks ==
    ASSUME NEW p \in Props, p.k = "struct", \A f \in Fields(p) : IsScalar(f.of),
           \E f \in Fields(p) : ~f.optional, NoDefault(p), NoAllowed(p), NEW d \in Docs, ~OkWith(OkAt, p, d, TRUE)
    PROVE  Report[p][d][TRUE].ends /\ Report[p][d][TRUE].marks # {}
<1> DEFINE At(f) == Report[f.of][ChildSource(d, f.key)][~f.optional]
           reports == [i \in DOMAIN p.fields |-> At(p.fields[i])]
<1>1. p.default = NoValue /\ \A q \in Inner(p) : NoDefault(q) /\ NoAllowed(q) /\ q.default = NoValue
  BY PartsInherit, InnerAre
<1>2. Report[p][d][TRUE] = InTurn(reports)
  <2>1. Shown(p, d) = d /\ d # NoSource
    BY <1>1, SourcesAre DEF Shown, IsDefault
  <2>2. Report[p][d][TRUE] = ReportHere(Report, p, d, TRUE)
    BY ReportUnfold, SourcesAre
  <2> QED BY <2>1, <2>2 DEF ReportHere, StructReport
<1>3. \A f \in Fields(p) : /\ f.of \in Inner(p) /\ f.of \in Props /\ f.key \in Keys
                           /\ f.optional \in BOOLEAN /\ IsScalar(f.of)
  BY FieldsByKey
<1>4. \A f \in Fields(p) : At(f).ends
  <2> SUFFICES ASSUME NEW f \in Fields(p) PROVE At(f).ends
    OBVIOUS
  <2>1. ChildSource(d, f.key) \in Sources /\ (~f.optional) \in BOOLEAN
    BY <1>3, DocSources
  <2> QED BY <1>3, <2>1, NotOkScalarsHaveMarks
<1>5. \E f \in Fields(p) : At(f).marks # {}
  <2>1. CASE d.t = "map"
    <3>1. ~StructOk(OkAt, p, d)
      BY <2>1, OkByKind DEF OkWith, DocType
    <3>2. PICK f \in Fields(p) : ~OkWith(OkAt, f.of, d.at[f.key], ~f.optional)
      BY <3>1 DEF StructOk
    <3>3. d.at[f.key] \in Docs /\ (~f.optional) \in BOOLEAN
      BY <1>3, <2>1, MapDocs
    <3>4. ChildSource(d, f.key) = IF d.at[f.key] = Gone THEN NoSource ELSE d.at[f.key]
      BY <1>3, <2>1, DocSources DEF Child
    <3>5. CASE d.at[f.key] = Gone
      <4>1. d.at[f.key].t # DocType(f.of)
        BY <1>3, <3>5, PropsAre DEF Gone, DocType, Kinds
      <4>2. (~f.optional) = TRUE
        BY <1>3, <3>2, <4>1 DEF OkWith
      <4>3. Report[f.of][NoSource][TRUE].marks # {}
        BY <1>1, <1>3, NotOkScalarsHaveMarks
      <4>4. At(f).marks # {}
        BY <3>4, <3>5, <4>2, <4>3
      <4> QED BY <4>4
    <3>6. CASE d.at[f.key] # Gone
      <4>1. Report[f.of][d.at[f.key]][~f.optional].marks # {}
        BY <1>1, <1>3, <3>2, <3>3, NotOkScalarsHaveMarks
      <4>2. At(f).marks # {}
        BY <3>4, <3>6, <4>1
      <4> QED BY <4>2
    <3> QED BY <3>5, <3>6
  <2>2. CASE d.t # "map"
    <3>1. PICK f \in Fields(p) : ~f.optional
      OBVIOUS
    <3>2. ChildSource(d, f.key) = NoSource /\ (~f.optional) = TRUE
      BY <1>3, <2>2, <3>1, DocSources DEF Child
    <3>3. Report[f.of][NoSource][TRUE].marks # {}
      BY <1>1, <1>3, <3>1, NotOkScalarsHaveMarks
    <3>4. At(f).marks # {}
      BY <3>2, <3>3
    <3> QED BY <3>1, <3>4
  <2> QED BY <2>1, <2>2
<1>6. DOMAIN p.fields = 1..Len(p.fields) /\ Len(p.fields) \in Nat
      /\ (\A i \in DOMAIN p.fields : p.fields[i] \in Fields(p))
      /\ (\A f \in Fields(p) : \E i \in DOMAIN p.fields : f = p.fields[i])
  BY FieldsAre DEF Fields
<1>7. /\ \A i \in DOMAIN p.fields : At(p.fields[i]).ends
      /\ \E i \in DOMAIN p.fields : At(p.fields[i]).marks # {}
  <2> HIDE DEF At
  <2> QED BY <1>4, <1>5, <1>6
<1>8. /\ DOMAIN reports = 1..Len(reports) /\ Len(reports) \in Nat
      /\ \A i \in DOMAIN reports : reports[i].ends
      /\ \E i \in DOMAIN reports : reports[i].marks # {}
  <2> HIDE DEF At
  <2>1. DOMAIN reports = 1..Len(p.fields)
    BY <1>6
  <2>2. \A i \in DOMAIN reports : reports[i] = At(p.fields[i])
    OBVIOUS
  <2>3. Len(reports) = Len(p.fields)
    BY <1>6, <2>1
  <2>4. PICK j \in DOMAIN p.fields : At(p.fields[j]).marks # {}
    BY <1>7
  <2>5. j \in DOMAIN reports /\ reports[j] = At(p.fields[j])
    BY <1>6, <2>1, <2>2
  <2>6. \A i \in DOMAIN reports : reports[i].ends
    BY <1>6, <1>7, <2>1, <2>2
  <2> HIDE DEF reports
  <2> QED BY <1>6, <2>1, <2>3, <2>4, <2>5, <2>6
<1> HIDE DEF reports, At
<1> QED BY <1>2, <1>8, TurnsAre

\* What ok() objects to in scalars and structs of them, the report marks, and it
\* gets to its end.
THEOREM NotOkIsMarked == Spec => []NotOkScalarsAreMarked
<1>1. CodecInv => NotOkScalarsAreMarked
  <2> SUFFICES ASSUME CodecInv, ~HasDefault, ~HasAllowed, ~OkWith(OkAt, prop, doc, TRUE),
                      \/ IsScalar(prop)
                      \/ /\ prop.k = "struct" /\ \A f \in Fields(prop) : IsScalar(f.of)
                         /\ \E f \in Fields(prop) : ~f.optional
               PROVE  Report[prop][doc][TRUE].ends /\ Report[prop][doc][TRUE].marks # {}
    BY DEF NotOkScalarsAreMarked, Reported, Ok
  <2>1. prop \in Props /\ doc \in Docs /\ NoDefault(prop) /\ NoAllowed(prop)
    BY PartsOfProp DEF CodecInv, TypeOK
  <2>2. CASE IsScalar(prop)
    BY <2>1, <2>2, NotOkScalarsHaveMarks, SourcesAre
  <2>3. CASE ~IsScalar(prop)
    BY <2>1, <2>3, NotOkStructsHaveMarks
  <2> QED BY <2>2, <2>3
<1> QED BY <1>1, InvHolds, PTL

-----------------------------------------------------------------------------
(***************************************************************************)
(* Whether reports get to their end                                        *)
(***************************************************************************)
LEMMA TurnsEnd == \A reports : (\A i \in DOMAIN reports : reports[i].ends) => InTurn(reports).ends
<1> SUFFICES ASSUME NEW reports, \A i \in DOMAIN reports : reports[i].ends PROVE InTurn(reports).ends
  OBVIOUS
<1> DEFINE ends == \A i \in DOMAIN reports : reports[i].ends
           Begins(i) == \A j \in 1..(i - 1) : reports[j].ends
           marks == UNION {reports[i].marks : i \in {i \in DOMAIN reports : Begins(i)}}
           examples == UNION {reports[i].examples : i \in {i \in DOMAIN reports : Begins(i)}}
<1>1. ends = TRUE /\ InTurn(reports) = [ends |-> ends, marks |-> marks, examples |-> examples]
  BY DEF InTurn
<1> HIDE DEF ends, marks, examples
<1>2. InTurn(reports) = [ends |-> TRUE, marks |-> marks, examples |-> examples]
  BY <1>1
<1> QED BY <1>2

LEMMA ExamplesEnd ==
    \A p : Report[p.of][NullSource][ExampleIsNeeded(p)].ends => Example(Report, p).ends
<1> SUFFICES ASSUME NEW p, Report[p.of][NullSource][ExampleIsNeeded(p)].ends
             PROVE  Example(Report, p).ends
  OBVIOUS
<1> DEFINE it == Report[p.of][NullSource][ExampleIsNeeded(p)]
<1>1. Example(Report, p) = [ends |-> it.ends, marks |-> {}, examples |-> it.marks \cup it.examples]
  BY DEF Example, ExampleSource
<1> HIDE DEF it
<1>2. Example(Report, p).ends = it.ends
  BY <1>1
<1> QED BY <1>2 DEF it

\* What is printed of a map ends with the parts of it.
LEMMA MapReportsEnd ==
    ASSUME NEW p \in Props, NEW src, src \notin {NoSource, Gone},
           AsMap(src).order = <<>> => Example(Report, p).ends,
           \A i \in DOMAIN AsMap(src).order : \A b \in BOOLEAN :
              Report[p.of][src.at[AsMap(src).order[i]]][b].ends
    PROVE  MapReport(Report, p, src).ends
<1> DEFINE order == AsMap(src).order
           Needs(k) == p.linked /\ k \in p.required
           reports == [i \in DOMAIN order |-> Report[p.of][src.at[order[i]]][Needs(order[i])]]
           below == IF order = <<>> THEN Example(Report, p) ELSE InTurn(reports)
           missing == \E k \in p.required : Child(src, k) = Gone
           marks == below.marks \cup (IF missing THEN {"REQUIRED"} ELSE {})
<1>1. MapReport(Report, p, src) = [below EXCEPT !.marks = marks]
  BY DEF MapReport
<1>2. ASSUME NEW i \in DOMAIN order PROVE Report[p.of][src.at[order[i]]][Needs(order[i])].ends
  <2> DEFINE c == Needs(order[i])
  <2>1. c \in BOOLEAN
    OBVIOUS
  <2> HIDE DEF c, order
  <2>2. Report[p.of][src.at[order[i]]][c].ends
    BY <2>1 DEF order
  <2> QED BY <2>2 DEF c
<1>3. \A i \in DOMAIN reports : reports[i].ends
  BY <1>2
<1> HIDE DEF reports
<1>4. below.ends
  BY <1>3, TurnsEnd
<1>5. below = [ends |-> below.ends, marks |-> below.marks, examples |-> below.examples]
  <2>1. Example(Report, p) = [ends |-> Example(Report, p).ends, marks |-> Example(Report, p).marks,
                              examples |-> Example(Report, p).examples]
    BY DEF Example
  <2>2. InTurn(reports) = [ends |-> InTurn(reports).ends, marks |-> InTurn(reports).marks,
                           examples |-> InTurn(reports).examples]
    BY DEF InTurn
  <2> QED BY <2>1, <2>2
<1> HIDE DEF below, marks
<1>6. [below EXCEPT !.marks = marks].ends = below.ends
  BY <1>5
<1> QED BY <1>1, <1>4, <1>6

\* From Source::null() everything gets to its end.
LEMMA NullReportsEnd ==
    \A p \in Props : NoDefault(p) => \A b \in BOOLEAN : Report[p][NullSource][b].ends
<1> DEFINE Ends(p) == \A b \in BOOLEAN : Report[p][NullSource][b].ends
           T == {p \in Props : NoDefault(p) => Ends(p)}
<1>1. ASSUME NEW p \in Props, \A q \in Inner(p) : q \in T
      PROVE  p \in T
  <2> SUFFICES ASSUME NoDefault(p), NEW b \in BOOLEAN PROVE Report[p][NullSource][b].ends
    OBVIOUS
  <2>1. p.default = NoValue /\ \A q \in Inner(p) : q \in Props /\ Ends(q)
    BY <1>1, PartsInherit
  <2>2. Report[p][NullSource][b] = ReportHere(Report, p, NullSource, b)
    BY ReportUnfold, SourcesAre
  <2>3. Shown(p, NullSource) = NullSource /\ ~IsDefault(p, NullSource)
    BY <2>1 DEF Shown, IsDefault
  <2>4. NullSource \notin {NoSource, Gone} /\ NullSource.t = "null"
    BY DEF NullSource, NoSource, Gone
  <2>5. IsContainer(p) => Example(Report, p).ends
    <3> SUFFICES ASSUME IsContainer(p) PROVE Example(Report, p).ends
      OBVIOUS
    <3>1. ExampleIsNeeded(p) \in BOOLEAN
      BY DEF ExampleIsNeeded
    <3>2. Report[p.of][NullSource][ExampleIsNeeded(p)].ends
      BY <2>1, <3>1, ContainersHold
    <3> QED BY <3>2, ExamplesEnd
  <2> HIDE DEF T
  <2>6. CASE p.k \in {"int", "str"}
    BY <2>6, NotOkScalarsHaveMarks, SourcesAre DEF IsScalar
  <2>7. CASE p.k = "struct"
    <3> DEFINE reports == [i \in DOMAIN p.fields |->
                             Report[p.fields[i].of][ChildSource(NullSource, p.fields[i].key)][~p.fields[i].optional]]
    <3>1. ReportHere(Report, p, NullSource, b) = InTurn(reports)
      BY <2>3, <2>4, <2>7 DEF ReportHere, StructReport
    <3>2. \A i \in DOMAIN p.fields :
             Report[p.fields[i].of][ChildSource(NullSource, p.fields[i].key)][~p.fields[i].optional].ends
      BY <2>1, <2>7, FieldsAre DEF ChildSource
    <3>3. \A i \in DOMAIN reports : reports[i].ends
      BY <3>2
    <3> HIDE DEF reports
    <3> QED BY <2>2, <3>1, <3>3, TurnsEnd
  <2>8. CASE p.k = "map"
    <3>1. AsMap(NullSource).order = <<>>
      BY <2>4 DEF AsMap, EmptyMap, Map_
    <3>2. DOMAIN AsMap(NullSource).order = {}
      BY <3>1
    <3>3. MapReport(Report, p, NullSource).ends
      BY <2>4, <2>5, <2>8, <3>2, MapReportsEnd DEF IsContainer
    <3> QED BY <2>2, <2>8, <3>3 DEF ReportHere
  <2>9. CASE p.k \in {"list", "array"}
    <3>1. Elements(NullSource) = <<>>
      BY <2>4 DEF Elements
    <3>2. ListReport(Report, p, NullSource, b) = Example(Report, p)
      BY <2>3, <2>4, <3>1 DEF ListReport
    <3> QED BY <2>2, <2>5, <2>9, <3>2 DEF ReportHere, IsContainer
  <2> QED BY <2>6, <2>7, <2>8, <2>9, PropsAre DEF Kinds
<1>2. Props \subseteq T
  <2> HIDE DEF T
  <2> QED BY <1>1, PropsInduction
<1> QED BY <1>2

NoneMapped(p) == \A q \in Parts[p] : q.k = "map" => None(q, "struct")

LEMMA MappedInherit ==
    \A p \in Props : NoneMapped(p) =>
        (p.k = "map" => None(p, "struct")) /\ \A q \in Inner(p) : NoneMapped(q)
BY PartsHold DEF NoneMapped

\* Only a struct asks for what is in a document to be ok.
LEMMA OkReportsEnd ==
    \A p \in Props : NoDefault(p) /\ NoOptional(p) /\ NoneMapped(p) =>
        \A d \in Fitting[p] : \A b \in BOOLEAN :
            None(p, "struct") \/ OkWith(OkAt, p, d, b) => Report[p][d][b].ends
<1> DEFINE Plain(p) == NoDefault(p) /\ NoOptional(p) /\ NoneMapped(p)
           Ends(p) == \A d \in Fitting[p] : \A b \in BOOLEAN :
                         None(p, "struct") \/ OkWith(OkAt, p, d, b) => Report[p][d][b].ends
           T == {p \in Props : Plain(p) => Ends(p)}
<1>1. ASSUME NEW p \in Props, \A q \in Inner(p) : q \in T
      PROVE  p \in T
  <2> SUFFICES ASSUME Plain(p), NEW d \in Fitting[p], NEW b \in BOOLEAN,
                      None(p, "struct") \/ OkWith(OkAt, p, d, b)
               PROVE  Report[p][d][b].ends
    OBVIOUS
  <2>1. p.default = NoValue /\ \A q \in Inner(p) : Plain(q)
    BY PartsInherit, MappedInherit
  <2>2. \A q \in Inner(p) : /\ q \in Props /\ q.default = NoValue /\ Ends(q)
                            /\ None(p, "struct") => None(q, "struct")
    BY <1>1, <2>1, PartsInherit
  <2>3. d \in FittingDef(Fitting, p) /\ d \in Docs
    BY FittingUnfold DEF FittingDef
  <2>4. Report[p][d][b] = ReportHere(Report, p, d, b) /\ d # NoSource
    BY <2>3, ReportUnfold, SourcesAre
  <2>5. Shown(p, d) = d /\ ~IsDefault(p, d)
    BY <2>1 DEF Shown, IsDefault
  <2>6. IsContainer(p) => Example(Report, p).ends
    <3> SUFFICES ASSUME IsContainer(p) PROVE Example(Report, p).ends
      OBVIOUS
    <3>1. ExampleIsNeeded(p) \in BOOLEAN
      BY DEF ExampleIsNeeded
    <3>2. Report[p.of][NullSource][ExampleIsNeeded(p)].ends
      BY <2>1, <3>1, ContainersHold, NullReportsEnd
    <3> QED BY <3>2, ExamplesEnd
  <2>7. ~IsScalar(p) => d.t = DocType(p)
    BY <2>3 DEF FittingDef
  <2>8. d.t = DocType(p) => None(p, "struct") \/ OkAt[p][d]
    BY DEF OkWith
  <2> HIDE DEF T, Plain, Ends
  <2>9. CASE IsScalar(p)
    BY <2>3, <2>9, NotOkScalarsHaveMarks, SourcesAre
  <2>10. CASE p.k = "struct"
    <3> DEFINE reports == [i \in DOMAIN p.fields |->
                             Report[p.fields[i].of][ChildSource(d, p.fields[i].key)][~p.fields[i].optional]]
    <3>1. /\ d.t = "map" /\ StructOk(OkAt, p, d)
          /\ \A f \in Fields(p) : d.at[f.key] # Gone => d.at[f.key] \in Fitting[f.of]
      BY <2>3, <2>7, <2>8, <2>10, PartsInherit, OkByKind DEF FittingDef, IsScalar, DocType
    <3>2. Report[p][d][b] = InTurn(reports)
      BY <2>4, <2>5, <2>10 DEF ReportHere, StructReport
    <3>3. ASSUME NEW f \in Fields(p) PROVE Report[f.of][ChildSource(d, f.key)][~f.optional].ends
      <4>1. f.of \in Inner(p) /\ f.key \in Keys /\ (~f.optional) = TRUE
        BY <2>10, FieldsByKey, PartsInherit DEF Plain
      <4>2. OkWith(OkAt, f.of, d.at[f.key], TRUE)
        BY <3>1, <4>1 DEF StructOk
      <4>3. d.at[f.key].t = DocType(f.of)
        BY <2>2, <4>1, <4>2, OkNeeded
      <4>4. d.at[f.key] # Gone
        BY <2>2, <4>1, <4>3, PropsAre DEF Gone, DocType, Kinds
      <4>5. ChildSource(d, f.key) = d.at[f.key]
        BY <2>3, <3>1, <4>1, <4>4, DocSources DEF Child
      <4>6. Report[f.of][d.at[f.key]][TRUE].ends
        BY <2>2, <3>1, <4>1, <4>2, <4>4 DEF Ends
      <4> QED BY <4>1, <4>5, <4>6
    <3>4. \A i \in DOMAIN reports : reports[i].ends
      BY <2>10, <3>3, FieldsAre
    <3> HIDE DEF reports
    <3> QED BY <3>2, <3>4, TurnsEnd
  <2>11. CASE p.k = "map"
    <3>1. /\ d.t = "map" /\ None(p, "struct") /\ p.of \in Inner(p)
          /\ \A k \in Keys : d.at[k] # Gone => d.at[k] \in Fitting[p.of]
      BY <2>3, <2>7, <2>11, MappedInherit, ContainersHold DEF Plain, FittingDef, IsScalar, DocType, IsContainer
    <3>2. AsMap(d) = d /\ d # Gone
      BY <3>1 DEF AsMap, Gone
    <3>3. \A i \in DOMAIN d.order : d.order[i] \in Keys /\ d.at[d.order[i]] # Gone
      BY <2>3, <3>1, DocsAre DEF IsMap, Enumerates
    <3>4. \A i \in DOMAIN d.order : \A c \in BOOLEAN : Report[p.of][d.at[d.order[i]]][c].ends
      BY <2>2, <3>1, <3>3 DEF Ends
    <3>5. MapReport(Report, p, d).ends
      BY <2>4, <2>6, <2>11, <3>2, <3>4, MapReportsEnd DEF IsContainer
    <3> QED BY <2>4, <2>11, <3>5 DEF ReportHere
  <2>12. CASE p.k \in {"list", "array"}
    <3> DEFINE Needs(i) == p.k = "array" /\ p.linked /\ i <= p.n
               reports == [i \in DOMAIN d.items |-> Report[p.of][d.items[i]][Needs(i)]]
    <3>1. /\ d.t = "list" /\ d.t = DocType(p) /\ p.of \in Inner(p) /\ Elements(d) = d.items
          /\ \A i \in DOMAIN d.items : d.items[i] \in Fitting[p.of]
      BY <2>3, <2>7, <2>12, ContainersHold DEF FittingDef, IsScalar, DocType, IsContainer, Elements
    <3>2. ASSUME NEW i \in DOMAIN d.items PROVE Report[p.of][d.items[i]][Needs(i)].ends
      <4> DEFINE c == Needs(i)
      <4>1. c \in BOOLEAN
        OBVIOUS
      <4>2. None(p, "struct") \/ OkWith(OkAt, p.of, d.items[i], c)
        BY <2>3, <2>8, <2>12, <3>1, ElementsAreOk
      <4> HIDE DEF c
      <4>3. Report[p.of][d.items[i]][c].ends
        BY <2>2, <3>1, <4>1, <4>2 DEF Ends
      <4> QED BY <4>3 DEF c
    <3>3. \A i \in DOMAIN reports : reports[i].ends
      BY <3>2
    <3>4. ListReport(Report, p, d, b) \in {Example(Report, p), Marked({}), Marked({"INVALID"}), InTurn(reports)}
      BY <2>4, <2>5, <3>1 DEF ListReport
    <3> HIDE DEF reports
    <3>5. ListReport(Report, p, d, b).ends
      BY <2>6, <2>12, <3>3, <3>4, MarksAre, TurnsEnd DEF IsContainer
    <3> QED BY <2>4, <2>12, <3>5 DEF ReportHere
  <2> QED BY <2>9, <2>10, <2>11, <2>12, PropsAre DEF IsScalar, Kinds
<1>2. Props \subseteq T
  <2> HIDE DEF T
  <2> QED BY <1>1, PropsInduction
<1> QED BY <1>2

\* The report of a document of any depth that passes ok() gets to its end, through
\* the examples of what is empty.
THEOREM TheReportIsPrinted == Spec => []ReportIsPrinted
<1>1. CodecInv => ReportIsPrinted
  <2> SUFFICES ASSUME CodecInv, ~HasDefault, ~HasOptional, NoneMapped(prop), doc \in Fitting[prop],
                      OkWith(OkAt, prop, doc, TRUE)
               PROVE  Report[prop][doc][TRUE].ends
    BY DEF ReportIsPrinted, NoneMapped, None, Reported, Ok
  <2>1. prop \in Props /\ NoDefault(prop) /\ NoOptional(prop)
    BY PartsOfProp DEF CodecInv, TypeOK
  <2> QED BY <2>1, OkReportsEnd
<1> QED BY <1>1, InvHolds, PTL
=============================================================================
