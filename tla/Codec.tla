------------------------------- MODULE Codec -------------------------------
(***************************************************************************)
(* Properties that are mapped to a type: what they validate, decode and    *)
(* encode (include/cray/detail/props/numeric.hpp, str.hpp, mono-map.hpp,   *)
(* mono-list.hpp, array.hpp, structured.hpp, and CodecProp of prop.hpp).   *)
(*                                                                         *)
(* A program describes a property from the inside out, loads documents     *)
(* into its source, saves values into it and asks for the value there. A   *)
(* document is seen here as the tree of what is in it; that calls on       *)
(* sources come to such trees is what EntrySource and Document show.       *)
(*                                                                         *)
(* Strings are model values with a length. The types without restrictions, *)
(* Nil and Bool, decode as an Int without restrictions does. The walks     *)
(* over properties are recursive functions of the property; the case of    *)
(* each kind is an operator that is given the walk itself.                 *)
(***************************************************************************)
EXTENDS Integers, Sequences

CONSTANTS
    KeyList,         \* the keys of maps, in the order fields take them
    OrderOf,         \* the order the keys of a set come in: of the fields of a
                     \* struct that of KeyList, of an unordered map any
    Strs,            \* the strings
    LengthOf,        \* of every string
    EmptyStr,        \* std::string()
    MinInt, MaxInt,  \* std::numeric_limits of the integers
    NoBound,         \* an interval is open on that side
    NoValue,         \* std::nullopt
    Ranges,          \* the intervals given to interval(...)
    Sizes,           \* the intervals given to length(...) and size(...)
    Divisors,        \* the numbers given to mutipleOf(...)
    Extents,         \* the sizes of arrays
    Props,           \* bound: the properties that are described, and what is in them
    Depth,           \* of each of them: what is in a property is less deep
    MaxDepth,        \* bound: how deep documents are nested
    Loads(_),        \* bound: the documents that are loaded for each property
    Saves(_)         \* bound: the values that are saved or a default of each property

I == INSTANCE IntervalOps
U == INSTANCE IntervalOps WITH MinInt <- 0     \* of std::size_t

Keys == {KeyList[i] : i \in DOMAIN KeyList}

VARIABLES
    prop,            \* the property described last
    doc,             \* what is at its source
    saved            \* the value doc was made of, if it was

vars == <<prop, doc, saved>>

-----------------------------------------------------------------------------
(***************************************************************************)
(* Documents                                                               *)
(***************************************************************************)
Gone     == [t |-> "gone"]   \* nothing, or the null pointer in the gap of a list
NilDoc   == [t |-> "nil"]
Int_(n)  == [t |-> "int", value |-> n]
Str_(s)  == [t |-> "str", value |-> s]
Map_(order, at) == [t |-> "map", order |-> order, at |-> at]
List_(s) == [t |-> "list", items |-> s]

EmptyMap == Map_(<<>>, [k \in Keys |-> Gone])

Enumerates(order, K) ==
    /\ {order[i] : i \in DOMAIN order} = K
    /\ \A i, j \in DOMAIN order : order[i] = order[j] => i = j

\* Documents made of those in Below. The order of a map enumerates its keys, and
\* a list does not end in a gap.
DocsOver(Below) ==
    {Gone, NilDoc}
    \cup [t : {"int"}, value : I!Ints]
    \cup [t : {"str"}, value : Strs]
    \cup {d \in [t : {"map"}, order : Seq(Keys), at : [Keys -> Below]] :
             Enumerates(d.order, {k \in Keys : d.at[k] # Gone})}
    \cup {d \in [t : {"list"}, items : Seq(Below)] :
             d.items # <<>> => d.items[Len(d.items)] # Gone}

\* Documents nested n deep at most.
Level[n \in Nat] == DocsOver(IF n = 0 THEN {Gone} ELSE Level[n - 1])

Docs == Level[MaxDepth]

Child(d, k) == IF d.t = "map" THEN d.at[k] ELSE Gone

-----------------------------------------------------------------------------
(***************************************************************************)
(* Properties. A field is a property of its own with a key; whether it is  *)
(* required is a matter of its type, std::optional or not. A container is  *)
(* linked if what it is described to hold has it as its prev: only then    *)
(* the container is asked whether its elements are needed.                 *)
(***************************************************************************)
IntProp == [k |-> "int", default |-> NoValue, interval |-> I!All, multiple_of |-> 0, with_clamp |-> FALSE]
StrProp == [k |-> "str", default |-> NoValue, length |-> I!All, allowed |-> {}]
MapOf(p)      == [k |-> "map", of |-> p, linked |-> TRUE, default |-> NoValue, required |-> {}]
ListOf(p)     == [k |-> "list", of |-> p, linked |-> TRUE, default |-> NoValue, size |-> I!All]
ArrayOf(p, n) == [k |-> "array", of |-> p, linked |-> TRUE, default |-> NoValue, n |-> n]
Struct(fs)    == [k |-> "struct", fields |-> fs, default |-> NoValue]
Field(key, optional, p) == [key |-> key, optional |-> optional, of |-> p]

Fields(p)     == {p.fields[i] : i \in DOMAIN p.fields}
FieldKeys(p)  == {f.key : f \in Fields(p)}
FieldIndex(p, k) == CHOOSE i \in DOMAIN p.fields : p.fields[i].key = k
FieldAt(p, k) == p.fields[FieldIndex(p, k)]

\* Properties a container is described to hold.
IsContainer(p) == p.k \in {"map", "list", "array"}
Inner(p) == IF IsContainer(p) THEN {p.of} ELSE IF p.k = "struct" THEN {f.of : f \in Fields(p)} ELSE {}

\* A property and those in it.
Parts[p \in Props] == {p} \cup UNION {Parts[q] : q \in Inner(p)}

\* A property as it is made for a type, without a describer.
IsPlain[p \in Props] ==
    \/ p \in {IntProp, StrProp}
    \/ /\ IsContainer(p) /\ IsPlain[p.of]
       /\ p \in {MapOf(p.of), ListOf(p.of)} \/ (p.k = "array" /\ p = ArrayOf(p.of, p.n))

\* What a field is for a member described as p. field(name, member) makes what a
\* container holds and links it; field(name, member, next) is given next, and the
\* assign of the container links nothing.
AsField(p) ==
    IF IsContainer(p) THEN {[p EXCEPT !.linked = FALSE]} \cup {q \in {p} : IsPlain[p.of]} ELSE {p}

IsDivisible(p, n) == p.multiple_of = 0 \/ n % p.multiple_of = 0

-----------------------------------------------------------------------------
(***************************************************************************)
(* Values: of the type that a property is mapped to. A map and a struct    *)
(* have NoValue where they have nothing.                                   *)
(***************************************************************************)
\* The union of a sequence of sets; of infinite ones TLC tests for it one by one.
UnionOf(s) ==
    LET upto[i \in 0..Len(s)] == IF i = 0 THEN {} ELSE upto[i - 1] \cup s[i]
    IN  upto[Len(s)]

\* The values of a struct whose fields have one of the values Of[q] for their q.
StructsOf(p, Of) ==
    {v \in [FieldKeys(p) -> {NoValue} \cup UnionOf([i \in DOMAIN p.fields |-> Of[p.fields[i].of]])] :
        \A f \in Fields(p) : IF v[f.key] = NoValue THEN f.optional ELSE v[f.key] \in Of[f.of]}

Values[p \in Props] ==
    CASE p.k = "int"    -> I!Ints
      [] p.k = "str"    -> Strs
      [] p.k = "map"    -> [Keys -> {NoValue} \cup Values[p.of]]
      [] p.k = "list"   -> Seq(Values[p.of])
      [] p.k = "array"  -> [1..p.n -> Values[p.of]]
      [] p.k = "struct" -> StructsOf(p, Values)

\* A value just constructed.
Blank[p \in Props] ==
    CASE p.k = "int"    -> 0
      [] p.k = "str"    -> EmptyStr
      [] p.k = "map"    -> [k \in Keys |-> NoValue]
      [] p.k = "list"   -> <<>>
      [] p.k = "array"  -> [i \in 1..p.n |-> Blank[p.of]]
      [] p.k = "struct" -> [k \in FieldKeys(p) |->
                               IF FieldAt(p, k).optional THEN NoValue ELSE Blank[FieldAt(p, k).of]]

(***************************************************************************)
(* Prop::ok, for a property with d at its source                           *)
(***************************************************************************)
\* What has to be at the source of a property.
DocType(p) == CASE p.k \in {"int", "str"} -> p.k [] p.k \in {"map", "struct"} -> "map"
                [] p.k \in {"list", "array"} -> "list"

IntOk(p, n) == IsDivisible(p, n) /\ (p.with_clamp \/ I!Contains(p.interval, n))
StrOk(p, s) == (p.allowed # {} => s \in p.allowed) /\ I!Contains(p.length, LengthOf[s])
MapOk(p, d) == \A k \in p.required : d.at[k] # Gone

\* Whether p is ok with d at its source; ok is the walk over what is of its type.
OkWith(ok, p, d, isNeeded) ==
    IF d.t = DocType(p) THEN ok[p][d] ELSE ~isNeeded \/ p.default # NoValue

\* MonoListProp::needs says no, ArrayProp::needs yes to what is linked to it:
\* before a report of it, what an array holds has index 0 for a reference.
ListOk(ok, p, d) ==
    /\ I!Contains(p.size, Len(d.items))
    /\ \A i \in DOMAIN d.items : OkWith(ok, p.of, d.items[i], FALSE)

\* Mutant of ArrayOk: needs says no, as that of a MonoList does.
ArrayOkLoosely(ok, p, d) ==
    Len(d.items) = p.n /\ \A i \in DOMAIN d.items : OkWith(ok, p.of, d.items[i], FALSE)

ArrayOk(ok, p, d) ==
    Len(d.items) = p.n /\ \A i \in DOMAIN d.items : OkWith(ok, p.of, d.items[i], p.linked)

StructOk(ok, p, d) == \A f \in Fields(p) : OkWith(ok, f.of, d.at[f.key], ~f.optional)

OkHere(ok, p, d) ==
    /\ d.t = DocType(p)
    /\ CASE p.k = "int"    -> IntOk(p, d.value)
         [] p.k = "str"    -> StrOk(p, d.value)
         [] p.k = "map"    -> MapOk(p, d)
         [] p.k = "list"   -> ListOk(ok, p, d)
         [] p.k = "array"  -> ArrayOk(ok, p, d)
         [] p.k = "struct" -> StructOk(ok, p, d)

OkAt[p \in Props] == [d \in Docs |-> OkHere(OkAt, p, d)]

Ok(p, d, isNeeded) == OkWith(OkAt, p, d, isNeeded)

(***************************************************************************)
(* CodecProp::decodeFrom: whether it succeeds, and what is then in the     *)
(* variable it was given, which had just been constructed.                 *)
(***************************************************************************)
Decoded(ok, value) == [ok |-> ok, value |-> value]

\* Mutant of IntDecode: what may be clamped is let through as it is.
IntDecodeAsIs(p, n) == Decoded(IntOk(p, n), n)

IntDecode(p, n) ==
    IF ~IsDivisible(p, n) THEN Decoded(FALSE, n)
    ELSE IF I!Contains(p.interval, n) THEN Decoded(TRUE, n)
    ELSE IF p.with_clamp THEN Decoded(TRUE, I!Clamp(p.interval, n)) ELSE Decoded(FALSE, n)

StrDecode(p, s) == Decoded(I!Contains(p.length, LengthOf[s]), s)

\* The first element that fails is the last to be looked at; its value stays in
\* the map, and the map is a success.
MapDecode(decode, p, d) ==
    LET Got(k) == decode[p.of][d.at[k]]
        LookedAt(k) == \E i \in DOMAIN d.order :
                          d.order[i] = k /\ \A j \in 1..(i - 1) : Got(d.order[j]).ok
    IN  IF MapOk(p, d) THEN Decoded(TRUE, [k \in Keys |-> IF LookedAt(k) THEN Got(k).value ELSE NoValue])
        ELSE Decoded(FALSE, Blank[p])

\* Elements decoded one after the other, up to the first that fails.
ElementsDecode(decode, p, d) ==
    LET Got(i) == decode[p.of][d.items[i]]
        LookedAt(i) == \A j \in 1..(i - 1) : Got(j).ok
    IN  Decoded(\A i \in DOMAIN d.items : Got(i).ok,
                [i \in DOMAIN d.items |-> IF LookedAt(i) THEN Got(i).value ELSE Blank[p.of]])

\* Mutant of ListDecode: the size is not looked at.
ListDecodeAnySize(decode, p, d) == ElementsDecode(decode, p, d)

ListDecode(decode, p, d) ==
    IF I!Contains(p.size, Len(d.items)) THEN ElementsDecode(decode, p, d) ELSE Decoded(FALSE, <<>>)

ArrayDecode(decode, p, d) ==
    IF Len(d.items) = p.n THEN ElementsDecode(decode, p, d) ELSE Decoded(FALSE, Blank[p])

\* What the member of a field is before it is decoded.
Member(f) == IF f.optional THEN NoValue ELSE Blank[f.of]

\* Mutant of FieldDecode: a field that is missing is left to its own default.
FieldDecodeAnyway(decode, f, d) ==
    LET e == decode[f.of][Child(d, f.key)]
    IN  Decoded(e.ok, IF e.ok \/ ~f.optional THEN e.value ELSE Member(f))

\* FieldProp::decodeFrom_: the member of an optional field is set by a success
\* only, that of any other field is decoded in place.
FieldDecode(decode, f, d) ==
    LET e == decode[f.of][Child(d, f.key)]
    IN  IF Child(d, f.key) = Gone THEN Decoded(FALSE, Member(f))
        ELSE Decoded(e.ok, IF e.ok \/ ~f.optional THEN e.value ELSE Member(f))

\* Fields are decoded one after the other, up to the first that fails and is
\* required.
StructDecode(decode, p, d) ==
    LET Got(i) == FieldDecode(decode, p.fields[i], d)
        Passes(i) == Got(i).ok \/ p.fields[i].optional
        LookedAt(i) == \A j \in 1..(i - 1) : Passes(j)
        At(i) == IF LookedAt(i) THEN Got(i).value ELSE Member(p.fields[i])
    IN  Decoded(\A i \in DOMAIN p.fields : Passes(i), [k \in FieldKeys(p) |-> At(FieldIndex(p, k))])

\* CodecProp::decodeFrom_
DecodeRaw(decode, p, d) ==
    IF p.k = "struct" THEN StructDecode(decode, p, d)
    ELSE IF d.t # DocType(p) THEN Decoded(FALSE, Blank[p])
    ELSE CASE p.k = "int"   -> IntDecode(p, d.value)
           [] p.k = "str"   -> StrDecode(p, d.value)
           [] p.k = "map"   -> MapDecode(decode, p, d)
           [] p.k = "list"  -> ListDecode(decode, p, d)
           [] p.k = "array" -> ArrayDecode(decode, p, d)

\* CodecProp::decodeFrom: a default stands in for what fails.
DecodeHere(decode, p, d) ==
    LET raw == DecodeRaw(decode, p, d)
    IN  IF ~raw.ok /\ p.default # NoValue THEN Decoded(TRUE, p.default) ELSE raw

DecodeAt[p \in Props] == [d \in Docs |-> DecodeHere(DecodeAt, p, d)]

Decode(p, d) == DecodeAt[p][d]

(***************************************************************************)
(* CodecProp::encodeInto: what it leaves in an empty document, Gone if     *)
(* nothing was assigned there.                                             *)
(***************************************************************************)
\* A step to an element that is then assigned nothing leaves nothing there.
MapOfDocs(at) == Map_(OrderOf[{k \in Keys : at[k] # Gone}], at)

\* Mutant of ListOfDocs: the list is as long as it was stepped into.
ListOfDocsAll(at) == List_(at)

\* The list ends with the last element that was assigned something.
ListOfDocs(at) ==
    List_([i \in {i \in DOMAIN at : \E j \in DOMAIN at : i <= j /\ at[j] # Gone} |-> at[i]])

MapEncode(encode, p, v) ==
    IF \A k \in Keys : v[k] = NoValue THEN Gone
    ELSE MapOfDocs([k \in Keys |-> IF v[k] = NoValue THEN Gone ELSE encode[p.of][v[k]]])

\* Mutant of StructEncode: a field that is left out is encoded as a new value.
StructEncodeBlanks(encode, p, v) ==
    MapOfDocs([k \in Keys |->
        IF k \notin FieldKeys(p) THEN Gone
        ELSE encode[FieldAt(p, k).of][IF v[k] = NoValue THEN Blank[FieldAt(p, k).of] ELSE v[k]]])

\* The step to a field makes a map even for a field that is left out.
StructEncode(encode, p, v) ==
    MapOfDocs([k \in Keys |->
        IF k \notin FieldKeys(p) \/ v[k] = NoValue THEN Gone ELSE encode[FieldAt(p, k).of][v[k]]])

ElementsEncode(encode, p, v) ==
    IF v = <<>> THEN Gone ELSE ListOfDocs([i \in DOMAIN v |-> encode[p.of][v[i]]])

EncodeHere(encode, p, v) ==
    CASE p.k = "int"    -> Int_(v)
      [] p.k = "str"    -> Str_(v)
      [] p.k = "map"    -> MapEncode(encode, p, v)
      [] p.k \in {"list", "array"} -> ElementsEncode(encode, p, v)
      [] p.k = "struct" -> StructEncode(encode, p, v)

EncodeAt[p \in Props] == [v \in Values[p] |-> EncodeHere(EncodeAt, p, v)]

\* An empty document has the null entry where nothing was assigned.
Encode(p, v) == IF EncodeAt[p][v] = Gone THEN NilDoc ELSE EncodeAt[p][v]

-----------------------------------------------------------------------------
(***************************************************************************)
(* What the constants are: properties as describers make them, no two      *)
(* fields of a struct with one key.                                        *)
(***************************************************************************)
Unsaved == [unsaved |-> TRUE]

IsProp(p) ==
    \/ p.k = "int" /\ p.interval \in I!Intervals /\ p.multiple_of \in Nat /\ p.with_clamp \in BOOLEAN
    \/ p.k = "str" /\ p.length \in U!Intervals /\ p.allowed \subseteq Strs
    \/ p.k = "map" /\ p.linked \in BOOLEAN /\ p.required \subseteq Keys
    \/ p.k = "list" /\ p.linked \in BOOLEAN /\ p.size \in U!Intervals
    \/ p.k = "array" /\ p.linked \in BOOLEAN /\ p.n \in Nat
    \/ /\ p.k = "struct"
       /\ p.fields \in Seq([key: Keys, optional: BOOLEAN, of: Props]) /\ p.fields # <<>>
       /\ \A i, j \in DOMAIN p.fields : p.fields[i].key = p.fields[j].key => i = j

ASSUME PropsAssumption ==
    /\ {IntProp, StrProp} \subseteq Props
    /\ \A p \in Props :
          /\ IsProp(p)
          /\ Depth[p] \in 0..MaxDepth
          /\ \A q \in Inner(p) : q \in Props /\ Depth[q] < Depth[p]
          /\ p.default \in {NoValue} \cup Values[p]
ASSUME BoundsAssumption ==
    /\ MaxDepth \in Nat
    /\ \A p \in Props : Loads(p) \subseteq Docs /\ Saves(p) \subseteq Values[p]
ASSUME LimitsAssumption ==
    MinInt \in Int /\ MaxInt \in Int /\ MinInt <= 0 /\ 2 <= MaxInt
ASSUME StringsAssumption ==
    EmptyStr \in Strs /\ \A s \in Strs : LengthOf[s] \in U!Ints
ASSUME OrdersAssumption ==
    \A K \in SUBSET Keys : OrderOf[K] \in Seq(Keys) /\ Enumerates(OrderOf[K], K)
ASSUME MarkersAssumption ==
    /\ NoBound \notin I!Bounds
    /\ \A p \in Props : NoValue \notin Values[p]

-----------------------------------------------------------------------------
(***************************************************************************)
(* The program                                                             *)
(***************************************************************************)
Init ==
    /\ prop \in {IntProp, StrProp}
    /\ doc = NilDoc
    /\ saved = Unsaved

\* Bounds: the description is complete before there is a document, and it is
\* one of Props.
Describing == doc \in {NilDoc, EmptyMap} /\ saved = Unsaved
Describe(p) ==
    /\ p # prop /\ p \in Props
    /\ prop' = p
    /\ UNCHANGED <<doc, saved>>

DefaultValue(v) == Describe([prop EXCEPT !.default = v])
SetInterval(i)  == prop.k = "int" /\ Describe([prop EXCEPT !.interval = i])
MutipleOf(n)    == prop.k = "int" /\ n # 0 /\ Describe([prop EXCEPT !.multiple_of = n])
WithClamp       == prop.k = "int" /\ Describe([prop EXCEPT !.with_clamp = TRUE])
OneOf(S)        == prop.k = "str" /\ Describe([prop EXCEPT !.allowed = S])
Length(i)       == prop.k = "str" /\ Describe([prop EXCEPT !.length = i])
Containing(K)   == prop.k = "map" /\ Describe([prop EXCEPT !.required = K])
Size(i)         == prop.k = "list" /\ Describe([prop EXCEPT !.size = i])

\* is<Type::Map>().of(...), is<Type::List>().of(...), of<N>(...)
Of(p) ==
    /\ p \in Props
    /\ prop' = p
    /\ UNCHANGED <<doc, saved>>

\* What a step into a map leaves, whatever was there.
AsMap(d) == IF d.t = "map" THEN d ELSE EmptyMap

\* is<Type::Map>().to<V>() | field(...): assigning a field makes a map.
To(f) ==
    /\ Struct(<<f>>) \in Props
    /\ prop' = Struct(<<f>>)
    /\ doc' = AsMap(doc)
    /\ UNCHANGED saved

AddField(f) ==
    /\ prop.k = "struct"
    /\ [prop EXCEPT !.fields = Append(@, f)] \in Props
    /\ prop' = [prop EXCEPT !.fields = Append(@, f)]
    /\ doc' = AsMap(doc)
    /\ UNCHANGED saved

Load(d) ==
    /\ doc' = d
    /\ UNCHANGED <<prop, saved>>

\* The value is encoded into a document of its own, as reports do with defaults.
Save(v) ==
    /\ doc' = Encode(prop, v)
    /\ saved' = [value |-> v]
    /\ UNCHANGED prop

Next ==
    /\ Describing
    /\ \/ \E v \in Saves(prop) : DefaultValue(v)
       \/ \E i \in Ranges : SetInterval(i)
       \/ \E n \in Divisors : MutipleOf(n)
       \/ WithClamp
       \/ \E S \in SUBSET Strs : S # {} /\ OneOf(S)
       \/ \E i \in Sizes : Length(i) \/ Size(i)
       \/ \E K \in SUBSET Keys : Containing(K)
       \/ Of(MapOf(prop)) \/ Of(ListOf(prop)) \/ \E n \in Extents : Of(ArrayOf(prop, n))
       \/ \E optional \in BOOLEAN, p \in AsField(prop) : To(Field(KeyList[1], optional, p))
       \/ \E optional \in BOOLEAN :
             prop.k = "struct" /\ Len(prop.fields) < Len(KeyList) /\
             AddField(Field(KeyList[Len(prop.fields) + 1], optional, StrProp))
       \/ \E d \in Loads(prop) : Load(d)
       \/ \E v \in Saves(prop) : Save(v)

Spec == Init /\ [][Next]_vars

-----------------------------------------------------------------------------
(***************************************************************************)
(* Properties                                                              *)
(***************************************************************************)
Is(k)       == \E p \in Parts[prop] : p.k = k
HasDefault  == \E p \in Parts[prop] : p.default # NoValue
HasAllowed  == \E p \in Parts[prop] : p.k = "str" /\ p.allowed # {}
HasOptional == \E p \in Parts[prop] : p.k = "struct" /\ \E f \in Fields(p) : f.optional
AllLinked   == \A p \in Parts[prop] : p.k = "array" => p.linked
ClampsFreely ==
    \A p \in Parts[prop] : p.k = "int" /\ p.with_clamp =>
        p.multiple_of = 0 /\ \E n \in I!Ints : I!Contains(p.interval, n)

\* The values of a property that are as described.
Meeting[p \in Props] ==
    CASE p.k = "int"    -> {n \in I!Ints : IsDivisible(p, n) /\ I!Contains(p.interval, n)}
      [] p.k = "str"    -> {s \in Strs : StrOk(p, s)}
      [] p.k = "map"    -> {v \in [Keys -> {NoValue} \cup Meeting[p.of]] : \A k \in p.required : v[k] # NoValue}
      [] p.k = "list"   -> {v \in Seq(Meeting[p.of]) : I!Contains(p.size, Len(v))}
      [] p.k = "array"  -> [1..p.n -> Meeting[p.of]]
      [] p.k = "struct" -> StructsOf(p, Meeting)

\* The values of a property with no list, array or map in them that is empty.
Filled[p \in Props] ==
    CASE p.k = "int"    -> I!Ints
      [] p.k = "str"    -> Strs
      [] p.k = "map"    -> {v \in [Keys -> {NoValue} \cup Filled[p.of]] : \E k \in Keys : v[k] # NoValue}
      [] p.k = "list"   -> {v \in Seq(Filled[p.of]) : v # <<>>}
      [] p.k = "array"  -> {v \in [1..p.n -> Filled[p.of]] : v # <<>>}
      [] p.k = "struct" -> StructsOf(p, Filled)

TypeOK ==
    /\ prop \in Props
    /\ doc \in Docs
    /\ saved = Unsaved \/ saved \in [value : Values[prop]]

\* What get() yields without a default to fall back on passes ok(), where the
\* two look at the same restrictions: oneOf() and fields that may be missing
\* are the exceptions.
DecodedPassesOk ==
    ~HasDefault /\ ~HasAllowed /\ ~HasOptional /\ Decode(prop, doc).ok => Ok(prop, doc, TRUE)

\* What passes ok() can be had by get(), where ok() looks at all of it: the
\* elements of a MonoList may be of any type to it, those of an array described
\* by field(name, member, next) too, and a default stands in for a field that is
\* missing.
OkDecodes ==
    ~Is("list") /\ AllLinked /\ ~HasDefault /\ Ok(prop, doc, TRUE) => Decode(prop, doc).ok

\* What get() yields is as described, a clamped value included, where clamping
\* has somewhere to go and no MonoMap lets its elements through.
DecodedIsAsDescribed ==
    ~HasDefault /\ ~HasAllowed /\ ~Is("map") /\ ClampsFreely /\ Decode(prop, doc).ok =>
        Decode(prop, doc).value \in Meeting[prop]

\* What was saved into a document of its own is loaded from it again, and
\* passes ok(), as long as no list and no map in it is empty.
SavedIsLoaded ==
    saved # Unsaved /\ saved.value \in Meeting[prop] \cap Filled[prop] =>
        Decode(prop, doc) = Decoded(TRUE, saved.value) /\ Ok(prop, doc, TRUE)

\* Where nothing of its type is, get() yields the default of a property, and no
\* default of a field stands in for a part of it; for a struct that has a field
\* that must be there.
DefaultStandsIn ==
    LET MustHold == prop.k = "struct" => \E f \in Fields(prop) : ~f.optional
    IN  prop.default # NoValue /\ doc.t # DocType(prop) /\ MustHold =>
            Decode(prop, doc) = Decoded(TRUE, prop.default)

-----------------------------------------------------------------------------
(***************************************************************************)
(* What the documentation says, and is not so                              *)
(***************************************************************************)
\* "Check if the data at this node satisfies the constraints." (include/cray/
\* node.hpp:38); of an array that is a field, the elements that are of another
\* type pass if they were described.
FieldsAreChecked ==
    prop.k = "struct" /\ ~HasDefault /\ Ok(prop, doc, TRUE) =>
        \A f \in Fields(prop) : f.of.k = "array" /\ ~f.optional =>
            \A i \in 1..f.of.n : doc.at[f.key].items[i].t = DocType(f.of.of)

\* "Value is restricted to the given interval" (docs/describers.md:62); the
\* element a MonoMap stops at is left in what it yields.
GotElementsAreInInterval ==
    prop.k = "map" /\ prop.of.k = "int" /\ ~HasDefault /\ Decode(prop, doc).ok =>
        LET got == Decode(prop, doc).value
        IN  \A k \in Keys : got[k] # NoValue => prop.of.with_clamp \/ I!Contains(prop.of.interval, got[k])
=============================================================================
