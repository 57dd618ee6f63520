----------------------------- MODULE YamlSource -----------------------------
(***************************************************************************)
(* Documents loaded by the YAML loader (src/loaders/yaml.cpp): a source is *)
(* a YAML::Node, which stands for a node of a document that is shared.     *)
(*                                                                         *)
(* yaml-cpp is seen here as this code uses it. A node holds a pointer to   *)
(* its data; assigning a scalar replaces the data, assigning a Node makes  *)
(* the pointer that of the other one and leaves the source with the other  *)
(* node. A subscript makes a node that is undefined until it is assigned,  *)
(* and a sequence one of whose nodes is undefined cannot be indexed beyond *)
(* it: it turns into a map.                                                *)
(*                                                                         *)
(* The order of the keys and what a scalar is read as are left out.        *)
(***************************************************************************)
EXTENDS Integers, Sequences, FiniteSets

CONSTANTS
    Keys, MaxIndex,  \* the references steps are taken by
    Scalars,         \* the values of scalars
    Saves,           \* the values that are saved, and all that they are made of
    Depth,           \* how deep each of these values is
    Handles,         \* the std::shared_ptr<Source> variables of the program
    NoSource,        \* a handle that holds nullptr
    MaxNodes         \* bound: how many nodes are made

VARIABLES
    heap,            \* the data each node points to, and the data
    held,            \* the node in the source of each handle
    saving           \* the call that saves a value, while it is under way

vars == <<heap, held, saving>>

Indices == 0..MaxIndex
Refs    == Keys \cup Indices
Root    == 1

-----------------------------------------------------------------------------
(***************************************************************************)
(* yaml-cpp                                                                *)
(***************************************************************************)
Undefined == [t |-> "undefined"]
Null      == [t |-> "null"]
Scalar(v) == [t |-> "scalar", value |-> v]
List(s)   == [t |-> "list", of |-> s]
Map(f)    == [t |-> "map", of |-> f]
Empty(t)  == IF t = "map" THEN Map([k \in {} |-> Root]) ELSE List(<<>>)

ASSUME KeysAreNotIndices == MaxIndex \in Nat /\ Keys \cap Nat = {}
ASSUME NoSourceIsNoNode == NoSource \notin Nat
ASSUME SavesAreWhole ==
    \A v \in Saves : \/ \E x \in Scalars : v = Scalar(x)
                     \/ v = List(v.of) /\ v.of \in Seq(Saves)
                     \/ v = Map(v.of) /\ DOMAIN v.of \subseteq Keys /\ v.of \in [DOMAIN v.of -> Saves]

Data(h, n)      == h.data[h.ptr[n]]
IsDefined(h, n) == Data(h, n) # Undefined
Newest(h)       == Len(h.ptr)
New(h, d)       == [ptr |-> Append(h.ptr, Len(h.data) + 1), data |-> Append(h.data, d)]

\* Node::operator=(T const&)
AssignData(h, n, d) == [h EXCEPT !.data[h.ptr[n]] = d]

\* Node::operator=(Node const&), of a Node just made, which the source has then.
AssignNode(h, n, d) ==
    LET made == New(h, d) IN [made EXCEPT !.ptr[n] = made.ptr[Newest(made)]]

\* Node::size: undefined nodes end a sequence and do not count in a map.
Size(h, n) ==
    LET d == Data(h, n)
    IN  CASE d.t = "list" -> Cardinality({i \in DOMAIN d.of : \A j \in 1..i : IsDefined(h, d.of[j])})
          [] d.t = "map"  -> Cardinality({k \in DOMAIN d.of : IsDefined(h, d.of[k])})
          [] OTHER -> 0

\* Where a source is after a step, and in which heap.
Stepped(h, node, next) == [heap |-> h, node |-> node, next |-> next]

AtIndex(h, n, i) ==
    LET of   == Data(h, n).of
        made == New(h, Undefined)
    IN  IF i < Len(of) THEN Stepped(h, n, of[i + 1])
        ELSE Stepped(AssignData(made, n, List(Append(of, Newest(made)))), n, Newest(made))

AtKey(h, n, k) ==
    LET of   == Data(h, n).of
        made == New(h, Undefined)
    IN  IF k \in DOMAIN of THEN Stepped(h, n, of[k])
        ELSE Stepped(AssignData(made, n, Map([j \in DOMAIN of \cup {k} |->
                                                 IF j = k THEN Newest(made) ELSE of[j]])), n, Newest(made))

\* A sequence that turns into a map: indices are its keys.
ListAsMap(h, n) ==
    LET of == Data(h, n).of IN AssignData(h, n, Map([i \in 0..Len(of) - 1 |-> of[i + 1]]))

\* Node::operator[], of a map or a sequence
Subscript(h, n, r) ==
    LET d == Data(h, n)
    IN  IF d.t = "map" THEN AtKey(h, n, r)
        ELSE IF r = 0 \/ (r <= Len(d.of) /\ IsDefined(h, d.of[r])) THEN AtIndex(h, n, r)
        ELSE AtKey(ListAsMap(h, n), n, r)

-----------------------------------------------------------------------------
(***************************************************************************)
(* Sources                                                                 *)
(***************************************************************************)
TypeFor(r) == IF r \in Keys THEN "map" ELSE "list"

\* Mutant of Converted: the node the source had is left as it was.
ConvertedAside(h, n, t) ==
    IF Data(h, n).t = t THEN Stepped(h, n, n)
    ELSE LET made == New(h, Empty(t)) IN Stepped(made, Newest(made), n)

\* Mutant of Converted: also of what is such a container.
ConvertedAnyway(h, n, t) == LET made == AssignNode(h, n, Empty(t)) IN Stepped(made, Newest(made), n)

\* if(!this->node.IsMap()) this->node = YAML::Node(YAML::NodeType::Map);
Converted(h, n, t) ==
    IF Data(h, n).t = t THEN Stepped(h, n, n)
    ELSE LET made == AssignNode(h, n, Empty(t)) IN Stepped(made, Newest(made), n)

\* Mutant of Filled: a jump is left to yaml-cpp.
FilledNot(h, n, i) == h

\* Mutant of Filled: the same node is pushed every time.
FilledWithOne(h, n, i) ==
    LET made == New(h, Null)
        more == [j \in 1..(i - Size(h, n)) |-> Newest(made)]
    IN  IF Size(h, n) >= i THEN h ELSE AssignData(made, n, List(Data(h, n).of \o more))

\* for(; size < value; ++size) push_back(Null), size being what it was before:
\* so many new nodes of null at the end of the list.
Filled(h, n, i) ==
    LET new == 1..(i - Size(h, n))
    IN  IF Size(h, n) >= i THEN h
        ELSE AssignData([ptr  |-> h.ptr \o [j \in new |-> Len(h.data) + j],
                         data |-> h.data \o [j \in new |-> Null]],
                        n, List(Data(h, n).of \o [j \in new |-> Newest(h) + j]))

\* next(Reference const&)
Step(h, n, r) ==
    LET c == Converted(h, n, TypeFor(r))
        g == IF r \in Keys THEN c.heap ELSE Filled(c.heap, c.node, r)
    IN  Subscript(g, c.node, r)

\* find_: the node at r, or none
Find(h, n, r) ==
    LET d == Data(h, n)
    IN  IF d.t = "list" /\ r \notin Keys /\ r < Size(h, n) THEN {d.of[r + 1]}
        ELSE IF d.t = "map" /\ r \in Keys \cap DOMAIN d.of THEN {x \in {d.of[r]} : IsDefined(h, x)}
        ELSE {}

\* A loop of encodeInto over the elements of a value: the source it has is at
\* node, and may be that of a handle; the elements at left are still to come.
RefsOf(v) == IF v.t = "list" THEN 0..Len(v.of) - 1 ELSE IF v.t = "map" THEN DOMAIN v.of ELSE {}
At(v, r)  == IF v.t = "list" THEN v.of[r + 1] ELSE v.of[r]

ASSUME SavesAreFinite ==
    \A v \in Saves : Depth[v] \in Nat /\ \A r \in RefsOf(v) : Depth[At(v, r)] < Depth[v]

Loops(by, n, v, left) ==
    IF left = {} THEN <<>> ELSE <<[by |-> by, node |-> n, value |-> v, left |-> left]>>

\* A list is saved in order, a std::unordered_map in whichever order it has.
Comes(v, r, left) == r \in left /\ (v.t = "list" => \A q \in left : r <= q)

\* No value is being saved.
Idle == [at |-> Root, value |-> Null, loops |-> <<>>]

-----------------------------------------------------------------------------
(***************************************************************************)
(* The program                                                             *)
(***************************************************************************)
Loaded(data) == [ptr |-> [i \in DOMAIN data |-> i], data |-> data]

\* YAML::Load: nothing, a scalar, or a map or a list of one scalar.
Init ==
    /\ \/ \E d \in {Null} \cup {Scalar(v) : v \in Scalars} : heap = Loaded(<<d>>)
       \/ \E v \in Scalars, r \in Keys \cup {0} :
             heap = Loaded(<<IF r = 0 THEN List(<<2>>) ELSE Map([k \in {r} |-> 2]), Scalar(v)>>)
    /\ \E d \in Handles : held = [x \in Handles |-> IF x = d THEN Root ELSE NoSource]
    /\ saving = Idle

HasRoom == Newest(heap) <= MaxNodes

\* d = s->next(r)
Next_(s, r, d) ==
    /\ saving = Idle /\ held[s] # NoSource /\ HasRoom
    /\ LET to == Step(heap, held[s], r)
       IN  /\ heap' = to.heap
           /\ held' = [held EXCEPT ![s] = to.node, ![d] = to.next]
    /\ UNCHANGED saving

\* d = std::as_const(*s).next(r)
ConstNext(s, r, d) ==
    /\ saving = Idle /\ held[s] # NoSource
    /\ LET found == Find(heap, held[s], r)
       IN  held' = [held EXCEPT ![d] = IF found = {} THEN NoSource ELSE CHOOSE x \in found : TRUE]
    /\ UNCHANGED <<heap, saving>>

\* s->set(v)
Set(s, v) ==
    /\ saving = Idle /\ held[s] # NoSource
    /\ heap' = AssignData(heap, held[s], Scalar(v))
    /\ UNCHANGED <<held, saving>>

\* A property with s as its source begins to encode v; of a scalar, it sets it.
Save(s, v) ==
    /\ saving = Idle /\ held[s] # NoSource /\ HasRoom
    /\ RefsOf(v) # {}
    /\ saving' = [at |-> held[s], value |-> v, loops |-> Loops(s, held[s], v, RefsOf(v))]
    /\ UNCHANGED <<heap, held>>

\* The innermost loop comes to its next element: it takes the step there, and
\* sets the element or goes on with a loop over what is in it.
SaveElement ==
    /\ saving.loops # <<>>
    /\ LET loop == Head(saving.loops)
       IN  \E r \in loop.left :
              LET elem  == At(loop.value, r)
                  to    == Step(heap, loop.node, r)
                  loops == Loops(NoSource, to.next, elem, RefsOf(elem))
                             \o Loops(loop.by, to.node, loop.value, loop.left \ {r})
                             \o Tail(saving.loops)
              IN  /\ Comes(loop.value, r, loop.left)
                  /\ heap' = IF elem.t = "scalar" THEN AssignData(to.heap, to.next, elem) ELSE to.heap
                  /\ held' = IF loop.by = NoSource THEN held ELSE [held EXCEPT ![loop.by] = to.node]
                  /\ saving' = IF loops = <<>> THEN Idle ELSE [saving EXCEPT !.loops = loops]

Next ==
    \/ \E s, d \in Handles, r \in Refs : Next_(s, r, d) \/ ConstNext(s, r, d)
    \/ \E s \in Handles, v \in Scalars : Set(s, v)
    \/ \E s \in Handles, v \in Saves : Save(s, v)
    \/ SaveElement

Spec == Init /\ [][Next]_vars

-----------------------------------------------------------------------------
(***************************************************************************)
(* Properties                                                              *)
(***************************************************************************)
Within(d)  == IF d.t \in {"list", "map"} THEN d.of ELSE <<>>
NodesIn(d) == LET of == Within(d) IN {of[r] : r \in DOMAIN of}

\* The nodes of the document: the root, and those in a node of the document.
Document(h) ==
    LET Ids == 1..Newest(h)
        in[n \in Ids] == n = Root \/ \E m \in Ids : n \in NodesIn(Data(h, m)) /\ in[m]
    IN  {n \in Ids : in[n]}

\* The places where n is below the nodes in a document.
PlacesOf(h, n, in) ==
    {p \in UNION {{m} \X DOMAIN Within(Data(h, m)) : m \in in} : Within(Data(h, p[1]))[p[2]] = n}

\* No assignment, and no filling of a list, makes a part of a document show in
\* two places, or within itself: the places with the same data are one place.
TreeShape ==
    LET in == Document(heap)
    IN  /\ \A n, m \in in : heap.ptr[n] = heap.ptr[m] => n = m
        /\ PlacesOf(heap, Root, in) = {}
        /\ \A n \in in \ {Root} : \E p \in PlacesOf(heap, n, in) : PlacesOf(heap, n, in) = {p}

\* A step from a place of the document leads to a place of the document, whatever
\* is there: what the step converts is replaced in the document too.
StepsStayInTheDocument ==
    [][\A s, d \in Handles, r \in Refs :
          Next_(s, r, d) /\ held[s] \in Document(heap) => held'[d] \in Document(heap')]_vars

\* A list remains a list when an index is stepped to, however far past its end,
\* and what it holds remains where it is, as long as everything that was
\* stepped to in it was assigned ("yaml-cpp replaces seq into map if index jumps").
JumpsKeepLists ==
    [][\A s, d \in Handles, i \in Indices :
          /\ held[s] # NoSource /\ Data(heap, held[s]).t = "list"
          /\ Size(heap, held[s]) = Len(Data(heap, held[s]).of)
          /\ Next_(s, i, d)
          => LET was == Data(heap, held[s])
                 is  == Data(heap', held[s])
             IN  is.t = "list" /\ (\A j \in DOMAIN was.of : is.of[j] = was.of[j]) /\ is.of[i + 1] = held'[d]]_vars

\* No list and no map in the value v is empty.
IsFull(v) ==
    LET full[w \in Saves] ==
            w.t = "scalar" \/ (RefsOf(w) # {} /\ \A r \in RefsOf(w) : full[At(w, r)])
    IN  full[v]

\* What is at node n is the value v, and possibly more in containers.
Shows(h, n, v) ==
    LET nodes[w \in Saves] ==
            IF w.t = "scalar" THEN {m \in 1..Newest(h) : Data(h, m) = w}
            ELSE {m \in 1..Newest(h) : \A r \in RefsOf(w) : \E y \in Find(h, m, r) : y \in nodes[At(w, r)]}
    IN  n \in nodes[v]

\* A value that is saved is there, whatever was there before, and what was
\* stepped to, if no list and no map in the value is empty: the element of a list
\* that is empty is never assigned, and the next element turns the list into a map.
SavedIsThere ==
    [][saving # Idle /\ saving' = Idle /\ IsFull(saving.value)
       => Shows(heap', saving.at, saving.value)]_vars

=============================================================================
