----------------------------- MODULE NodeSchema -----------------------------
(***************************************************************************)
(* A program describes a document through Node objects and asks whether    *)
(* the document is as described (include/cray/node.hpp, detail/prop.hpp,   *)
(* detail/props/poly-map.hpp), over the in-memory document of EntryHeap.   *)
(*                                                                         *)
(* Describing builds a tree of properties. A property keeps a source into  *)
(* the document that its holder gave it: describing, validating and        *)
(* reporting all hand out sources, by different means, and describing      *)
(* below a place makes a map of that place. A call that validates or       *)
(* reports is a walk over the tree, one property a step; nothing else runs *)
(* until it has returned.                                                  *)
(*                                                                         *)
(* Scalars have a type; what else a describer restricts is left out, as    *)
(* are MonoMap, List and Structured properties.                            *)
(***************************************************************************)
EXTENDS EntryHeap, Sequences

CONSTANTS
    TypeOf,      \* the type of each value
    MaxProps,    \* bound: how many properties are created
    Nodes,       \* the Node variables of the program, besides the root Node
    NoSource     \* a property without a source

VARIABLES
    heap,        \* the document
    prop,        \* the properties
    made,        \* how many of them were created so far
    node,        \* the Node variables: a property and a reference below it
    call         \* the call of ok() or of a report that is under way

vars == <<heap, prop, made, node, call>>

Types   == {TypeOf[v] : v \in Values}
PropId  == 1..MaxProps
None    == 0           \* a null std::shared_ptr<Prop>
RootId  == 1           \* the RootProp
Below   == Keys \cup {RootRef}
Top     == 2           \* the entry the document was made of
NoNode  == [prev |-> None, ref |-> RootRef]

ASSUME PropsAssumption == MaxProps \in Nat /\ MaxProps >= 1
ASSUME TypesAssumption == TypeOf \in [Values -> Types] /\ "none" \notin Types
ASSUME NoSourceIsNoAccessor == NoSource \notin Accessors

\* A property; prev is the std::weak_ptr to its holder, order the order in
\* which an OrderedMap holds the keys of next, needs the required keys.
Property(kind, type, prev, ref, src) ==
    [kind |-> kind, type |-> type, prev |-> prev, ref |-> ref, src |-> src,
     next |-> [r \in Below |-> None], order |-> <<>>, needs |-> {}, default |-> FALSE]

Properties ==
    [kind: {"free", "root", "map", "leaf"}, type: Types \cup {"none"},
     prev: PropId \cup {None}, ref: Below, src: Accessors \cup {NoSource},
     next: [Below -> PropId \cup {None}], order: Seq(Keys), needs: SUBSET Below,
     default: BOOLEAN]

-----------------------------------------------------------------------------
(***************************************************************************)
(* Documents that may be loaded                                            *)
(***************************************************************************)
Blank(k) ==
    [kind |-> [e \in Id |-> CASE e = Root -> "root" [] e = Top -> k [] OTHER -> "free"],
     slot |-> [e \in Id |-> [r \in Refs |-> IF e = Root /\ r = RootRef THEN Top ELSE Absent]],
     val  |-> [e \in Id |-> Nil],
     used |-> Top]

InTop(k) == [prev |-> Top, ref |-> k]
WithMap(k) == Resolve(Blank("map"), InTop(k), "map")

InitDocument ==
    \/ heap = Blank("scalar")
    \/ heap = Blank("map")
    \/ \E k \in Keys, v \in Values : heap = Store(Blank("map"), InTop(k), v)
    \/ \E k \in Keys : heap = WithMap(k)
    \/ \E k, j \in Keys, v \in Values :
          HasRoom(WithMap(k), [prev |-> Top + 1, ref |-> j], "scalar") /\
          heap = Store(WithMap(k), [prev |-> Top + 1, ref |-> j], v)

-----------------------------------------------------------------------------
(***************************************************************************)
(* Sources handed out: the document that is left, and the source given.    *)
(***************************************************************************)

\* Mutants of Stepped: the holder's own source is given; the place below is
\* made a map as well.
SteppedOwn(h, a, k) == [heap |-> Resolve(h, a, "map"), src |-> a]
SteppedTooDeep(h, a, k) ==
    LET b == [prev |-> Resolved(h, a, "map"), ref |-> k]
    IN  [heap |-> Resolve(Resolve(h, a, "map"), b, "map"), src |-> b]

\* source->next(key): makes a map where there is none.
Stepped(h, a, k) ==
    [heap |-> Resolve(h, a, "map"), src |-> [prev |-> Resolved(h, a, "map"), ref |-> k]]

\* source.next(key) of a constant source: null where there is nothing.
ConstStepped(h, a, k) ==
    LET e == Curr(h, a)
    IN  [heap |-> h,
         src  |-> IF e # Null /\ Has(h, e, k) THEN [prev |-> e, ref |-> k] ELSE NoSource]

-----------------------------------------------------------------------------
(***************************************************************************)
(* Validating and reporting. "null" is where a call on a null source takes *)
(* the program, which goes no further.                                     *)
(***************************************************************************)
Answer(b) == IF b THEN "yes" ELSE "no"

\* Prop::isNeeded
IsNeeded(pr, p) == pr[p].ref \in pr[pr[p].prev].needs

LeafOk(h, pr, p) ==
    IF IsScalar(h, pr[p].src) /\ TypeOf[Load(h, pr[p].src)] = pr[p].type THEN TRUE
    ELSE ~IsNeeded(pr, p) \/ pr[p].default

\* Mutant of OkOf: the sources are handed out before it is known that there is
\* a map.
OkOfTooEarly(h, pr, p) ==
    IF pr[p].src = NoSource THEN "null"
    ELSE IF pr[p].kind = "leaf" THEN Answer(LeafOk(h, pr, p))
    ELSE "below"

\* ok() of a property, before it comes to those below.
OkOf(h, pr, p) ==
    IF pr[p].src = NoSource THEN "null"
    ELSE IF pr[p].kind = "leaf" THEN Answer(LeafOk(h, pr, p))
    ELSE IF ~Holds(h, pr[p].src, "map") THEN Answer(~IsNeeded(pr, p))
    ELSE "below"

\* The report of a property, before it comes to those below.
ReportOf(pr, p) ==
    IF pr[p].kind = "leaf" \/ pr[p].order = <<>> THEN "yes"
    ELSE IF pr[p].src = NoSource THEN "null"
    ELSE "below"

\* What is at p by itself.
Came(op, h, pr, p) == IF op = "ok" THEN OkOf(h, pr, p) ELSE ReportOf(pr, p)

\* A call under way: of the property it was called on; todo holds the loops that
\* are open, the innermost first, each with the keys it still has to come to.
Idle == [op |-> "idle", of |-> None, todo |-> <<>>, answer |-> "none"]

Children(pr, p) == [i \in 1..Len(pr[p].order) |-> [holder |-> p, key |-> pr[p].order[i]]]

\* Mutants of Went: a "no" does not end the loop; a key is not done with when
\* what is below it is.
WentOn(op, of, rest, pr, p, got) ==
    LET todo == IF got = "below" THEN Children(pr, p) \o rest
                ELSE IF got = "null" THEN <<>> ELSE rest
    IN  [op |-> op, of |-> of, todo |-> todo,
         answer |-> IF got = "null" THEN "null" ELSE IF todo # <<>> THEN "none"
                    ELSE IF got = "no" THEN "no" ELSE "yes"]
WentRound(op, of, rest, pr, p, got) ==
    LET todo == IF got = "below" THEN Children(pr, p) \o rest
                ELSE IF got = "yes" THEN rest \o Children(pr, pr[p].prev) ELSE <<>>
    IN  [op |-> op, of |-> of, todo |-> todo,
         answer |-> IF got \in {"no", "null"} THEN got ELSE IF todo = <<>> THEN "yes" ELSE "none"]

\* The call after it came to p, with the rest of its loops to go.
Went(op, of, rest, pr, p, got) ==
    LET todo == IF got = "below" THEN Children(pr, p) \o rest
                ELSE IF got = "yes" THEN rest ELSE <<>>
    IN  [op |-> op, of |-> of, todo |-> todo,
         answer |-> IF got \in {"no", "null"} THEN got ELSE IF todo = <<>> THEN "yes" ELSE "none"]

\* Node::curr_
CurrProp(n) == prop[n.prev].next[n.ref]

RootNode == [prev |-> RootId, ref |-> RootRef]
AllNodes == {RootNode} \cup ({node[m] : m \in Nodes} \ {NoNode})

Begin(op, n) ==
    /\ call = Idle
    /\ CurrProp(n) # None
    /\ LET c == CurrProp(n)
       IN  call' = Went(op, c, <<>>, prop, c, Came(op, heap, prop, c))
    /\ UNCHANGED <<heap, prop, made, node>>

\* n.ok(), where something is described
Ok(n) == Begin("ok", n)

\* report::asYaml(out, n) or report::asJsonSchema(out, n)
Report(n) == Begin("report", n)

\* The next key of the innermost loop: its property gets a source, from ok() by
\* a mutable step, from forEachProps by a constant one, and is come to.
Visit ==
    /\ call.todo # <<>>
    /\ LET p    == Head(call.todo).holder
           k    == Head(call.todo).key
           c    == prop[p].next[k]
           step == IF call.op = "ok" THEN Stepped(heap, prop[p].src, k)
                   ELSE ConstStepped(heap, prop[p].src, k)
       IN  /\ call.op = "ok" => HasRoom(heap, prop[p].src, "map")
           /\ heap' = step.heap
           /\ prop' = [prop EXCEPT ![c] = [@ EXCEPT !.src = step.src]]
           /\ call' = Went(call.op, call.of, Tail(call.todo), prop', c,
                           Came(call.op, heap', prop', c))
    /\ UNCHANGED <<made, node>>

Return ==
    /\ call.answer \in {"yes", "no"}
    /\ call' = Idle
    /\ UNCHANGED <<heap, prop, made, node>>

-----------------------------------------------------------------------------
(***************************************************************************)
(* Describing                                                              *)
(***************************************************************************)

\* Mutant of Holding: a key described again is put in order again.
HoldingAgain(me, r, c) ==
    IF me.kind = "root" THEN [me EXCEPT !.next = [@ EXCEPT ![r] = c], !.needs = {}]
    ELSE [me EXCEPT !.next = [@ EXCEPT ![r] = c], !.order = Append(@, r)]

\* A holder after Prop::assign of the property c.
Holding(me, r, c) ==
    IF me.kind = "root" THEN [me EXCEPT !.next = [@ EXCEPT ![r] = c], !.needs = {}]
    ELSE [me EXCEPT !.next = [@ EXCEPT ![r] = c],
                    !.order = IF me.next[r] = None THEN Append(@, r) ELSE @]

\* Node::resolve_: the property at n if it is of the kind wanted, else a new
\* one in its place, whatever was described there.
IsThere(n, kind, type) ==
    CurrProp(n) # None /\ prop[CurrProp(n)].kind = kind /\ prop[CurrProp(n)].type = type

ResolvedProp(n, kind, type) == IF IsThere(n, kind, type) THEN CurrProp(n) ELSE made + 1

\* Whether Prop::assign takes a step into the document.
Steps(n) == prop[n.prev].kind = "map" /\ prop[n.prev].src # NoSource

HeapAfter(n, kind, type) ==
    IF IsThere(n, kind, type) \/ ~Steps(n) THEN heap
    ELSE Stepped(heap, prop[n.prev].src, n.ref).heap

\* The new property has the source of the RootProp, or the step from its holder's.
PropsAfter(n, kind, type) ==
    LET c   == made + 1
        src == IF Steps(n) THEN Stepped(heap, prop[n.prev].src, n.ref).src ELSE prop[n.prev].src
    IN  IF IsThere(n, kind, type) THEN prop
        ELSE [prop EXCEPT ![c] = Property(kind, type, n.prev, n.ref, src),
                          ![n.prev] = Holding(@, n.ref, c)]

\* Whether the bounds leave room for it.
CanResolve(n, kind, type) ==
    \/ IsThere(n, kind, type)
    \/ made < MaxProps /\ (Steps(n) => HasRoom(heap, prop[n.prev].src, "map"))

Describe(n, kind, type) ==
    /\ call = Idle
    /\ CanResolve(n, kind, type)
    /\ heap' = HeapAfter(n, kind, type)
    /\ made' = IF IsThere(n, kind, type) THEN made ELSE made + 1
    /\ UNCHANGED call

\* m = n[key], or m = n[req(key)]
Index(n, k, req, m) ==
    LET c  == ResolvedProp(n, "map", "none")
        pr == PropsAfter(n, "map", "none")
    IN  /\ Describe(n, "map", "none")
        /\ prop' = IF req THEN [pr EXCEPT ![c].needs = @ \cup {k}] ELSE pr
        /\ node' = [node EXCEPT ![m] = [prev |-> c, ref |-> k]]

\* n.is<t>(), with or without .defaultValue(...)
Is(n, t, default) ==
    LET c  == ResolvedProp(n, "leaf", t)
        pr == PropsAfter(n, "leaf", t)
    IN  /\ Describe(n, "leaf", t)
        /\ prop' = IF default THEN [pr EXCEPT ![c].default = TRUE] ELSE pr
        /\ UNCHANGED node

\* n.is<t>() | get: the holder is told that it needs the value.
Get(n, t) ==
    LET pr == PropsAfter(n, "leaf", t)
    IN  /\ Describe(n, "leaf", t)
        /\ prop' = [pr EXCEPT ![n.prev].needs = @ \cup {n.ref}]
        /\ UNCHANGED node

Init ==
    /\ InitDocument
    /\ prop = [p \in PropId |-> IF p = RootId
                  THEN Property("root", "none", None, RootRef, RootAccessor)
                  ELSE Property("free", "none", None, RootRef, NoSource)]
    /\ made = RootId
    /\ node = [m \in Nodes |-> NoNode]
    /\ call = Idle

Next ==
    \/ \E n \in AllNodes, m \in Nodes, k \in Keys, req \in BOOLEAN : Index(n, k, req, m)
    \/ \E n \in AllNodes, t \in Types, default \in BOOLEAN : Is(n, t, default)
    \/ \E n \in AllNodes, t \in Types : Get(n, t)
    \/ \E n \in AllNodes : Ok(n) \/ Report(n)
    \/ Visit
    \/ Return

\* A call runs to its end on the only thread there is; the program need not make one.
Spec == Init /\ [][Next]_vars /\ WF_vars(Visit) /\ WF_vars(Return)

-----------------------------------------------------------------------------
(***************************************************************************)
(* Properties                                                              *)
(***************************************************************************)

\* What is described is in order once: no property is visited twice or missed.
InOrder(me) ==
    /\ \A k \in Keys : me.next[k] # None <=> \E i \in 1..Len(me.order) : me.order[i] = k
    /\ \A i, j \in 1..Len(me.order) : me.order[i] = me.order[j] => i = j

\* A property in the tree knows its holder, which is older.
HolderKnown(p, r) ==
    LET c == prop[p].next[r]
    IN  c # None => p < c /\ c <= made /\ prop[c].prev = p /\ prop[c].ref = r

Todo == Seq([holder: PropId, key: Keys])

TypeOK ==
    /\ heap \in Heaps
    /\ made \in PropId
    /\ prop \in [PropId -> Properties]
    /\ node \in [Nodes -> [prev: PropId \cup {None}, ref: Below]]
    /\ call \in [op: {"idle", "ok", "report"}, of: PropId \cup {None}, todo: Todo,
                 answer: {"none", "yes", "no", "null"}]
    /\ \A p \in PropId : prop[p].kind # "root" => InOrder(prop[p])
    /\ \A p \in PropId, r \in Below : HolderKnown(p, r)

\* Whoever handed it out - describing, ok() or a report - and whatever was
\* described in between, the source of a property stands for its key in the map
\* that its holder's source finds now; under the root, for the document.
SourcesInPlace ==
    \A p \in PropId, r \in Below :
        LET c == prop[p].next[r]
        IN  c # None /\ prop[c].src # NoSource =>
                IF p = RootId THEN prop[c].src = RootAccessor
                ELSE /\ prop[p].src # NoSource
                     /\ Holds(heap, prop[p].src, "map")
                     /\ prop[c].src = [prev |-> Curr(heap, prop[p].src), ref |-> r]

MakesMapsOnly ==
    /\ heap'.val = heap.val
    /\ \A e \in Id, r \in Refs :
          heap.kind[e] # "free" /\ heap'.slot[e][r] # heap.slot[e][r] =>
             /\ heap'.slot[e][r] \in Id /\ heap'.kind[heap'.slot[e][r]] = "map"
             /\ \E p \in PropId : prop[p].kind = "map" /\ prop[p].src = [prev |-> e, ref |-> r]

\* Describing neither makes up values nor loses any, but for a value at the very
\* place a map was described at: what is put into the document is a map, and
\* it is put where the source of a map property stands.
OnlyMapsAreMade == [][MakesMapsOnly]_vars

\* Neither validating nor reporting changes the document, though ok() takes the
\* kind of step that does.
ReadersOnlyRead == [][call.op # "idle" => UNCHANGED heap]_vars

\* What ok() is to say of p at the place a, by the document alone: a source that
\* was handed out earlier has no part in it. f answers for what is below.
Fits(h, pr, p, a) ==
    IF pr[p].kind = "leaf" THEN IsScalar(h, a) /\ TypeOf[Load(h, a)] = pr[p].type
    ELSE Holds(h, a, "map")
Asked(h, pr, p, a) ==
    {<<pr[p].next[k], [prev |-> Curr(h, a), ref |-> k]>> : k \in {q \in Keys : pr[p].next[q] # None}}
Said(h, pr, f, p, a) ==
    Answer(IF Fits(h, pr, p, a) THEN \A u \in Asked(h, pr, p, a) : f[u] = "yes"
           ELSE ~IsNeeded(pr, p) \/ pr[p].default)
Expected(h, pr) ==
    LET answer[u \in PropId \X Accessors] == Said(h, pr, answer, u[1], u[2]) IN answer

\* The walk of ok(), which stops early, hands sources down as it goes and
\* starts from a source that may be old, comes to what the description says.
OkIsExact ==
    call.op = "ok" /\ call.answer \in {"yes", "no"} =>
        call.answer = Expected(heap, prop)[<<call.of, prop[call.of].src>>]

\* A call comes to an answer, or to a null source.
CallsEnd == call.op # "idle" ~> call.op = "idle" \/ call.answer = "null"

\* include/cray/node.hpp:38: ok() will "Check if the data at this node satisfies
\* the constraints." At a node where something is described, it has an answer.
OkAnswers == call.op = "ok" => call.answer # "null"
=============================================================================
