-------------------------- MODULE NodeSchemaProofs --------------------------
(***************************************************************************)
(* NodeSchema for every set of keys, values and Node variables and any     *)
(* bounds: sources stay in place, only maps are put into the document,     *)
(* neither ok() nor a report writes into it, and ok() says what the        *)
(* description says of the document.                                       *)
(***************************************************************************)
EXTENDS NodeSchema, EntryHeapProofs

USE DEF RootRef, Root, RootId, None

\* Holders and properties know each other, and holders are older.
Linked(pr, mk) ==
    /\ \A p \in PropId : /\ pr[p].kind = "free" <=> p > mk
                         /\ pr[p].kind = "root" <=> p = RootId
    /\ \A p \in PropId, r \in Below : pr[p].next[r] # None =>
          LET c == pr[p].next[r]
          IN  /\ p < c /\ c <= mk /\ pr[c].prev = p /\ pr[c].ref = r
              /\ pr[p].kind = IF r = RootRef THEN "root" ELSE "map"
    /\ \A p \in PropId : p # RootId => InOrder(pr[p])

\* SourcesInPlace for one property.
InPlace(h, pr, p, r) ==
    LET c == pr[p].next[r]
    IN  c # None /\ pr[c].src # NoSource =>
            IF p = RootId THEN pr[c].src = RootAccessor
            ELSE /\ pr[p].src # NoSource
                 /\ Holds(h, pr[p].src, "map")
                 /\ pr[c].src = [prev |-> Curr(h, pr[p].src), ref |-> r]

\* Sources stand for places of the heap, and for the right ones.
Sourced(h, pr) ==
    /\ pr[RootId].src = RootAccessor
    /\ \A p \in PropId : pr[p].src # NoSource => IsPlace(h, pr[p].src)
    /\ \A p \in PropId, r \in Below : InPlace(h, pr, p, r)

HeapOK(h) == WellFormed(h) /\ \A e \in Id : h.kind[e] # "list"

PropsOK(h, pr, mk) ==
    /\ pr \in [PropId -> Properties]
    /\ mk \in PropId
    /\ Linked(pr, mk)
    /\ Sourced(h, pr)

\* A Node stands for a key of a map, or for what is under the RootProp.
NodeOK(pr, n) ==
    /\ n.prev \in PropId
    /\ \/ n.prev = RootId /\ n.ref = RootRef
       \/ pr[n.prev].kind = "map" /\ n.ref \in Keys

\* The loops that are open: the holders of the inner ones are younger, each has
\* a source, and during ok() a map is there.
TodoOK(h, pr, op, todo) ==
    /\ todo \in Todo
    /\ \A i \in 1..Len(todo) :
          LET p == todo[i].holder
          IN  /\ pr[p].kind = "map" /\ pr[p].src # NoSource /\ pr[p].next[todo[i].key] # None
              /\ op = "ok" => Holds(h, pr[p].src, "map")
    /\ \A i, j \in 1..Len(todo) : i <= j => todo[j].holder <= todo[i].holder

CallOK(h, pr, cl) ==
    /\ cl \in [op: {"idle", "ok", "report"}, of: PropId \cup {None}, todo: Todo,
               answer: {"none", "yes", "no", "null"}]
    /\ TodoOK(h, pr, cl.op, cl.todo)

IInv ==
    /\ HeapOK(heap)
    /\ PropsOK(heap, prop, made)
    /\ node \in [Nodes -> [prev: PropId \cup {None}, ref: Below]]
    /\ \A m \in Nodes : node[m] = NoNode \/ NodeOK(prop, node[m])
    /\ CallOK(heap, prop, call)

-----------------------------------------------------------------------------
(***************************************************************************)
(* The document                                                            *)
(***************************************************************************)

LEMMA KeyRefs == /\ RootRef \in Refs /\ RootRef \notin Keys /\ Keys \subseteq Refs
                 /\ Root \in Id /\ \A e \in Id : e \in Nat
  BY BoundsAssumption, KeysAreNotIndices DEF Refs, Indices, Id

\* Below a map, every key is a place.
LEMMA KeysArePlaces ==
    ASSUME NEW h, NEW e \in Id, NEW k \in Keys, h.kind[e] = "map", e <= h.used
    PROVE  IsPlace(h, [prev |-> e, ref |-> k])
  BY KeyRefs DEF IsPlace, Accessors, Takes, CanNext

\* The place of the document itself.
LEMMA RootIsPlace ==
    ASSUME NEW h, WellFormed(h)
    PROVE  IsPlace(h, RootAccessor)
<1>1. h.kind[Root] = "root" /\ ~(Root > h.used) /\ h.used \in Nat
  BY KeyRefs, BoundsAssumption DEF WellFormed, OnlyMadeEntries, Heaps
<1> QED BY <1>1, KeyRefs DEF IsPlace, RootAccessor, Accessors, Takes, CanNext

\* What a mutable step leaves: a map where it was taken, all else that was found
\* as a map, and no new value.
MapStep(h, a, g, e) ==
    /\ HeapOK(g)
    /\ e \in Id /\ e <= g.used /\ g.kind[e] = "map"
    /\ Curr(g, a) = e /\ Holds(g, a, "map")
    /\ \A b : IsPlace(h, b) => IsPlace(g, b)
    /\ \A b : IsPlace(h, b) /\ Holds(h, b, "map") =>
          Holds(g, b, "map") /\ Curr(g, b) = Curr(h, b)
    /\ g.val = h.val
    /\ \A f \in Id, r \in Refs : g.slot[f][r] # h.slot[f][r] =>
          f = a.prev /\ r = a.ref /\ g.slot[f][r] = e

LEMMA StepIsMapStep ==
    ASSUME NEW h, NEW a, HeapOK(h), IsPlace(h, a), HasRoom(h, a, "map")
    PROVE  MapStep(h, a, Resolve(h, a, "map"), Resolved(h, a, "map"))
<1>0. WellFormed(h) /\ "map" \in Makeable
  BY DEF HeapOK, Makeable
<1>1. CASE Holds(h, a, "map")
  <2>1. Resolve(h, a, "map") = h /\ Resolved(h, a, "map") = Curr(h, a)
    BY <1>1 DEF Resolve, Resolved
  <2>2. ResolveOK(h, a, "map")
    BY <1>0, ResolvePreserves
  <2> QED BY <1>1, <2>1, <2>2 DEF MapStep, ResolveOK
<1>2. CASE ~Holds(h, a, "map")
  <2> DEFINE g == Grown(h, a, "map")
             n == Fresh(h)
  <2>1. CanGrow(h, a, "map")
    BY <1>0, <1>2 DEF CanGrow, HasRoom
  <2>2. Resolve(h, a, "map") = g /\ Resolved(h, a, "map") = n
    BY <1>2 DEF Resolve, Resolved, Grown
  <2>3. WellFormed(g) /\ IsGrown(h, a, "map")
    BY <2>1, MakeAndAssign, MakeAndAssignWellFormed
  <2>4. n \in Id /\ g.used = n /\ g.val = h.val /\ g.kind = [h.kind EXCEPT ![n] = "map"]
    BY <2>3 DEF IsGrown
  <2>5. h.kind \in [Id -> Kinds]
    BY <1>0 DEF WellFormed, Heaps
  <2>6. /\ \A e \in Id : g.kind[e] = IF e = n THEN "map" ELSE h.kind[e]
        /\ HeapOK(g)
    BY <2>3, <2>4, <2>5 DEF HeapOK
  <2>7. a.prev \in Id /\ a.ref \in Refs /\ h.kind[a.prev] # "list" /\ IsPlace(g, a)
    BY <1>0, <2>1, Lookup, PlacesStay DEF HeapOK
  <2>8. \A f \in Id, r \in Refs :
           g.slot[f][r] = IF f = a.prev /\ r = a.ref THEN n ELSE h.slot[f][r]
    BY <2>3, <2>7 DEF IsGrown, SlotGrown
  <2>9. Curr(g, a) = n /\ Holds(g, a, "map")
    <3>1. Curr(g, a) = n
      BY <2>3, <2>4, <2>7, <2>8, Lookup, PointersAreDistinct
    <3>2. n # Null /\ g.kind[n] = "map"
      BY <2>4, <2>6, PointersAreDistinct
    <3> QED BY <3>1, <3>2 DEF Holds
  <2>10. ASSUME NEW b, IsPlace(h, b) PROVE IsPlace(g, b)
    BY <2>1, <2>10, PlacesStay
  <2>11. ASSUME NEW b, IsPlace(h, b), Holds(h, b, "map")
         PROVE  Holds(g, b, "map") /\ Curr(g, b) = Curr(h, b)
    <3>1. a # b
      BY <1>2, <2>11
    <3>2. Curr(g, b) = Curr(h, b) /\ Curr(h, b) # n
      BY <2>1, <2>11, <3>1, GrowthKeepsLookups
    <3>3. Curr(h, b) \in Id
      BY <1>0, <2>11, FoundIsMade DEF Holds
    <3> QED BY <2>6, <2>11, <3>2, <3>3 DEF Holds
  <2>12. n <= n
    BY <2>4, KeyRefs
  <2>13. g.kind[n] = "map"
    BY <2>4, <2>6
  <2> HIDE DEF g, n
  <2> QED BY <2>2, <2>4, <2>6, <2>8, <2>9, <2>10, <2>11, <2>12, <2>13 DEF MapStep
<1> QED BY <1>1, <1>2

-----------------------------------------------------------------------------
(***************************************************************************)
(* The properties                                                          *)
(***************************************************************************)

\* Who holds a property is no leaf, and a property that is held is a map or a leaf.
LEMMA Held ==
    ASSUME NEW h, NEW pr, NEW mk, PropsOK(h, pr, mk),
           NEW p \in PropId, NEW r \in Below, pr[p].next[r] # None
    PROVE  LET c == pr[p].next[r]
           IN  /\ c \in PropId /\ p \in Nat /\ c \in Nat /\ p < c /\ c <= mk
               /\ pr[c].prev = p /\ pr[c].ref = r /\ pr[c].kind \in {"map", "leaf"}
               /\ pr[p].kind = IF r = RootRef THEN "root" ELSE "map"
<1> DEFINE c == pr[p].next[r]
<1>1. c \in PropId \cup {None} /\ pr[c].kind \in {"free", "root", "map", "leaf"} /\ mk \in PropId
  <2>1. pr[p] \in Properties
    BY DEF PropsOK
  <2>2. c \in PropId
    BY <2>1 DEF Properties
  <2>3. pr[c] \in Properties
    BY <2>2 DEF PropsOK
  <2> QED BY <2>2, <2>3 DEF Properties, PropsOK
<1>2. c \in PropId
  BY <1>1
<1>3. p < c /\ c <= mk /\ pr[c].prev = p /\ pr[c].ref = r
      /\ pr[p].kind = IF r = RootRef THEN "root" ELSE "map"
  BY DEF PropsOK, Linked
<1>4. p \in Nat /\ c \in Nat /\ mk \in Nat /\ p >= 1
  BY <1>1, <1>2, PropsAssumption DEF PropId
<1>5. (pr[c].kind = "free" <=> c > mk) /\ (pr[c].kind = "root" <=> c = RootId)
  BY <1>2 DEF PropsOK, Linked
<1>6. ~(c > mk) /\ c # RootId
  BY <1>3, <1>4
<1> QED BY <1>1, <1>2, <1>3, <1>4, <1>5, <1>6

\* A property gets the source that its place in its holder's map gives it, or none.
GivenSource(h, pr, p, k, s) ==
    \/ s = NoSource /\ pr[p].src # NoSource /\ Holds(h, pr[p].src, "map")
       /\ ~Has(h, Curr(h, pr[p].src), k)
    \/ s = NoSource /\ pr[p].src # NoSource /\ ~Holds(h, pr[p].src, "map")
    \/ /\ pr[p].src # NoSource /\ Holds(h, pr[p].src, "map")
       /\ s = [prev |-> Curr(h, pr[p].src), ref |-> k]

LEMMA GivenSourceOK ==
    ASSUME NEW h, NEW pr, NEW mk, HeapOK(h), PropsOK(h, pr, mk),
           NEW p \in PropId, NEW k \in Keys, pr[p].next[k] # None,
           NEW s, GivenSource(h, pr, p, k, s)
    PROVE  LET c == pr[p].next[k]
           IN  PropsOK(h, [pr EXCEPT ![c] = [@ EXCEPT !.src = s]], mk)
<1> DEFINE c == pr[p].next[k]
           x == [pr[c] EXCEPT !.src = s]
           ps == [pr EXCEPT ![c] = x]
<1>1. k \in Below /\ k # RootRef /\ WellFormed(h)
  BY KeyRefs DEF Below, HeapOK
<1>2. /\ c \in PropId /\ c # p /\ c # RootId /\ pr[c].kind \in {"map", "leaf"}
      /\ pr[p].kind = "map" /\ p # RootId
  <2>1. /\ c \in PropId /\ p \in Nat /\ c \in Nat /\ p < c /\ pr[c].kind \in {"map", "leaf"}
        /\ pr[p].kind = "map"
    BY <1>1, Held
  <2>2. p # RootId /\ c # RootId
    BY <2>1 DEF PropsOK, Linked
  <2> QED BY <2>1, <2>2
<1>3. pr \in [PropId -> Properties] /\ pr[c] \in Properties /\ mk \in PropId /\ Linked(pr, mk)
  BY <1>2 DEF PropsOK
<1>4. pr[p].src # NoSource /\ IsPlace(h, pr[p].src) /\ pr[c].src \in Accessors \cup {NoSource}
  <2>1. pr[p].src # NoSource
    BY DEF GivenSource
  <2> QED BY <2>1, <1>3 DEF PropsOK, Sourced, Properties
<1>5. s # NoSource => IsPlace(h, s)
  <2> SUFFICES ASSUME s # NoSource PROVE IsPlace(h, s)
    OBVIOUS
  <2>1. Holds(h, pr[p].src, "map") /\ s = [prev |-> Curr(h, pr[p].src), ref |-> k]
    BY DEF GivenSource
  <2>2. Curr(h, pr[p].src) \in Id /\ h.kind[Curr(h, pr[p].src)] = "map"
    BY <1>1, <1>4, <2>1, FoundIsMade DEF Holds
  <2>3. Curr(h, pr[p].src) <= h.used
    <3>1. ~(Curr(h, pr[p].src) > h.used)
      BY <1>1, <2>2 DEF WellFormed, OnlyMadeEntries
    <3> QED BY <1>1, <2>2, <3>1, KeyRefs, BoundsAssumption DEF WellFormed, Heaps
  <2> QED BY <2>1, <2>2, <2>3, KeysArePlaces
<1>6. s \in Accessors \cup {NoSource}
  BY <1>5 DEF IsPlace
<1>7. /\ x \in Properties /\ x.src = s /\ x.kind = pr[c].kind /\ x.next = pr[c].next
      /\ x.prev = pr[c].prev /\ x.ref = pr[c].ref /\ x.order = pr[c].order
  BY <1>3, <1>6 DEF Properties
<1> HIDE DEF x
<1>8. ps \in [PropId -> Properties] /\ \A q \in PropId : ps[q] = IF q = c THEN x ELSE pr[q]
  BY <1>2, <1>3, <1>7
<1> HIDE DEF ps, c
<1>9. \A q \in PropId : /\ ps[q].kind = pr[q].kind /\ ps[q].next = pr[q].next
                        /\ ps[q].prev = pr[q].prev /\ ps[q].ref = pr[q].ref
                        /\ ps[q].order = pr[q].order
                        /\ q # c => ps[q].src = pr[q].src
  BY <1>7, <1>8
<1>10. Linked(ps, mk)
  <2>1. \A q \in PropId, r \in Below : pr[q].next[r] # None => pr[q].next[r] \in PropId
    <3> SUFFICES ASSUME NEW q \in PropId, NEW r \in Below PROVE pr[q].next[r] \in PropId \cup {None}
      OBVIOUS
    <3>1. pr[q] \in Properties
      BY <1>3
    <3> QED BY <3>1 DEF Properties
  <2>2. \A q \in PropId : q # RootId => InOrder(ps[q])
    BY <1>3, <1>9 DEF Linked, InOrder
  <2>3. ASSUME NEW q \in PropId, NEW r \in Below, ps[q].next[r] # None
        PROVE  LET d == ps[q].next[r]
               IN  /\ q < d /\ d <= mk /\ ps[d].prev = q /\ ps[d].ref = r
                   /\ ps[q].kind = IF r = RootRef THEN "root" ELSE "map"
    <3>1. ps[q].next[r] = pr[q].next[r] /\ pr[q].next[r] \in PropId
      BY <1>9, <2>1, <2>3
    <3> QED BY <1>3, <1>9, <2>3, <3>1 DEF Linked
  <2> QED BY <1>3, <1>9, <2>2, <2>3 DEF Linked
<1>11. ASSUME NEW q \in PropId, NEW r \in Below
       PROVE  InPlace(h, ps, q, r)
  <2> DEFINE d == pr[q].next[r]
  <2>1. CASE d = None
    BY <2>1, <1>9 DEF InPlace
  <2>2. CASE d # None /\ d = c
    <3>1. q = p /\ r = k
      BY <1>1, <2>2, Held DEF c
    <3> QED BY <3>1, <1>2, <1>4, <1>7, <1>8 DEF InPlace, GivenSource, c
  <2>3. CASE d # None /\ d # c /\ q # c
    <3>1. d \in PropId /\ ps[d].src = pr[d].src /\ ps[q].src = pr[q].src /\ ps[q].next[r] = d
      BY <2>3, <1>9, Held
    <3>2. InPlace(h, pr, q, r)
      BY DEF PropsOK, Sourced
    <3> QED BY <3>1, <3>2 DEF InPlace
  <2>4. CASE d # None /\ d # c /\ q = c
    <3>1. d \in PropId /\ ps[d].src = pr[d].src /\ ps[q].next[r] = d /\ q # RootId
      BY <2>4, <1>2, <1>9, Held
    <3>2. InPlace(h, pr, q, r) /\ InPlace(h, pr, p, k)
      BY <1>1 DEF PropsOK, Sourced
    <3> SUFFICES ASSUME pr[d].src # NoSource PROVE ps[c].src = pr[c].src
      BY <2>4, <3>1, <3>2 DEF InPlace
    <3>3. pr[c].src # NoSource /\ Holds(h, pr[c].src, "map")
      BY <2>4, <3>1, <3>2 DEF InPlace
    <3>4. Holds(h, pr[p].src, "map") /\ pr[c].src = [prev |-> Curr(h, pr[p].src), ref |-> k]
      BY <3>2, <3>3, <1>2 DEF InPlace, c
    <3>5. Has(h, Curr(h, pr[p].src), k)
      <4> DEFINE e == Curr(h, pr[p].src)
      <4>1. IsPlace(h, pr[c].src) /\ Curr(h, pr[c].src) # Null /\ h.kind[e] = "map"
        BY <3>3, <3>4, <1>2 DEF PropsOK, Sourced, Holds
      <4>2. Curr(h, pr[c].src) = IF h.slot[e][k] = Absent THEN Null ELSE h.slot[e][k]
        <5>1. pr[c].src.prev = e /\ pr[c].src.ref = k
          BY <3>4
        <5> QED BY <4>1, <5>1, <1>1, Lookup
      <4> QED BY <4>1, <4>2 DEF Has
    <3> QED BY <3>4, <3>5, <1>7, <1>8, <1>2 DEF GivenSource
  <2> QED BY <2>1, <2>2, <2>3, <2>4
<1>12. \A q \in PropId : ps[q].src # NoSource => IsPlace(h, ps[q].src)
  BY <1>5, <1>7, <1>8 DEF PropsOK, Sourced
<1>13. ps[RootId].src = RootAccessor
  BY <1>2, <1>9, PropsAssumption DEF PropsOK, Sourced, PropId
<1>14. PropsOK(h, ps, mk)
  BY <1>3, <1>8, <1>10, <1>11, <1>12, <1>13 DEF PropsOK, Sourced
<1> QED BY <1>14 DEF ps, x, c

-----------------------------------------------------------------------------
(***************************************************************************)
(* Calls                                                                   *)
(***************************************************************************)

\* Where a loop over the keys of c can be opened, and inside of which loops.
CanOpen(h, pr, op, c) ==
    pr[c].kind = "map" /\ pr[c].src # NoSource /\ (op = "ok" => Holds(h, pr[c].src, "map"))
Outer(rest, c) == \A i \in 1..Len(rest) : rest[i].holder <= c

LEMMA SeqOfFunction ==
    ASSUME NEW S, NEW n \in Nat, NEW f \in [1..n -> S]
    PROVE  f \in Seq(S) /\ Len(f) = n
  OBVIOUS

\* The loop over the keys of c is opened inside of loops over older holders' keys.
LEMMA Opened ==
    ASSUME NEW h, NEW pr, NEW mk, PropsOK(h, pr, mk), NEW op, NEW rest, TodoOK(h, pr, op, rest),
           NEW c \in PropId, CanOpen(h, pr, op, c), Outer(rest, c)
    PROVE  TodoOK(h, pr, op, Children(pr, c) \o rest)
<1> DEFINE s == Children(pr, c)
           t == s \o rest
           o == pr[c].order
<1>1. o \in Seq(Keys) /\ rest \in Todo
  BY DEF PropsOK, Properties, TodoOK
<1>2. s \in Todo /\ Len(s) = Len(o) /\ \A i \in 1..Len(s) : s[i] = [holder |-> c, key |-> o[i]]
  <2>1. \A i \in 1..Len(o) : o[i] \in Keys
    BY <1>1
  <2>2. s = [i \in 1..Len(o) |-> [holder |-> c, key |-> o[i]]]
    BY DEF Children
  <2>3. s \in [1..Len(o) -> [holder: PropId, key: Keys]] /\ Len(o) \in Nat
    BY <1>1, <2>1, <2>2
  <2> HIDE DEF s, o
  <2>4. s \in Seq([holder: PropId, key: Keys]) /\ Len(s) = Len(o)
    BY <2>3, SeqOfFunction
  <2> QED BY <2>2, <2>4 DEF Todo
<1>o. \A i \in 1..Len(o) : o[i] \in Keys
  BY <1>1
<1> HIDE DEF s, o
<1>3. /\ t \in Todo /\ Len(t) = Len(s) + Len(rest) /\ Len(s) \in Nat /\ Len(rest) \in Nat
      /\ \A i \in 1..Len(t) : t[i] = IF i <= Len(s) THEN s[i] ELSE rest[i - Len(s)]
  <2>1. s \in Seq([holder: PropId, key: Keys]) /\ rest \in Seq([holder: PropId, key: Keys])
    BY <1>1, <1>2 DEF Todo
  <2>2. t \in Seq([holder: PropId, key: Keys])
    BY <2>1
  <2>3. Len(t) = Len(s) + Len(rest) /\ Len(s) \in Nat /\ Len(rest) \in Nat
    BY <2>1
  <2>4. \A i \in 1..Len(t) : t[i] = IF i <= Len(s) THEN s[i] ELSE rest[i - Len(s)]
    BY <2>1, <2>3
  <2> QED BY <2>2, <2>3, <2>4 DEF Todo
<1> HIDE DEF t
<1>4. \A i \in 1..Len(s) : s[i].holder = c /\ pr[c].next[s[i].key] # None
  <2>1. c # RootId /\ RootId \in PropId
    BY PropsAssumption DEF PropsOK, Linked, PropId, CanOpen
  <2>2. InOrder(pr[c])
    BY <2>1 DEF PropsOK, Linked
  <2>3. \A i \in 1..Len(o) : pr[c].next[o[i]] # None
    BY <1>o, <2>2 DEF InOrder, o
  <2> SUFFICES ASSUME NEW i \in 1..Len(s) PROVE s[i].holder = c /\ pr[c].next[s[i].key] # None
    OBVIOUS
  <2>4. s[i] = [holder |-> c, key |-> o[i]] /\ i \in 1..Len(o)
    BY <1>2
  <2>5. s[i].holder = c /\ s[i].key = o[i]
    BY <2>4
  <2> QED BY <2>3, <2>4, <2>5
<1>5. ASSUME NEW i \in 1..Len(t)
      PROVE  LET p == t[i].holder
             IN  /\ pr[p].kind = "map" /\ pr[p].src # NoSource /\ pr[p].next[t[i].key] # None
                 /\ op = "ok" => Holds(h, pr[p].src, "map")
  <2>1. CASE i <= Len(s)
    BY <1>3, <1>4, <2>1 DEF CanOpen
  <2>2. CASE i > Len(s)
    <3>1. i - Len(s) \in 1..Len(rest) /\ t[i] = rest[i - Len(s)]
      BY <1>3, <2>2
    <3> QED BY <3>1 DEF TodoOK
  <2> QED BY <1>3, <2>1, <2>2
<1>6. ASSUME NEW i \in 1..Len(t), NEW j \in 1..Len(t), i <= j
      PROVE  t[j].holder <= t[i].holder
  <2>1. c <= c
    BY PropsAssumption DEF PropId
  <2>2. CASE j <= Len(s)
    BY <1>3, <1>4, <1>6, <2>1, <2>2
  <2>3. CASE j > Len(s) /\ i <= Len(s)
    <3>1. j - Len(s) \in 1..Len(rest) /\ t[j] = rest[j - Len(s)] /\ t[i].holder = c
      BY <1>3, <1>4, <2>3
    <3> QED BY <3>1 DEF Outer
  <2>4. CASE i > Len(s)
    <3>1. /\ j - Len(s) \in 1..Len(rest) /\ t[j] = rest[j - Len(s)]
          /\ i - Len(s) \in 1..Len(rest) /\ t[i] = rest[i - Len(s)]
          /\ i - Len(s) <= j - Len(s)
      BY <1>3, <1>6, <2>4
    <3> QED BY <3>1 DEF TodoOK
  <2> QED BY <1>3, <2>2, <2>3, <2>4
<1> QED BY <1>3, <1>5, <1>6 DEF TodoOK, t, s

Gots == {"yes", "no", "null", "below"}

\* A call that came to a property is well-formed again.
LEMMA WentOK ==
    ASSUME NEW h, NEW pr, NEW mk, PropsOK(h, pr, mk),
           NEW op \in {"ok", "report", "idle"}, NEW of \in PropId \cup {None},
           NEW rest, TodoOK(h, pr, op, rest),
           NEW c \in PropId, pr[c].kind \in {"map", "leaf"},
           Outer(rest, c)
    PROVE  CallOK(h, pr, Went(op, of, rest, pr, c, Came(op, h, pr, c)))
<1> DEFINE got == Came(op, h, pr, c)
           next == Went(op, of, rest, pr, c, got)
<1>1. got \in Gots /\ (got = "below" => CanOpen(h, pr, op, c))
  BY DEF Came, OkOf, ReportOf, Answer, Gots, CanOpen
<1>2. TodoOK(h, pr, op, <<>>)
  BY DEF TodoOK, Todo
<1>3. got = "below" => TodoOK(h, pr, op, Children(pr, c) \o rest)
  <2> SUFFICES ASSUME got = "below" PROVE TodoOK(h, pr, op, Children(pr, c) \o rest)
    OBVIOUS
  <2> HIDE DEF got
  <2> QED BY <1>1, Opened
<1> HIDE DEF got
<1>4. TodoOK(h, pr, op, next.todo) /\ next.op = op /\ next.of = of
  BY <1>2, <1>3 DEF Went
<1>5. next = [op |-> op, of |-> of, todo |-> next.todo, answer |-> next.answer]
      /\ next.answer \in {"none", "yes", "no", "null"}
  BY <1>1 DEF Went, Gots
<1> HIDE DEF next
<1>6. next.todo \in Todo
  BY <1>4 DEF TodoOK
<1>7. next \in [op: {"idle", "ok", "report"}, of: PropId \cup {None}, todo: Todo,
               answer: {"none", "yes", "no", "null"}]
  BY <1>4, <1>5, <1>6
<1>8. CallOK(h, pr, next)
  BY <1>4, <1>7 DEF CallOK
<1> QED BY <1>8 DEF next, got

LEMMA HeadTail ==
    ASSUME NEW S, NEW q \in Seq(S), q # <<>>
    PROVE  /\ Len(q) \in Nat /\ 1 \in 1..Len(q) /\ Head(q) = q[1] /\ q[1] \in S
           /\ Tail(q) \in Seq(S) /\ Len(Tail(q)) = Len(q) - 1
           /\ \A i \in 1..Len(Tail(q)) :
                 i + 1 \in 1..Len(q) /\ Tail(q)[i] = q[i + 1] /\ Tail(q)[i] \in S
  OBVIOUS

LEMMA ReferencesDiffer == Keys \subseteq Below /\ RootRef \in Below /\ RootRef \notin Keys
  BY KeyRefs DEF Below

\* The key that the innermost loop comes to next, its holder and property, and the
\* loops that are open then: the property is younger than all their holders.
LEMMA NextKey ==
    ASSUME IInv, call.todo # <<>>
    PROVE  LET p    == Head(call.todo).holder
               k    == Head(call.todo).key
               c    == prop[p].next[k]
               rest == Tail(call.todo)
           IN  /\ Len(call.todo) \in Nat /\ 1 \in 1..Len(call.todo) /\ Head(call.todo) = call.todo[1]
               /\ p \in PropId /\ k \in Keys /\ rest \in Todo /\ Len(rest) = Len(call.todo) - 1
               /\ \A i \in 1..Len(rest) : /\ i + 1 \in 1..Len(call.todo) /\ rest[i] = call.todo[i + 1]
                                          /\ rest[i].holder \in PropId /\ rest[i].key \in Keys
                                          /\ rest[i].holder <= p
               /\ prop[p].kind = "map" /\ prop[p].src # NoSource /\ c # None
               /\ call.op = "ok" => Holds(heap, prop[p].src, "map")
               /\ c \in PropId /\ p \in Nat /\ c \in Nat /\ p < c /\ prop[c].kind \in {"map", "leaf"}
<1> DEFINE p == Head(call.todo).holder
           k == Head(call.todo).key
           c == prop[p].next[k]
           rest == Tail(call.todo)
<1>1. /\ PropsOK(heap, prop, made) /\ TodoOK(heap, prop, call.op, call.todo)
      /\ call.todo \in Todo /\ call.todo # <<>>
  BY DEF IInv, CallOK
<1>2. /\ Len(call.todo) \in Nat /\ 1 \in 1..Len(call.todo) /\ Head(call.todo) = call.todo[1]
      /\ p \in PropId /\ k \in Keys /\ rest \in Todo /\ Len(rest) = Len(call.todo) - 1
      /\ \A i \in 1..Len(rest) : /\ i + 1 \in 1..Len(call.todo) /\ rest[i] = call.todo[i + 1]
                                 /\ rest[i] \in [holder: PropId, key: Keys]
  <2>1. call.todo \in Seq([holder: PropId, key: Keys])
    BY <1>1 DEF Todo
  <2>2. /\ Len(call.todo) \in Nat /\ 1 \in 1..Len(call.todo) /\ Head(call.todo) = call.todo[1]
        /\ call.todo[1] \in [holder: PropId, key: Keys]
        /\ rest \in Todo /\ Len(rest) = Len(call.todo) - 1
        /\ \A i \in 1..Len(rest) : /\ i + 1 \in 1..Len(call.todo) /\ rest[i] = call.todo[i + 1]
                                   /\ rest[i] \in [holder: PropId, key: Keys]
    BY <1>1, <2>1, HeadTail DEF Todo
  <2> QED BY <2>2
<1>3. /\ prop[p].kind = "map" /\ prop[p].src # NoSource /\ c # None
      /\ call.op = "ok" => Holds(heap, prop[p].src, "map")
  BY <1>1, <1>2 DEF TodoOK
<1>4. k \in Below
  BY <1>2, ReferencesDiffer
<1>5. /\ c \in PropId /\ p \in Nat /\ c \in Nat /\ p < c /\ prop[c].kind \in {"map", "leaf"}
  <2> HIDE DEF p, k
  <2>1. PropsOK(heap, prop, made) /\ p \in PropId /\ k \in Below /\ prop[p].next[k] # None
    BY <1>1, <1>2, <1>3, <1>4
  <2> QED BY <2>1, Held
<1>6. \A i \in 1..Len(rest) : rest[i].holder \in PropId /\ rest[i].holder <= p
  <2> SUFFICES ASSUME NEW i \in 1..Len(rest) PROVE rest[i].holder \in PropId /\ rest[i].holder <= p
    OBVIOUS
  <2>1. i + 1 \in 1..Len(call.todo) /\ rest[i] = call.todo[i + 1] /\ 1 <= i + 1
    BY <1>2
  <2>2. rest[i] \in [holder: PropId, key: Keys]
    BY <1>2
  <2> QED BY <1>1, <1>2, <2>1, <2>2 DEF TodoOK
<1>7. \A i \in 1..Len(rest) : /\ i + 1 \in 1..Len(call.todo) /\ rest[i] = call.todo[i + 1]
                             /\ rest[i].holder \in PropId /\ rest[i].key \in Keys
                             /\ rest[i].holder <= p
  <2> SUFFICES ASSUME NEW i \in 1..Len(rest)
               PROVE  /\ i + 1 \in 1..Len(call.todo) /\ rest[i] = call.todo[i + 1]
                      /\ rest[i].holder \in PropId /\ rest[i].key \in Keys
                      /\ rest[i].holder <= p
    OBVIOUS
  <2>1. rest[i] \in [holder: PropId, key: Keys]
    BY <1>2
  <2> QED BY <1>2, <1>6, <2>1
<1> QED BY <1>2, <1>3, <1>5, <1>7

\* The step of the innermost loop takes the document as it is, and the property
\* it comes to is younger than all holders.
LEMMA VisitOK ==
    ASSUME IInv, Visit
    PROVE  heap' = heap /\ PropsOK(heap, prop', made) /\ CallOK(heap, prop', call')
           /\ \A p \in PropId : prop'[p].kind = prop[p].kind
<1> DEFINE p == Head(call.todo).holder
           k == Head(call.todo).key
           c == prop[p].next[k]
           rest == Tail(call.todo)
           step == IF call.op = "ok" THEN Stepped(heap, prop[p].src, k)
                   ELSE ConstStepped(heap, prop[p].src, k)
<1>1. /\ HeapOK(heap) /\ PropsOK(heap, prop, made) /\ TodoOK(heap, prop, call.op, call.todo)
      /\ call.todo \in Todo /\ call.todo # <<>>
      /\ call.op \in {"idle", "ok", "report"} /\ call.of \in PropId \cup {None}
  BY DEF IInv, CallOK, Visit
<1>2. /\ heap' = step.heap
      /\ prop' = [prop EXCEPT ![c] = [@ EXCEPT !.src = step.src]]
      /\ call' = Went(call.op, call.of, rest, prop', c, Came(call.op, heap', prop', c))
  BY DEF Visit
<1>3. /\ Len(call.todo) \in Nat /\ 1 \in 1..Len(call.todo) /\ Head(call.todo) = call.todo[1]
      /\ p \in PropId /\ k \in Keys /\ rest \in Todo /\ Len(rest) = Len(call.todo) - 1
      /\ \A i \in 1..Len(rest) : i + 1 \in 1..Len(call.todo) /\ rest[i] = call.todo[i + 1]
  BY <1>1, NextKey
<1>4. /\ prop[p].kind = "map" /\ prop[p].src # NoSource /\ c # None
      /\ call.op = "ok" => Holds(heap, prop[p].src, "map")
  BY <1>1, NextKey
<1>5. /\ c \in PropId /\ p \in Nat /\ c \in Nat /\ p < c /\ prop[c].kind \in {"map", "leaf"}
  BY <1>1, NextKey
<1>6. \A i \in 1..Len(rest) : rest[i].holder \in PropId /\ rest[i].holder <= p
  BY <1>1, NextKey
<1>7. step.heap = heap /\ GivenSource(heap, prop, p, k, step.src)
  <2> HIDE DEF p, k
  <2>1. CASE call.op = "ok"
    BY <1>4, <2>1 DEF Stepped, Resolve, Resolved, GivenSource
  <2>2. CASE call.op # "ok"
    <3>1. CASE ~Holds(heap, prop[p].src, "map")
      <4>1. step = ConstStepped(heap, prop[p].src, k)
        BY <2>2
      <4>2. WellFormed(heap) /\ IsPlace(heap, prop[p].src)
        BY <1>1, <1>3, <1>4 DEF HeapOK, PropsOK, Sourced
      <4>3. Curr(heap, prop[p].src) = Null \/ ~Has(heap, Curr(heap, prop[p].src), k)
        <5> DEFINE e == Curr(heap, prop[p].src)
        <5>1. SUFFICES ASSUME e # Null PROVE ~Has(heap, e, k)
          OBVIOUS
        <5>2. /\ e \in Id /\ e = heap.slot[prop[p].src.prev][prop[p].src.ref]
              /\ prop[p].src.prev \in Id /\ prop[p].src.ref \in Refs
          BY <4>2, <5>1, Lookup, FoundIsMade
        <5>3. e > prop[p].src.prev /\ prop[p].src.prev \in Nat /\ e \in Nat /\ prop[p].src.prev >= 1
          BY <4>2, <5>2 DEF WellFormed, Acyclic, Id
        <5>4. heap.kind[e] # "root" /\ heap.kind[e] # "list" /\ heap.kind[e] # "map"
          <6>1. heap.kind[e] # "map"
            BY <3>1, <5>1 DEF Holds
          <6>2. e # Root
            BY <5>3
          <6> HIDE DEF e
          <6>3. heap.kind[e] # "root" /\ heap.kind[e] # "list"
            BY <1>1, <5>2, <6>2 DEF HeapOK, WellFormed, OnlyMadeEntries
          <6> QED BY <6>1, <6>3
        <5> QED BY <5>4 DEF Has
      <4> QED BY <1>4, <3>1, <4>1, <4>3 DEF ConstStepped, GivenSource
    <3>2. CASE Holds(heap, prop[p].src, "map")
      BY <1>4, <2>2, <3>2 DEF ConstStepped, GivenSource, Holds
    <3> QED BY <3>1, <3>2
  <2> QED BY <2>1, <2>2
<1> HIDE DEF p, k, step, rest
<1>8. heap' = heap /\ PropsOK(heap, prop', made)
  BY <1>1, <1>2, <1>3, <1>4, <1>7, GivenSourceOK
<1>9. /\ prop \in [PropId -> Properties]
       /\ \A q \in PropId : /\ prop'[q].kind = prop[q].kind /\ prop'[q].next = prop[q].next
                            /\ q # c => prop'[q].src = prop[q].src
  <2>1. prop \in [PropId -> Properties] /\ prop[c] \in Properties
    BY <1>1, <1>5 DEF PropsOK
  <2> QED BY <1>2, <1>5, <2>1 DEF Properties
<1> HIDE DEF c
<1>10. TodoOK(heap, prop', call.op, rest)
  <2>1. ASSUME NEW i \in 1..Len(rest)
        PROVE  LET q == rest[i].holder
               IN  /\ prop'[q].kind = "map" /\ prop'[q].src # NoSource
                   /\ prop'[q].next[rest[i].key] # None
                   /\ call.op = "ok" => Holds(heap, prop'[q].src, "map")
    <3>1. rest[i].holder \in PropId /\ rest[i].holder # c
      <4>1. rest[i].holder \in Nat
        BY <1>6, PropsAssumption DEF PropId
      <4> QED BY <1>5, <1>6, <4>1
    <3>2. i + 1 \in 1..Len(call.todo) /\ rest[i] = call.todo[i + 1]
      BY <1>3
    <3>3. LET q == rest[i].holder
          IN  /\ prop[q].kind = "map" /\ prop[q].src # NoSource /\ prop[q].next[rest[i].key] # None
              /\ call.op = "ok" => Holds(heap, prop[q].src, "map")
      BY <1>1, <3>2 DEF TodoOK
    <3> QED BY <1>9, <3>1, <3>3
  <2>2. ASSUME NEW i \in 1..Len(rest), NEW j \in 1..Len(rest), i <= j
        PROVE  rest[j].holder <= rest[i].holder
    <3>1. /\ i + 1 \in 1..Len(call.todo) /\ rest[i] = call.todo[i + 1]
          /\ j + 1 \in 1..Len(call.todo) /\ rest[j] = call.todo[j + 1] /\ i + 1 <= j + 1
      BY <1>3, <2>2
    <3> QED BY <1>1, <3>1 DEF TodoOK
  <2> QED BY <1>3, <2>1, <2>2 DEF TodoOK
<1>11. Outer(rest, c)
  <2> SUFFICES ASSUME NEW i \in 1..Len(rest) PROVE rest[i].holder <= c
    BY DEF Outer
  <2>1. rest[i].holder \in Nat /\ rest[i].holder <= p
    BY <1>6, PropsAssumption DEF PropId
  <2> QED BY <1>5, <2>1
<1>12. CallOK(heap, prop', call')
  <2>1. call.op \in {"ok", "report", "idle"} /\ prop'[c].kind \in {"map", "leaf"}
    BY <1>1, <1>5, <1>9
  <2>2. call' = Went(call.op, call.of, rest, prop', c, Came(call.op, heap, prop', c))
    BY <1>2, <1>8
  <2> QED BY <1>1, <1>5, <1>8, <1>10, <1>11, <2>1, <2>2, WentOK
<1> QED BY <1>8, <1>9, <1>12

-----------------------------------------------------------------------------
(***************************************************************************)
(* Describing                                                              *)
(***************************************************************************)

\* A holder keeps what it is, and its keys stay in order.
HolderAfter(me, r, c, m) ==
    /\ m \in Properties
    /\ m.kind = me.kind /\ m.prev = me.prev /\ m.ref = me.ref /\ m.src = me.src
    /\ \A q \in Below : m.next[q] = IF q = r THEN c ELSE me.next[q]
    /\ me.kind = "map" => InOrder(m)

LEMMA HoldingOK ==
    ASSUME NEW me \in Properties, NEW r \in Below, NEW c \in PropId,
           me.kind = "map" => r \in Keys /\ InOrder(me),
           me.kind \in {"root", "map"}
    PROVE  HolderAfter(me, r, c, Holding(me, r, c))
<1> DEFINE nx == [me.next EXCEPT ![r] = c]
<1>1. /\ me.next \in [Below -> PropId \cup {None}] /\ me.order \in Seq(Keys)
      /\ nx \in [Below -> PropId \cup {None}]
      /\ \A q \in Below : nx[q] = IF q = r THEN c ELSE me.next[q]
  BY DEF Properties
<1> HIDE DEF nx
<1>2. CASE me.kind = "root"
  <2>1. Holding(me, r, c) = [me EXCEPT !.next = nx, !.needs = {}]
    BY <1>2 DEF Holding, nx
  <2> QED BY <1>1, <1>2, <2>1 DEF HolderAfter, Properties
<1>3. CASE me.kind = "map"
  <2> DEFINE o == IF me.next[r] = None THEN Append(me.order, r) ELSE me.order
             m == [me EXCEPT !.next = nx, !.order = o]
  <2>1. Holding(me, r, c) = m
    BY <1>3 DEF Holding, nx
  <2>2. o \in Seq(Keys) /\ r \in Keys /\ InOrder(me)
    BY <1>1, <1>3
  <2>3. \A k \in Keys : nx[k] # None <=> \E i \in 1..Len(o) : o[i] = k
    <3> SUFFICES ASSUME NEW k \in Keys
                 PROVE  nx[k] # None <=> \E i \in 1..Len(o) : o[i] = k
      OBVIOUS
    <3>1. me.next[k] # None <=> \E i \in 1..Len(me.order) : me.order[i] = k
      BY <2>2 DEF InOrder
    <3>2. k \in Below /\ c # None
      BY ReferencesDiffer, PropsAssumption DEF PropId
    <3>3. CASE me.next[r] # None
      BY <1>1, <3>1, <3>2, <3>3
    <3>4. CASE me.next[r] = None
      <4>1. /\ o = Append(me.order, r) /\ Len(o) = Len(me.order) + 1 /\ Len(me.order) \in Nat
            /\ o[Len(me.order) + 1] = r
            /\ \A i \in 1..Len(me.order) : o[i] = me.order[i]
        BY <1>1, <2>2, <3>4
      <4> HIDE DEF o
      <4>2. CASE k = r
        BY <1>1, <3>2, <4>1, <4>2
      <4>3. CASE k # r
        <5>1. ASSUME NEW i \in 1..Len(o), o[i] = k
              PROVE  i \in 1..Len(me.order) /\ me.order[i] = k
          BY <4>1, <4>3, <5>1
        <5>2. ASSUME NEW i \in 1..Len(me.order), me.order[i] = k
              PROVE  i \in 1..Len(o) /\ o[i] = k
          BY <4>1, <5>2
        <5>3. nx[k] = me.next[k]
          BY <1>1, <3>2, <4>3
        <5> QED BY <3>1, <5>1, <5>2, <5>3
      <4> QED BY <4>2, <4>3
    <3> QED BY <3>3, <3>4
  <2>4. \A i, j \in 1..Len(o) : o[i] = o[j] => i = j
    <3> SUFFICES ASSUME NEW i \in 1..Len(o), NEW j \in 1..Len(o), o[i] = o[j] PROVE i = j
      OBVIOUS
    <3>1. CASE me.next[r] # None
      BY <2>2, <3>1 DEF InOrder
    <3>2. CASE me.next[r] = None
      <4>1. /\ o = Append(me.order, r) /\ Len(o) = Len(me.order) + 1 /\ Len(me.order) \in Nat
            /\ o[Len(me.order) + 1] = r
            /\ \A x \in 1..Len(me.order) : o[x] = me.order[x]
        BY <1>1, <2>2, <3>2
      <4>2. \A x \in 1..Len(me.order) : me.order[x] # r
        BY <2>2, <3>2 DEF InOrder
      <4> HIDE DEF o
      <4>3. CASE i = Len(me.order) + 1 \/ j = Len(me.order) + 1
        BY <4>1, <4>2, <4>3
      <4>4. CASE i \in 1..Len(me.order) /\ j \in 1..Len(me.order)
        BY <2>2, <4>1, <4>4 DEF InOrder
      <4> QED BY <4>1, <4>3, <4>4
    <3> QED BY <3>1, <3>2
  <2> HIDE DEF o
  <2>5. /\ m \in Properties /\ m.next = nx /\ m.order = o
        /\ m.kind = me.kind /\ m.prev = me.prev /\ m.ref = me.ref /\ m.src = me.src
    BY <1>1, <2>2 DEF Properties
  <2> HIDE DEF m
  <2>6. InOrder(m)
    BY <2>3, <2>4, <2>5 DEF InOrder
  <2> QED BY <1>1, <2>1, <2>5, <2>6 DEF HolderAfter
<1> QED BY <1>2, <1>3

\* A new property is what it is told to be, and nothing is described below it.
IsNew(x, kind, p, r, s) ==
    /\ x \in Properties /\ InOrder(x) /\ x.kind = kind /\ x.prev = p /\ x.ref = r
    /\ x.src = s /\ \A q \in Below : x.next[q] = None

LEMMA PropertyOK ==
    ASSUME NEW kind \in {"map", "leaf"}, NEW type \in Types \cup {"none"}, NEW p \in PropId,
           NEW r \in Below, NEW s \in Accessors \cup {NoSource}
    PROVE  IsNew(Property(kind, type, p, r, s), kind, p, r, s)
<1> DEFINE nx == [q \in Below |-> None]
           x == [kind |-> kind, type |-> type, prev |-> p, ref |-> r, src |-> s,
                 next |-> nx, order |-> <<>>, needs |-> {}, default |-> FALSE]
<1>1. nx \in [Below -> PropId \cup {None}] /\ \A q \in Below : nx[q] = None
  OBVIOUS
<1> HIDE DEF nx
<1>2. <<>> \in Seq(Keys) /\ Len(<<>>) = 0
  OBVIOUS
<1>3. x \in Properties
  BY <1>1, <1>2 DEF Properties
<1>4. InOrder(x)
  BY <1>1, <1>2, ReferencesDiffer DEF InOrder
<1>5. Property(kind, type, p, r, s) = x
  BY DEF Property, nx
<1> HIDE DEF x
<1>6. x.kind = kind /\ x.prev = p /\ x.ref = r /\ x.src = s /\ x.next = nx
  BY DEF x
<1> QED BY <1>1, <1>3, <1>4, <1>5, <1>6 DEF IsNew

\* Edits that leave the tree and the sources alone.
SameTree(pr, ps) ==
    /\ ps \in [PropId -> Properties]
    /\ \A p \in PropId :
          /\ ps[p].kind = pr[p].kind /\ ps[p].prev = pr[p].prev /\ ps[p].ref = pr[p].ref
          /\ ps[p].src = pr[p].src /\ ps[p].next = pr[p].next /\ ps[p].order = pr[p].order

LEMMA SameTreeOK ==
    ASSUME NEW h, NEW pr, NEW ps, NEW mk, PropsOK(h, pr, mk), SameTree(pr, ps)
    PROVE  PropsOK(h, ps, mk) /\ \A n : NodeOK(pr, n) => NodeOK(ps, n)
<1>1. /\ ps \in [PropId -> Properties] /\ mk \in PropId /\ Linked(pr, mk) /\ Sourced(h, pr)
      /\ RootId \in PropId
  BY PropsAssumption DEF PropsOK, SameTree, PropId
<1>2. \A p \in PropId, r \in Below : pr[p].next[r] # None => pr[p].next[r] \in PropId
  BY Held
<1>3. Linked(ps, mk)
  <2>1. \A p \in PropId : p # RootId => InOrder(ps[p])
    BY <1>1 DEF Linked, SameTree, InOrder
  <2>2. \A p \in PropId : /\ ps[p].kind = "free" <=> p > mk
                          /\ ps[p].kind = "root" <=> p = RootId
    BY <1>1 DEF Linked, SameTree
  <2>3. ASSUME NEW p \in PropId, NEW r \in Below, ps[p].next[r] # None
        PROVE  LET c == ps[p].next[r]
               IN  /\ p < c /\ c <= mk /\ ps[c].prev = p /\ ps[c].ref = r
                   /\ ps[p].kind = IF r = RootRef THEN "root" ELSE "map"
    <3>1. ps[p].next[r] = pr[p].next[r] /\ pr[p].next[r] \in PropId
      BY <1>2, <2>3 DEF SameTree
    <3> QED BY <1>1, <2>3, <3>1 DEF Linked, SameTree
  <2> QED BY <2>1, <2>2, <2>3 DEF Linked
<1>4. ASSUME NEW p \in PropId, NEW r \in Below
      PROVE  InPlace(h, ps, p, r)
  <2>1. InPlace(h, pr, p, r) /\ ps[p].next[r] = pr[p].next[r] /\ ps[p].src = pr[p].src
    BY <1>1 DEF Sourced, SameTree
  <2>2. pr[p].next[r] # None => ps[pr[p].next[r]].src = pr[pr[p].next[r]].src
    BY <1>2 DEF SameTree
  <2> QED BY <2>1, <2>2 DEF InPlace
<1>5. /\ \A p \in PropId : ps[p].src # NoSource => IsPlace(h, ps[p].src)
      /\ ps[RootId].src = RootAccessor
  BY <1>1 DEF Sourced, SameTree
<1>6. \A n : NodeOK(pr, n) => NodeOK(ps, n)
  BY DEF NodeOK, SameTree
<1> QED BY <1>1, <1>3, <1>4, <1>5, <1>6 DEF PropsOK, Sourced

\* The document that describing leaves, and where it differs: at the place of the
\* map that is described in.
DocumentAfter(h, pr, n, g) ==
    /\ HeapOK(g)
    /\ g.val = h.val
    /\ \A f \in Id, r \in Refs : g.slot[f][r] # h.slot[f][r] =>
          /\ pr[n.prev].kind = "map" /\ pr[n.prev].src = [prev |-> f, ref |-> r]
          /\ g.slot[f][r] \in Id /\ g.kind[g.slot[f][r]] = "map"
    /\ \A b : IsPlace(h, b) => IsPlace(g, b)
    /\ \A b : IsPlace(h, b) /\ Holds(h, b, "map") =>
          Holds(g, b, "map") /\ Curr(g, b) = Curr(h, b)

LEMMA DocumentOK ==
    ASSUME NEW n, NEW kind, NEW type, HeapOK(heap), PropsOK(heap, prop, made), NodeOK(prop, n),
           CanResolve(n, kind, type)
    PROVE  DocumentAfter(heap, prop, n, HeapAfter(n, kind, type))
<1> DEFINE a == prop[n.prev].src
           g == Resolve(heap, a, "map")
           e == Resolved(heap, a, "map")
<1>1. CASE IsThere(n, kind, type) \/ ~Steps(n)
  BY <1>1 DEF HeapAfter, DocumentAfter
<1>2. CASE ~IsThere(n, kind, type) /\ Steps(n)
  <2>1. HeapAfter(n, kind, type) = g
    BY <1>2 DEF HeapAfter, Stepped
  <2>2. IsPlace(heap, a) /\ HasRoom(heap, a, "map") /\ prop[n.prev].kind = "map"
    BY <1>2 DEF PropsOK, Sourced, NodeOK, Steps, CanResolve
  <2>3. MapStep(heap, a, g, e)
    BY <2>2, StepIsMapStep
  <2>4. a = [prev |-> a.prev, ref |-> a.ref]
    BY <2>2 DEF IsPlace, Accessors
  <2> HIDE DEF g, e, a
  <2>5. ASSUME NEW f \in Id, NEW r \in Refs, g.slot[f][r] # heap.slot[f][r]
        PROVE  /\ a = [prev |-> f, ref |-> r]
               /\ g.slot[f][r] \in Id /\ g.kind[g.slot[f][r]] = "map"
    <3>1. f = a.prev /\ r = a.ref /\ g.slot[f][r] = e /\ e \in Id /\ g.kind[e] = "map"
      BY <2>3, <2>5 DEF MapStep
    <3> QED BY <2>4, <3>1
  <2>6. DocumentAfter(heap, prop, n, g)
    BY <2>2, <2>3, <2>5 DEF DocumentAfter, MapStep, a
  <2> QED BY <2>1, <2>6
<1> QED BY <1>1, <1>2

\* The source of a new property: that of the RootProp, none, or the step from
\* its holder's, which makes a map.
NewSource(h, pr, n, s) ==
    IF n.prev = RootId THEN s = RootAccessor
    ELSE s # NoSource =>
         /\ pr[n.prev].src # NoSource /\ Holds(h, pr[n.prev].src, "map")
         /\ s = [prev |-> Curr(h, pr[n.prev].src), ref |-> n.ref]
         /\ IsPlace(h, s)

SourceAfter(n) ==
    IF Steps(n) THEN Stepped(heap, prop[n.prev].src, n.ref).src ELSE prop[n.prev].src

LEMMA NewSourceOK ==
    ASSUME NEW n, NEW kind, NEW type, HeapOK(heap), PropsOK(heap, prop, made), NodeOK(prop, n),
           CanResolve(n, kind, type), ~IsThere(n, kind, type)
    PROVE  NewSource(HeapAfter(n, kind, type), prop, n, SourceAfter(n))
<1> DEFINE a == prop[n.prev].src
           g == Resolve(heap, a, "map")
           e == Resolved(heap, a, "map")
<1>1. CASE n.prev = RootId
  <2>1. prop[RootId].kind = "root" /\ prop[RootId].src = RootAccessor
    BY PropsAssumption DEF PropsOK, Linked, Sourced, PropId
  <2> QED BY <1>1, <2>1 DEF NewSource, SourceAfter, Steps
<1>2. CASE n.prev # RootId /\ ~Steps(n)
  BY <1>2 DEF NewSource, SourceAfter, Steps, NodeOK
<1>3. CASE n.prev # RootId /\ Steps(n)
  <2>1. /\ HeapAfter(n, kind, type) = g
        /\ SourceAfter(n) = [prev |-> e, ref |-> n.ref]
    BY <1>3 DEF HeapAfter, Stepped, SourceAfter
  <2>2. IsPlace(heap, a) /\ HasRoom(heap, a, "map") /\ n.ref \in Keys /\ a # NoSource
    BY <1>3 DEF PropsOK, Sourced, NodeOK, Steps, CanResolve
  <2>3. MapStep(heap, a, g, e)
    BY <2>2, StepIsMapStep
  <2>4. IsPlace(g, [prev |-> e, ref |-> n.ref])
    BY <2>2, <2>3, KeysArePlaces DEF MapStep
  <2> QED BY <1>3, <2>1, <2>2, <2>3, <2>4 DEF NewSource, MapStep
<1> QED BY <1>1, <1>2, <1>3

\* The tree after a property was put in it; all others are what they were, but for
\* what the holder holds.
Added(pr, mk, n, kind, s, ps) ==
    LET c == mk + 1
    IN  /\ ps \in [PropId -> Properties] /\ c \in PropId
        /\ n.prev \in PropId /\ n.ref \in Below /\ n.prev # c /\ n.prev < c
        /\ ps[c].kind = kind /\ ps[c].prev = n.prev /\ ps[c].ref = n.ref /\ ps[c].src = s
        /\ InOrder(ps[c]) /\ \A q \in Below : ps[c].next[q] = None
        /\ HolderAfter(pr[n.prev], n.ref, c, ps[n.prev])
        /\ \A p \in PropId : p # c /\ p # n.prev => ps[p] = pr[p]

LEMMA AddedOK ==
    ASSUME NEW n, NEW kind \in {"map", "leaf"}, NEW type \in Types \cup {"none"},
           HeapOK(heap), PropsOK(heap, prop, made), NodeOK(prop, n),
           CanResolve(n, kind, type), ~IsThere(n, kind, type)
    PROVE  Added(prop, made, n, kind, SourceAfter(n), PropsAfter(n, kind, type))
<1> DEFINE c == made + 1
           s == SourceAfter(n)
           x == Property(kind, type, n.prev, n.ref, s)
           m == Holding(prop[n.prev], n.ref, c)
<1>1. /\ made \in Nat /\ c \in PropId /\ n.prev \in PropId /\ n.prev \in Nat
      /\ prop \in [PropId -> Properties]
  BY PropsAssumption DEF PropsOK, CanResolve, NodeOK, PropId
<1>2. n.ref \in Below /\ prop[n.prev].kind \in {"root", "map"}
      /\ (prop[n.prev].kind = "map" => n.ref \in Keys /\ InOrder(prop[n.prev]))
  BY <1>1, ReferencesDiffer DEF NodeOK, PropsOK, Linked
<1>3. n.prev # c /\ n.prev < c
  <2>1. ~(n.prev > made)
    BY <1>1, <1>2 DEF PropsOK, Linked
  <2> QED BY <1>1, <2>1
<1>4. s \in Accessors \cup {NoSource}
  <2>1. NewSource(HeapAfter(n, kind, type), prop, n, s)
    BY NewSourceOK
  <2>2. RootAccessor \in Accessors
    BY KeyRefs DEF RootAccessor, Accessors
  <2> QED BY <2>1, <2>2 DEF NewSource, IsPlace
<1> HIDE DEF s
<1>5. IsNew(x, kind, n.prev, n.ref, s)
  BY <1>1, <1>2, <1>4, PropertyOK
<1>6. prop[n.prev] \in Properties
  BY <1>1
<1>7. HolderAfter(prop[n.prev], n.ref, c, m)
  BY <1>1, <1>2, <1>6, HoldingOK
<1>8. PropsAfter(n, kind, type) = [prop EXCEPT ![c] = x, ![n.prev] = m]
  <2>1. [prop EXCEPT ![c] = x, ![n.prev] = Holding(@, n.ref, c)]
           = [prop EXCEPT ![c] = x, ![n.prev] = m]
    BY <1>1, <1>3
  <2> QED BY <2>1 DEF PropsAfter, SourceAfter, s
<1> HIDE DEF x, m
<1>9. m \in Properties
  BY <1>7 DEF HolderAfter
<1> HIDE DEF c
<1>10. LET ps == [prop EXCEPT ![c] = x, ![n.prev] = m]
       IN  /\ ps \in [PropId -> Properties] /\ ps[c] = x /\ ps[n.prev] = m
           /\ \A p \in PropId : p # c /\ p # n.prev => ps[p] = prop[p]
  BY <1>1, <1>3, <1>5, <1>9 DEF IsNew
<1> QED BY <1>1, <1>2, <1>3, <1>5, <1>7, <1>8, <1>10 DEF Added, IsNew, c, s

\* The tree stays one, with every source in its place.
LEMMA TreeOK ==
    ASSUME NEW h, NEW pr, NEW mk, PropsOK(h, pr, mk), NEW n, NodeOK(pr, n),
           NEW g, DocumentAfter(h, pr, n, g), NEW kind \in {"map", "leaf"},
           NEW s, NewSource(g, pr, n, s), NEW ps, Added(pr, mk, n, kind, s, ps)
    PROVE  PropsOK(g, ps, mk + 1) /\ \A o : NodeOK(pr, o) => NodeOK(ps, o)
<1> DEFINE c == mk + 1
<1>1. /\ ps \in [PropId -> Properties] /\ c \in PropId
      /\ n.prev \in PropId /\ n.ref \in Below /\ n.prev # c /\ n.prev < c
      /\ ps[c].kind = kind /\ ps[c].prev = n.prev /\ ps[c].ref = n.ref /\ ps[c].src = s
      /\ InOrder(ps[c]) /\ \A q \in Below : ps[c].next[q] = None
      /\ HolderAfter(pr[n.prev], n.ref, c, ps[n.prev])
      /\ \A p \in PropId : p # c /\ p # n.prev => ps[p] = pr[p]
  BY DEF Added
<1>2. mk \in Nat /\ mk \in PropId /\ c \in Nat /\ c = mk + 1 /\ c > 1 /\ Linked(pr, mk)
      /\ \A p \in PropId : p \in Nat
  BY PropsAssumption DEF PropsOK, PropId
<1> HIDE DEF c
<1>3. \A p \in PropId : p # c =>
         ps[p].kind = pr[p].kind /\ ps[p].prev = pr[p].prev /\ ps[p].ref = pr[p].ref
         /\ ps[p].src = pr[p].src
  BY <1>1 DEF HolderAfter
<1>4. \A p \in PropId, r \in Below : p # c =>
         ps[p].next[r] = IF p = n.prev /\ r = n.ref THEN c ELSE pr[p].next[r]
  BY <1>1 DEF HolderAfter
<1>5. pr[c].kind = "free" /\ \A p \in PropId, r \in Below : pr[p].next[r] # None =>
         pr[p].next[r] \in PropId /\ pr[p].next[r] # c /\ p # c
  <2>1. pr[c].kind = "free"
    BY <1>1, <1>2 DEF Linked
  <2>2. ASSUME NEW p \in PropId, NEW r \in Below, pr[p].next[r] # None
        PROVE  pr[p].next[r] \in PropId /\ pr[p].next[r] # c /\ p # c
    <3>1. /\ pr[p].next[r] \in PropId /\ pr[pr[p].next[r]].kind \in {"map", "leaf"}
          /\ pr[p].kind = IF r = RootRef THEN "root" ELSE "map"
      BY <2>2, Held
    <3> QED BY <2>1, <3>1
  <2> QED BY <2>1, <2>2
<1>6. Linked(ps, c)
  <2>1. ASSUME NEW p \in PropId
        PROVE  (ps[p].kind = "free" <=> p > c) /\ (ps[p].kind = "root" <=> p = RootId)
    <3>1. CASE p = c
      BY <1>1, <1>2, <3>1
    <3>2. CASE p # c
      <4>1. p > c <=> p > mk
        BY <1>2, <3>2
      <4> QED BY <1>2, <1>3, <3>2, <4>1 DEF Linked
    <3> QED BY <3>1, <3>2
  <2>2. ASSUME NEW p \in PropId, p # RootId
        PROVE  InOrder(ps[p])
    <3>1. CASE p = n.prev
      BY <1>1, <2>2, <3>1 DEF HolderAfter, NodeOK
    <3>2. CASE p # n.prev
      BY <1>1, <1>2, <2>2, <3>2 DEF Linked
    <3> QED BY <3>1, <3>2
  <2>3. ASSUME NEW p \in PropId, NEW r \in Below, ps[p].next[r] # None
        PROVE  LET d == ps[p].next[r]
               IN  /\ p < d /\ d <= c /\ ps[d].prev = p /\ ps[d].ref = r
                   /\ ps[p].kind = IF r = RootRef THEN "root" ELSE "map"
    <3>1. p # c
      BY <1>1, <2>3
    <3>2. CASE p = n.prev /\ r = n.ref
      <4>1. ps[p].next[r] = c
        BY <1>4, <3>1, <3>2
      <4>2. pr[p].kind = IF r = RootRef THEN "root" ELSE "map"
        BY <1>2, <3>2, ReferencesDiffer DEF NodeOK, Linked
      <4>3. c <= c
        BY <1>2
      <4> QED BY <1>1, <1>3, <3>1, <3>2, <4>1, <4>2, <4>3
    <3>3. CASE ~(p = n.prev /\ r = n.ref)
      <4>1. ps[p].next[r] = pr[p].next[r]
        BY <1>4, <3>1, <3>3
      <4>2. pr[p].next[r] \in PropId /\ pr[p].next[r] # c
        BY <1>5, <2>3, <4>1
      <4>3. LET d == pr[p].next[r]
            IN  /\ p < d /\ d <= mk /\ pr[d].prev = p /\ pr[d].ref = r
                /\ pr[p].kind = IF r = RootRef THEN "root" ELSE "map"
        BY <1>2, <2>3, <4>1 DEF Linked
      <4>4. pr[p].next[r] <= c
        <5>1. pr[p].next[r] \in Nat /\ pr[p].next[r] <= mk
          BY <1>2, <4>2, <4>3
        <5> QED BY <1>2, <5>1
      <4> QED BY <1>3, <3>1, <4>1, <4>2, <4>3, <4>4
    <3> QED BY <3>2, <3>3
  <2> QED BY <2>1, <2>2, <2>3 DEF Linked
<1>7. RootId \in PropId /\ RootId # c /\ pr[RootId].src = RootAccessor /\ RootId # None
  BY <1>2, PropsAssumption DEF PropsOK, Sourced, PropId
<1>8. \A p \in PropId : p # c /\ ps[p].src # NoSource => IsPlace(h, ps[p].src)
  BY <1>3 DEF PropsOK, Sourced
<1>9. ASSUME NEW p \in PropId, NEW r \in Below
      PROVE  InPlace(g, ps, p, r)
  <2>1. CASE ps[p].next[r] = None
    BY <2>1 DEF InPlace
  <2>2. CASE ps[p].next[r] # None /\ p = n.prev /\ r = n.ref
    <3>1. ps[p].next[r] = c /\ ps[c].src = s /\ ps[p].src = pr[p].src
      BY <1>1, <1>3, <1>4, <2>2
    <3> QED BY <2>2, <3>1 DEF InPlace, NewSource
  <2>3. CASE ps[p].next[r] # None /\ ~(p = n.prev /\ r = n.ref)
    <3> DEFINE d == pr[p].next[r]
    <3>1. p # c
      BY <1>1, <2>3
    <3>2. ps[p].next[r] = d /\ ps[p].src = pr[p].src
      BY <1>3, <1>4, <2>3, <3>1
    <3>3. d \in PropId /\ d # c
      BY <1>5, <2>3, <3>2
    <3>4. ps[d].src = pr[d].src
      BY <1>3, <3>3
    <3>5. InPlace(h, pr, p, r) /\ (pr[p].src # NoSource => IsPlace(h, pr[p].src))
      BY DEF PropsOK, Sourced
    <3> HIDE DEF d
    <3>6. pr[p].src # NoSource /\ Holds(h, pr[p].src, "map") =>
             Holds(g, pr[p].src, "map") /\ Curr(g, pr[p].src) = Curr(h, pr[p].src)
      BY <3>5 DEF DocumentAfter
    <3> QED BY <2>3, <3>2, <3>4, <3>5, <3>6 DEF InPlace, d
  <2> QED BY <2>1, <2>2, <2>3
<1>10. ASSUME NEW p \in PropId, ps[p].src # NoSource
       PROVE  IsPlace(g, ps[p].src)
  <2>1. CASE p # c
    BY <1>8, <1>10, <2>1 DEF DocumentAfter
  <2>2. CASE p = c /\ n.prev = RootId
    <3>1. s = RootAccessor /\ ps[p].src = s
      BY <1>1, <2>2 DEF NewSource
    <3> QED BY <3>1, RootIsPlace DEF DocumentAfter, HeapOK
  <2>3. CASE p = c /\ n.prev # RootId
    <3>1. ps[p].src = s
      BY <1>1, <2>3
    <3> QED BY <1>10, <2>3, <3>1 DEF NewSource
  <2> QED BY <2>1, <2>2, <2>3
<1>11. ASSUME NEW o, NodeOK(pr, o)
       PROVE  NodeOK(ps, o)
  <2>1. o.prev \in PropId /\ (o.prev = RootId \/ o.prev # c)
    BY <1>5, <1>11 DEF NodeOK
  <2> QED BY <1>3, <1>7, <1>11, <2>1 DEF NodeOK
<1>12. PropsOK(g, ps, c)
  <2>1. Sourced(g, ps)
    BY <1>3, <1>7, <1>9, <1>10 DEF Sourced
  <2> QED BY <1>1, <1>6, <2>1 DEF PropsOK
<1> QED BY <1>11, <1>12 DEF c

\* All of describing but the edit that Index, Is and Get make after it.
LEMMA DescribeOK ==
    ASSUME IInv, NEW n, NodeOK(prop, n), NEW kind \in {"map", "leaf"},
           NEW type \in Types \cup {"none"}, Describe(n, kind, type)
    PROVE  /\ HeapOK(heap') /\ DocumentAfter(heap, prop, n, heap')
           /\ PropsOK(heap', PropsAfter(n, kind, type), made')
           /\ \A o : NodeOK(prop, o) => NodeOK(PropsAfter(n, kind, type), o)
           /\ ResolvedProp(n, kind, type) \in PropId
           /\ PropsAfter(n, kind, type)[ResolvedProp(n, kind, type)].kind = kind
           /\ call = Idle /\ call' = Idle
<1> DEFINE ps == PropsAfter(n, kind, type)
<1>1. /\ HeapOK(heap) /\ PropsOK(heap, prop, made) /\ CanResolve(n, kind, type)
      /\ heap' = HeapAfter(n, kind, type) /\ call = Idle /\ call' = Idle
      /\ made' = IF IsThere(n, kind, type) THEN made ELSE made + 1
  BY DEF IInv, Describe
<1>2. DocumentAfter(heap, prop, n, heap')
  BY <1>1, DocumentOK
<1>3. HeapOK(heap')
  BY <1>2 DEF DocumentAfter
<1>4. CASE IsThere(n, kind, type)
  <2>1. ps = prop /\ heap' = heap /\ made' = made /\ ResolvedProp(n, kind, type) = CurrProp(n)
    BY <1>1, <1>4 DEF PropsAfter, HeapAfter, ResolvedProp
  <2>2. CurrProp(n) # None /\ prop[CurrProp(n)].kind = kind
    BY <1>4 DEF IsThere
  <2>3. CurrProp(n) \in PropId
    <3>1. n.prev \in PropId /\ n.ref \in Below
      BY ReferencesDiffer DEF NodeOK
    <3> QED BY <1>1, <2>2, <3>1, Held DEF CurrProp
  <2> QED BY <1>1, <1>2, <1>3, <2>1, <2>2, <2>3
<1>5. CASE ~IsThere(n, kind, type)
  <2>1. NewSource(heap', prop, n, SourceAfter(n))
    BY <1>1, <1>5, NewSourceOK
  <2>2. Added(prop, made, n, kind, SourceAfter(n), ps)
    BY <1>1, <1>5, AddedOK
  <2> HIDE DEF ps
  <2>3. PropsOK(heap', ps, made + 1) /\ \A o : NodeOK(prop, o) => NodeOK(ps, o)
    BY <1>1, <1>2, <2>1, <2>2, TreeOK
  <2>4. made + 1 \in PropId /\ ps[made + 1].kind = kind
    BY <2>2 DEF Added
  <2>5. ResolvedProp(n, kind, type) = made + 1 /\ made' = made + 1
    BY <1>1, <1>5 DEF ResolvedProp
  <2> QED BY <1>1, <1>2, <1>3, <2>3, <2>4, <2>5 DEF ps
<1> QED BY <1>4, <1>5

\* What a Node's holder or property needs, and a default, are not part of the tree.
LEMMA NeedsOK ==
    ASSUME NEW ps \in [PropId -> Properties], NEW q \in PropId, NEW r \in Below
    PROVE  SameTree(ps, [ps EXCEPT ![q].needs = @ \cup {r}])
<1>1. ps[q] \in Properties
  OBVIOUS
<1>2. ps[q].needs \cup {r} \in SUBSET Below
  BY <1>1 DEF Properties
<1>3. [ps[q] EXCEPT !.needs = @ \cup {r}] \in Properties
  BY <1>1, <1>2 DEF Properties
<1> QED BY <1>1, <1>3 DEF SameTree, Properties

LEMMA DefaultOK ==
    ASSUME NEW ps \in [PropId -> Properties], NEW q \in PropId
    PROVE  SameTree(ps, [ps EXCEPT ![q].default = TRUE])
<1>1. ps[q] \in Properties
  OBVIOUS
<1>2. [ps[q] EXCEPT !.default = TRUE] \in Properties
  BY <1>1 DEF Properties
<1> QED BY <1>1, <1>2 DEF SameTree, Properties

LEMMA IdleOK ==
    ASSUME NEW h, NEW ps
    PROVE  CallOK(h, ps, Idle)
<1>1. <<>> \in Todo /\ Len(<<>>) = 0
  BY DEF Todo
<1> QED BY <1>1 DEF CallOK, TodoOK, Idle

LEMMA NodesOK ==
    ASSUME IInv, NEW n \in AllNodes
    PROVE  NodeOK(prop, n)
<1>1. RootId \in PropId
  BY PropsAssumption DEF PropId
<1>2. CASE n = RootNode
  BY <1>1, <1>2 DEF NodeOK, RootNode
<1>3. CASE n # RootNode
  BY <1>3 DEF AllNodes, IInv
<1> QED BY <1>2, <1>3

LEMMA IndexOK ==
    ASSUME IInv, NEW n \in AllNodes, NEW m \in Nodes, NEW k \in Keys, NEW req \in BOOLEAN,
           Index(n, k, req, m)
    PROVE  IInv' /\ call = Idle /\ DocumentAfter(heap, prop, n, heap')
<1> DEFINE c == ResolvedProp(n, "map", "none")
           ps == PropsAfter(n, "map", "none")
<1>1. NodeOK(prop, n) /\ Describe(n, "map", "none")
  BY NodesOK DEF Index
<1>2. /\ HeapOK(heap') /\ PropsOK(heap', ps, made') /\ \A o : NodeOK(prop, o) => NodeOK(ps, o)
      /\ c \in PropId /\ ps[c].kind = "map"
      /\ call = Idle /\ call' = Idle /\ DocumentAfter(heap, prop, n, heap')
  BY <1>1, DescribeOK
<1>3. prop' = (IF req THEN [ps EXCEPT ![c].needs = @ \cup {k}] ELSE ps)
      /\ node' = [node EXCEPT ![m] = [prev |-> c, ref |-> k]]
  BY DEF Index
<1> HIDE DEF c, ps
<1>4. k \in Below /\ ps \in [PropId -> Properties]
  BY <1>2, ReferencesDiffer DEF PropsOK
<1>5. PropsOK(heap', prop', made') /\ \A o : NodeOK(ps, o) => NodeOK(prop', o)
  <2>1. CASE req
    <3>1. SameTree(ps, prop')
      BY <1>2, <1>3, <1>4, <2>1, NeedsOK
    <3> QED BY <1>2, <3>1, SameTreeOK
  <2>2. CASE ~req
    BY <1>2, <1>3, <2>2
  <2> QED BY <2>1, <2>2
<1>6. NodeOK(prop', [prev |-> c, ref |-> k])
  <2>1. NodeOK(ps, [prev |-> c, ref |-> k])
    BY <1>2 DEF NodeOK
  <2> QED BY <1>5, <2>1
<1>7. node \in [Nodes -> [prev: PropId \cup {None}, ref: Below]]
      /\ \A o \in Nodes : node[o] = NoNode \/ NodeOK(prop, node[o])
  BY DEF IInv
<1>8. \A o \in Nodes : node'[o] = NoNode \/ NodeOK(prop', node'[o])
  BY <1>2, <1>3, <1>5, <1>6, <1>7
<1>9. node' \in [Nodes -> [prev: PropId \cup {None}, ref: Below]]
  BY <1>2, <1>3, <1>4, <1>7
<1>10. CallOK(heap', prop', call')
  BY <1>2, IdleOK
<1> QED BY <1>2, <1>5, <1>8, <1>9, <1>10 DEF IInv

LEMMA IsOrGetOK ==
    ASSUME IInv, NEW n \in AllNodes, NEW t \in Types,
           \/ \E default \in BOOLEAN : Is(n, t, default)
           \/ Get(n, t)
    PROVE  IInv' /\ call = Idle /\ DocumentAfter(heap, prop, n, heap')
<1> DEFINE c == ResolvedProp(n, "leaf", t)
           ps == PropsAfter(n, "leaf", t)
<1>1. NodeOK(prop, n) /\ Describe(n, "leaf", t) /\ node' = node
  BY NodesOK DEF Is, Get
<1>2. /\ HeapOK(heap') /\ PropsOK(heap', ps, made') /\ \A o : NodeOK(prop, o) => NodeOK(ps, o)
      /\ c \in PropId
      /\ call = Idle /\ call' = Idle /\ DocumentAfter(heap, prop, n, heap')
  BY <1>1, DescribeOK
<1>3. \/ prop' = ps \/ prop' = [ps EXCEPT ![c].default = TRUE]
      \/ prop' = [ps EXCEPT ![n.prev].needs = @ \cup {n.ref}]
  BY DEF Is, Get
<1> HIDE DEF c, ps
<1>4. n.prev \in PropId /\ n.ref \in Below /\ ps \in [PropId -> Properties]
  BY <1>1, <1>2, ReferencesDiffer DEF PropsOK, NodeOK
<1>5. prop' = ps \/ SameTree(ps, prop')
  BY <1>2, <1>3, <1>4, NeedsOK, DefaultOK
<1>6. PropsOK(heap', prop', made') /\ \A o : NodeOK(ps, o) => NodeOK(prop', o)
  BY <1>2, <1>5, SameTreeOK
<1>7. CallOK(heap', prop', call')
  BY <1>2, IdleOK
<1> QED BY <1>1, <1>2, <1>6, <1>7 DEF IInv

LEMMA BeginOK ==
    ASSUME IInv, NEW n \in AllNodes, NEW op \in {"ok", "report"}, Begin(op, n)
    PROVE  IInv' /\ heap' = heap
<1> DEFINE c == CurrProp(n)
<1>1. /\ HeapOK(heap) /\ PropsOK(heap, prop, made) /\ n.prev \in PropId /\ n.ref \in Below
      /\ c # None
  BY NodesOK, ReferencesDiffer DEF IInv, NodeOK, Begin
<1>2. c \in PropId /\ prop[c].kind \in {"map", "leaf"}
  BY <1>1, Held DEF CurrProp
<1>3. UNCHANGED <<heap, prop, made, node>>
      /\ call' = Went(op, c, <<>>, prop, c, Came(op, heap, prop, c))
  BY DEF Begin
<1> HIDE DEF c
<1>4. TodoOK(heap, prop, op, <<>>) /\ Outer(<<>>, c)
  BY DEF TodoOK, Todo, Outer
<1>5. op \in {"ok", "report", "idle"} /\ c \in PropId \cup {None}
  BY <1>2
<1>6. CallOK(heap, prop, call')
  BY <1>1, <1>2, <1>3, <1>4, <1>5, WentOK
<1> QED BY <1>3, <1>6 DEF IInv

-----------------------------------------------------------------------------
(***************************************************************************)
(* The invariant                                                           *)
(***************************************************************************)

LEMMA BlankOK ==
    ASSUME NEW k \in {"scalar", "map"}
    PROVE  /\ HeapOK(Blank(k)) /\ Blank(k).used = Top
           /\ k = "map" => \A r \in Keys : /\ IsPlace(Blank(k), InTop(r))
                                           /\ Curr(Blank(k), InTop(r)) = Null
<1> DEFINE h == Blank(k)
           kinds == [e \in Id |-> CASE e = Root -> "root" [] e = Top -> k [] OTHER -> "free"]
           slots == [e \in Id |-> [r \in Refs |-> IF e = Root /\ r = RootRef THEN Top ELSE Absent]]
           vals == [e \in Id |-> Nil]
<1>1. h = [kind |-> kinds, slot |-> slots, val |-> vals, used |-> Top]
  BY DEF Blank
<1>2. Top \in Id /\ Root \in Id /\ Top # Root /\ Top \in 0..MaxEntries /\ Top = 2 /\ Top \in Pointers
  BY BoundsAssumption DEF Top, Id, Pointers
<1>3. \A e \in Id : kinds[e] = IF e = Root THEN "root" ELSE IF e = Top THEN k ELSE "free"
  BY <1>2
<1>4. \A e \in Id, r \in Refs :
         slots[e][r] = IF e = Root /\ r = RootRef THEN Top ELSE Absent
  OBVIOUS
<1>5. kinds \in [Id -> Kinds]
  <2>1. \A e \in Id : kinds[e] \in Kinds
    BY <1>3 DEF Kinds
  <2> QED BY <2>1
<1>6. slots \in [Id -> [Refs -> Pointers \cup {Absent}]]
  BY <1>2
<1>7. vals \in [Id -> Values]
  BY NilIsAValue
<1>8. h.kind = kinds /\ h.slot = slots /\ h.used = Top /\ h \in Heaps
  <2> HIDE DEF kinds, slots, vals
  <2> QED BY <1>1, <1>2, <1>5, <1>6, <1>7 DEF Heaps
<1> HIDE DEF h, kinds, slots, vals
<1>9. OnlyMadeEntries(h)
  <2> SUFFICES ASSUME NEW e \in Id
               PROVE  (h.kind[e] = "free" <=> e > Top) /\ (h.kind[e] = "root" <=> e = Root)
    BY <1>8 DEF OnlyMadeEntries
  <2>1. e \in Nat /\ e >= 1
    BY DEF Id
  <2> QED BY <1>2, <1>3, <1>8, <2>1
<1>10. Acyclic(h) /\ NoSharing(h)
  <2>1. \A e \in Id, r \in Refs : h.slot[e][r] \in Id => e = Root /\ r = RootRef /\ h.slot[e][r] = Top
    BY <1>4, <1>8, PointersAreDistinct
  <2>2. Top > Root /\ Top <= Top
    BY DEF Top
  <2> QED BY <1>8, <2>1, <2>2 DEF Acyclic, NoSharing
<1>11. SlotsFit(h)
  <2> SUFFICES ASSUME NEW e \in Id, NEW r \in Refs, h.slot[e][r] # Absent
               PROVE  /\ Takes(h, e, r)
                      /\ h.slot[e][r] = Null => h.kind[e] = "list"
                      /\ h.kind[e] = "list" => \A i \in Indices : i < r => h.slot[e][i] # Absent
    BY DEF SlotsFit
  <2>1. e = Root /\ r = RootRef /\ h.slot[e][r] = Top /\ h.kind[e] = "root"
    BY <1>2, <1>3, <1>4, <1>8
  <2> QED BY <1>2, <2>1, PointersAreDistinct DEF Takes, CanNext
<1>12. HeapOK(h)
  <2>1. \A e \in Id : h.kind[e] # "list"
    BY <1>3, <1>8
  <2> QED BY <1>8, <1>9, <1>10, <1>11, <2>1 DEF HeapOK, WellFormed
<1>13. ASSUME k = "map", NEW r \in Keys
       PROVE  IsPlace(h, InTop(r)) /\ Curr(h, InTop(r)) = Null
  <2>1. h.kind[Top] = "map" /\ Top <= h.used /\ InTop(r) = [prev |-> Top, ref |-> r]
    BY <1>2, <1>3, <1>8, <1>13 DEF InTop
  <2>2. IsPlace(h, InTop(r))
    BY <1>2, <2>1, KeysArePlaces
  <2>3. h.slot[Top][r] = Absent
    BY <1>2, <1>4, <1>8, KeyRefs
  <2>4. InTop(r).prev = Top /\ InTop(r).ref = r
    BY <2>1
  <2> QED BY <1>12, <2>2, <2>3, <2>4, Lookup DEF HeapOK
<1> QED BY <1>8, <1>12, <1>13 DEF h

\* Storing a value makes no list.
LEMMA StoreOK ==
    ASSUME NEW h, NEW a, NEW v \in Values, HeapOK(h), IsPlace(h, a), HasRoom(h, a, "scalar")
    PROVE  HeapOK(Store(h, a, v))
<1> DEFINE g == Resolve(h, a, "scalar")
           e == Resolved(h, a, "scalar")
<1>1. WellFormed(Store(h, a, v))
  BY StorePreserves DEF HeapOK
<1>2. ResolveOK(h, a, "scalar")
  BY ResolvePreserves DEF HeapOK, Makeable
<1>3. \A f \in Id : g.kind[f] # "list"
  <2>1. CASE Holds(h, a, "scalar")
    BY <2>1 DEF Resolve, HeapOK
  <2>2. CASE ~Holds(h, a, "scalar")
    <3>1. g = Grown(h, a, "scalar") /\ CanGrow(h, a, "scalar")
      BY <2>2 DEF Resolve, Grown, CanGrow, HasRoom, Makeable, HeapOK
    <3>2. g.kind = [h.kind EXCEPT ![Fresh(h)] = "scalar"] /\ h.kind \in [Id -> Kinds]
      <4>1. IsGrown(h, a, "scalar")
        BY <3>1, MakeAndAssign
      <4> HIDE DEF g
      <4> QED BY <3>1, <4>1 DEF IsGrown, HeapOK, WellFormed, Heaps
    <3> QED BY <3>2 DEF HeapOK
  <2> QED BY <2>1, <2>2
<1>4. Store(h, a, v).kind = g.kind
  <2>1. g \in Heaps
    BY <1>2 DEF ResolveOK, WellFormed
  <2> HIDE DEF g, e
  <2>2. Store(h, a, v) = [g EXCEPT !.val[e] = v]
    BY DEF Store, g, e
  <2> QED BY <2>1, <2>2 DEF Heaps
<1> QED BY <1>1, <1>3, <1>4 DEF HeapOK

LEMMA InitDocumentOK ==
    ASSUME InitDocument
    PROVE  HeapOK(heap)
<1> DEFINE b == Blank("map")
<1>1. HeapOK(Blank("scalar")) /\ HeapOK(b) /\ b.used = Top /\ Top < MaxEntries /\ Fresh(b) = Top + 1
      /\ \A r \in Keys : IsPlace(b, InTop(r)) /\ Curr(b, InTop(r)) = Null
  BY BlankOK, BoundsAssumption DEF Top, Fresh
<1> HIDE DEF b
<1>2. ASSUME NEW k \in Keys
      PROVE  HeapOK(WithMap(k)) /\ \A j \in Keys : IsPlace(WithMap(k), [prev |-> Top + 1, ref |-> j])
  <2> DEFINE g == Resolve(b, InTop(k), "map")
  <2>1. WithMap(k) = g
    BY DEF WithMap, b
  <2>2. MapStep(b, InTop(k), g, Resolved(b, InTop(k), "map"))
    BY <1>1, StepIsMapStep DEF HasRoom
  <2>3. Resolved(b, InTop(k), "map") = Top + 1
    BY <1>1 DEF Resolved, Holds
  <2> HIDE DEF g
  <2>4. HeapOK(g) /\ Top + 1 \in Id /\ Top + 1 <= g.used /\ g.kind[Top + 1] = "map"
    BY <2>2, <2>3 DEF MapStep
  <2> QED BY <2>1, <2>4, KeysArePlaces
<1>3. ASSUME NEW k \in Keys, NEW v \in Values
      PROVE  HeapOK(Store(b, InTop(k), v))
  BY <1>1, StoreOK DEF HasRoom
<1>4. ASSUME NEW k \in Keys, NEW j \in Keys, NEW v \in Values,
             HasRoom(WithMap(k), [prev |-> Top + 1, ref |-> j], "scalar")
      PROVE  HeapOK(Store(WithMap(k), [prev |-> Top + 1, ref |-> j], v))
  BY <1>2, <1>4, StoreOK
<1> QED BY <1>1, <1>2, <1>3, <1>4 DEF InitDocument, b

LEMMA InitOK == Init => IInv
<1> SUFFICES ASSUME Init PROVE IInv
  OBVIOUS
<1> DEFINE nx == [r \in Below |-> None]
           x == Property("root", "none", None, RootRef, RootAccessor)
           y == Property("free", "none", None, RootRef, NoSource)
<1>1. HeapOK(heap)
  BY InitDocumentOK DEF Init
<1>2. /\ prop = [p \in PropId |-> IF p = RootId THEN x ELSE y] /\ made = RootId
      /\ node = [m \in Nodes |-> NoNode] /\ call = Idle
  BY DEF Init
<1>3. x \in Properties /\ y \in Properties
  <2>1. nx \in [Below -> PropId \cup {None}]
    OBVIOUS
  <2>2. RootAccessor \in Accessors /\ RootRef \in Below
    BY KeyRefs, ReferencesDiffer DEF RootAccessor, Accessors
  <2>3. <<>> \in Seq(Keys)
    OBVIOUS
  <2> HIDE DEF nx
  <2>4. \A k \in {"root", "free"}, s \in Accessors \cup {NoSource} :
           [kind |-> k, type |-> "none", prev |-> None, ref |-> RootRef, src |-> s,
            next |-> nx, order |-> <<>>, needs |-> {}, default |-> FALSE] \in Properties
    BY <2>1, <2>2, <2>3 DEF Properties
  <2> QED BY <2>2, <2>4 DEF Property, nx
<1>4. /\ x.kind = "root" /\ x.src = RootAccessor /\ y.kind = "free" /\ y.src = NoSource
      /\ x.next = nx /\ y.next = nx /\ y.order = <<>>
  BY DEF Property
<1>5. \A r \in Below : nx[r] = None
  OBVIOUS
<1> HIDE DEF x, y, nx
<1>6. /\ prop \in [PropId -> Properties] /\ made \in PropId /\ RootId \in PropId
      /\ \A p \in PropId : prop[p] = (IF p = RootId THEN x ELSE y) /\ prop[p].next = nx
      /\ \A p \in PropId : p > RootId <=> p # RootId
  BY <1>2, <1>3, <1>4, PropsAssumption DEF PropId
<1>7. InOrder(y)
  <2>1. Len(y.order) = 0
    BY <1>4
  <2> QED BY <1>4, <1>5, <2>1, ReferencesDiffer DEF InOrder
<1>8. Linked(prop, made)
  <2>1. \A p \in PropId : /\ prop[p].kind = "free" <=> p > made
                          /\ prop[p].kind = "root" <=> p = RootId
    BY <1>2, <1>4, <1>6
  <2> QED BY <1>5, <1>6, <1>7, <2>1 DEF Linked
<1>9. Sourced(heap, prop)
  <2>1. \A p \in PropId, r \in Below : InPlace(heap, prop, p, r)
    BY <1>5, <1>6 DEF InPlace
  <2>2. \A p \in PropId : prop[p].src # NoSource => IsPlace(heap, prop[p].src)
    BY <1>1, <1>4, <1>6, RootIsPlace DEF HeapOK
  <2> QED BY <1>4, <1>6, <2>1, <2>2 DEF Sourced
<1>10. node \in [Nodes -> [prev: PropId \cup {None}, ref: Below]]
       /\ \A m \in Nodes : node[m] = NoNode
  BY <1>2, ReferencesDiffer DEF NoNode
<1>11. CallOK(heap, prop, call)
  BY <1>2, IdleOK
<1> QED BY <1>1, <1>6, <1>8, <1>9, <1>10, <1>11 DEF IInv, PropsOK

\* What a step leaves of the document, besides the invariant.
Kept == \/ heap' = heap
        \/ /\ call = Idle
           /\ \E n : NodeOK(prop, n) /\ DocumentAfter(heap, prop, n, heap')

LEMMA NextOK ==
    ASSUME IInv, [Next]_vars
    PROVE  IInv' /\ Kept
<1>1. ASSUME NEW n \in AllNodes, NEW m \in Nodes, NEW k \in Keys, NEW req \in BOOLEAN,
             Index(n, k, req, m)
      PROVE  IInv' /\ Kept
  BY <1>1, IndexOK, NodesOK DEF Kept
<1>2. ASSUME NEW n \in AllNodes, NEW t \in Types,
             (\E default \in BOOLEAN : Is(n, t, default)) \/ Get(n, t)
      PROVE  IInv' /\ Kept
  BY <1>2, IsOrGetOK, NodesOK DEF Kept
<1>3. ASSUME NEW n \in AllNodes, Ok(n) \/ Report(n)
      PROVE  IInv' /\ Kept
  BY <1>3, BeginOK DEF Kept, Ok, Report
<1>4. ASSUME Visit
      PROVE  IInv' /\ Kept
  <2>1. /\ heap' = heap /\ PropsOK(heap, prop', made) /\ CallOK(heap, prop', call')
        /\ \A p \in PropId : prop'[p].kind = prop[p].kind
    BY <1>4, VisitOK
  <2>2. made' = made /\ node' = node
    BY <1>4 DEF Visit
  <2>3. \A n : NodeOK(prop, n) => NodeOK(prop', n)
    BY <2>1 DEF NodeOK
  <2> QED BY <2>1, <2>2, <2>3 DEF IInv, Kept
<1>5. ASSUME Return
      PROVE  IInv' /\ Kept
  <2>1. call' = Idle /\ UNCHANGED <<heap, prop, made, node>>
    BY <1>5 DEF Return
  <2>2. CallOK(heap, prop, call')
    BY <2>1, IdleOK
  <2> QED BY <2>1, <2>2 DEF IInv, Kept
<1>6. ASSUME UNCHANGED vars
      PROVE  IInv' /\ Kept
  BY <1>6 DEF vars, IInv, Kept
<1> QED BY <1>1, <1>2, <1>3, <1>4, <1>5, <1>6 DEF Next

THEOREM Inductive == Spec => []IInv
<1>1. IInv /\ [Next]_vars => IInv'
  BY NextOK
<1> QED BY <1>1, InitOK, PTL DEF Spec

\* Every Prop, Node and call keeps to its type, a holder has its keys in order and
\* once, and a property knows its holder (detail/prop.hpp, detail/props/poly-map.hpp).
THEOREM TypeCorrect == Spec => []TypeOK
<1>1. IInv => TypeOK
  <2> SUFFICES ASSUME IInv PROVE TypeOK
    OBVIOUS
  <2>1. /\ heap \in Heaps /\ made \in PropId /\ prop \in [PropId -> Properties]
        /\ node \in [Nodes -> [prev: PropId \cup {None}, ref: Below]]
        /\ call \in [op: {"idle", "ok", "report"}, of: PropId \cup {None}, todo: Todo,
                     answer: {"none", "yes", "no", "null"}]
    BY DEF IInv, HeapOK, WellFormed, PropsOK, CallOK
  <2>2. \A p \in PropId : prop[p].kind # "root" => InOrder(prop[p])
    BY DEF IInv, PropsOK, Linked
  <2>3. \A p \in PropId, r \in Below : HolderKnown(p, r)
    BY DEF IInv, PropsOK, Linked, HolderKnown
  <2> QED BY <2>1, <2>2, <2>3 DEF TypeOK
<1> QED BY <1>1, Inductive, PTL

\* However describing, validating and reporting interleave, a source that any of
\* them handed out stands for its property's key in the map of the holder
\* (PolyMapPropHolder::assign, PolyMapProp::ok, forEachProps).
THEOREM SourcesStayInPlace == Spec => []SourcesInPlace
<1>1. IInv => SourcesInPlace
  BY DEF IInv, PropsOK, Sourced, InPlace, SourcesInPlace
<1> QED BY <1>1, Inductive, PTL

\* What describing puts into a document is maps, each where a map property has its
\* source, and no value is made up (PolyMapPropHolder::assign, MutableSource::next).
THEOREM DescribingMakesOnlyMaps == Spec => OnlyMapsAreMade
<1>1. IInv /\ [Next]_vars => [MakesMapsOnly]_vars
  <2> SUFFICES ASSUME IInv, [Next]_vars PROVE MakesMapsOnly
    OBVIOUS
  <2>1. Kept
    BY NextOK
  <2>2. CASE heap' = heap
    BY <2>2 DEF MakesMapsOnly
  <2>3. ASSUME NEW n, NodeOK(prop, n), DocumentAfter(heap, prop, n, heap')
        PROVE  MakesMapsOnly
    BY <2>3 DEF MakesMapsOnly, DocumentAfter, NodeOK
  <2> QED BY <2>1, <2>2, <2>3 DEF Kept
<1> QED BY <1>1, Inductive, PTL DEF Spec, OnlyMapsAreMade

\* Node::ok and the reports leave the document as it is, though ok() hands out
\* sources by the step that makes maps (PolyMapProp::ok).
THEOREM ReadersDoNotWrite == Spec => ReadersOnlyRead
<1>1. IInv /\ [Next]_vars => [call.op # "idle" => UNCHANGED heap]_vars
  <2> SUFFICES ASSUME IInv, [Next]_vars, call.op # "idle" PROVE UNCHANGED heap
    OBVIOUS
  <2>1. Kept
    BY NextOK
  <2> QED BY <2>1 DEF Kept, Idle
<1> QED BY <1>1, Inductive, PTL DEF Spec, ReadersOnlyRead

-----------------------------------------------------------------------------
(***************************************************************************)
(* The walk of ok() and the description: the walk stops early, and takes   *)
(* the sources that it hands down as it goes, and still says what the      *)
(* description says of the document.                                       *)
(***************************************************************************)
Pairs == PropId \X Accessors

\* What Expected(h, pr) is a solution of.
IsExpected(h, pr, f) == f = [u \in Pairs |-> Said(h, pr, f, u[1], u[2])]

TypedProps(h, pr) == h \in Heaps /\ pr \in [PropId -> Properties]

\* What is asked below a place are properties and places.
LEMMA AskedArePairs ==
    ASSUME NEW h, NEW pr, TypedProps(h, pr), NEW p \in PropId, NEW a \in Accessors,
           Curr(h, a) # Null
    PROVE  Asked(h, pr, p, a) \subseteq Pairs
<1> SUFFICES ASSUME NEW k \in Keys, pr[p].next[k] # None
             PROVE  <<pr[p].next[k], [prev |-> Curr(h, a), ref |-> k]>> \in Pairs
  BY DEF Asked
<1>1. pr[p].next[k] \in PropId
  <2>1. pr[p] \in Properties /\ k \in Below
    BY ReferencesDiffer DEF TypedProps
  <2> QED BY <2>1 DEF Properties
<1>2. Curr(h, a) \in Id
  <2>1. a.prev \in Id /\ a.ref \in Refs
    BY DEF Accessors
  <2>2. SlotOf(h, a.prev, a.ref) \in Refs
    BY <2>1, KeyRefs DEF SlotOf
  <2>3. h.slot[a.prev][SlotOf(h, a.prev, a.ref)] \in Pointers \cup {Absent}
    BY <2>1, <2>2 DEF TypedProps, Heaps
  <2> QED BY <2>1, <2>3 DEF Curr, Stored, Pointers
<1>3. [prev |-> Curr(h, a), ref |-> k] \in Accessors
  BY <1>2, KeyRefs DEF Accessors
<1> QED BY <1>1, <1>3 DEF Pairs

LEMMA ExpectedDefinition ==
    ASSUME NEW h, NEW pr
    PROVE  Expected(h, pr) = CHOOSE f : IsExpected(h, pr, f)
BY DEF Expected, IsExpected, Pairs

\* The places that are as described are the largest set of places of which each
\* is, when those it asks for are in the set.
Agrees(h, pr, X, p, a) ==
    IF Fits(h, pr, p, a) THEN Asked(h, pr, p, a) \subseteq X
    ELSE ~IsNeeded(pr, p) \/ pr[p].default

LEMMA ExpectedExists ==
    ASSUME NEW h, NEW pr, TypedProps(h, pr)
    PROVE  IsExpected(h, pr, Expected(h, pr))
<1> DEFINE Sound == {X \in SUBSET Pairs : \A u \in X : Agrees(h, pr, X, u[1], u[2])}
           Y == UNION Sound
           f == [u \in Pairs |-> Answer(u \in Y)]
<1>1. \A X, Z, p, a : X \subseteq Z /\ Agrees(h, pr, X, p, a) => Agrees(h, pr, Z, p, a)
  BY DEF Agrees
<1>2. \A u \in Y : Agrees(h, pr, Y, u[1], u[2])
  BY <1>1
<1>3. ASSUME NEW u \in Pairs, Agrees(h, pr, Y, u[1], u[2]) PROVE u \in Y
  <2> DEFINE Z == Y \cup {u}
  <2>1. \A v \in Z : Agrees(h, pr, Z, v[1], v[2])
    <3>1. Y \subseteq Z
      OBVIOUS
    <3> HIDE DEF Y
    <3> QED BY <1>1, <1>2, <1>3, <3>1
  <2>2. Z \in Sound
    <3>1. Z \subseteq Pairs
      OBVIOUS
    <3> HIDE DEF Y, Z
    <3> QED BY <2>1, <3>1
  <2>3. u \in Z
    OBVIOUS
  <2> HIDE DEF Z, Sound
  <2> QED BY <2>2, <2>3
<1>4. Y \subseteq Pairs
  OBVIOUS
<1> HIDE DEF Sound, Y
<1>5. f = [u \in Pairs |-> Answer(u \in Y)]
  OBVIOUS
<1> HIDE DEF f
<1>6. ASSUME NEW u \in Pairs
      PROVE  Said(h, pr, f, u[1], u[2]) = f[u]
  <2> DEFINE p == u[1]
             a == u[2]
  <2>1. p \in PropId /\ a \in Accessors
    BY DEF Pairs
  <2>2. ASSUME Fits(h, pr, p, a) PROVE Asked(h, pr, p, a) \subseteq Pairs
    <3>1. Curr(h, a) # Null
      BY <2>2 DEF Fits, IsScalar, Holds
    <3> QED BY <2>1, <3>1, AskedArePairs
  <2>3. \A v \in Pairs : f[v] = "yes" <=> v \in Y
    BY <1>5 DEF Answer
  <2>4. Fits(h, pr, p, a) => ((\A v \in Asked(h, pr, p, a) : f[v] = "yes") <=> Asked(h, pr, p, a) \subseteq Y)
    BY <2>2, <2>3
  <2>5. Said(h, pr, f, p, a) = Answer(Agrees(h, pr, Y, p, a))
    BY <2>4 DEF Said, Agrees, Answer
  <2>6. (u \in Y <=> Agrees(h, pr, Y, p, a)) /\ f[u] = Answer(u \in Y)
    BY <1>2, <1>3, <1>5
  <2> QED BY <2>5, <2>6 DEF Answer
<1>7. IsExpected(h, pr, f)
  <2>1. f = [u \in Pairs |-> f[u]]
    BY <1>5
  <2> QED BY <1>6, <2>1 DEF IsExpected
<1>8. \E g : IsExpected(h, pr, g)
  BY <1>7
<1> QED BY <1>8, ExpectedDefinition

\* Properties that someone holds; below one of them there are only such.
IsHeld(pr, c) == \E p \in PropId, r \in Below : pr[p].next[r] = c /\ c # None

\* What two sets of properties may differ in is where they have their sources.
SameShape(pr, ps) ==
    \A p \in PropId : /\ ps[p].kind = pr[p].kind /\ ps[p].type = pr[p].type
                      /\ ps[p].prev = pr[p].prev /\ ps[p].ref = pr[p].ref
                      /\ ps[p].next = pr[p].next /\ ps[p].order = pr[p].order
                      /\ ps[p].needs = pr[p].needs /\ ps[p].default = pr[p].default

LEMMA SameSaid ==
    ASSUME NEW h, NEW pr, NEW ps, NEW mk, PropsOK(h, pr, mk), SameShape(pr, ps),
           NEW f, NEW p \in PropId, IsHeld(pr, p), NEW a \in Accessors
    PROVE  /\ Said(h, ps, f, p, a) = Said(h, pr, f, p, a)
           /\ \A u \in Asked(h, pr, p, a) : IsHeld(pr, u[1]) /\ u[1] > p
<1>1. pr[p].prev \in PropId
  BY Held DEF IsHeld
<1>2. IsNeeded(ps, p) = IsNeeded(pr, p)
  BY <1>1 DEF IsNeeded, SameShape
<1>3. Fits(h, ps, p, a) = Fits(h, pr, p, a) /\ Asked(h, ps, p, a) = Asked(h, pr, p, a)
  BY DEF Fits, Asked, SameShape
<1>4. \A k \in Keys : pr[p].next[k] # None => IsHeld(pr, pr[p].next[k]) /\ pr[p].next[k] > p
  <2> SUFFICES ASSUME NEW k \in Keys, pr[p].next[k] # None
               PROVE  IsHeld(pr, pr[p].next[k]) /\ pr[p].next[k] > p
    OBVIOUS
  <2>1. k \in Below
    BY ReferencesDiffer
  <2>2. p < pr[p].next[k] /\ pr[p].next[k] \in Nat /\ p \in Nat
    BY <2>1, Held
  <2> QED BY <2>1, <2>2 DEF IsHeld
<1>5. \A u \in Asked(h, pr, p, a) : IsHeld(pr, u[1]) /\ u[1] > p
  <2> SUFFICES ASSUME NEW k \in Keys, pr[p].next[k] # None,
                      NEW u, u = <<pr[p].next[k], [prev |-> Curr(h, a), ref |-> k]>>
               PROVE  IsHeld(pr, u[1]) /\ u[1] > p
    BY DEF Asked
  <2>1. u[1] = pr[p].next[k]
    OBVIOUS
  <2> QED BY <1>4, <2>1
<1>6. Said(h, ps, f, p, a) = Said(h, pr, f, p, a)
  BY <1>2, <1>3 DEF Said, SameShape
<1> QED BY <1>5, <1>6

\* Properties are younger than their holders: there is one answer for a place.
LEMMA AnswersAreOne ==
    ASSUME NEW h, NEW pr, NEW ps, NEW mk, h \in Heaps, PropsOK(h, pr, mk), SameShape(pr, ps),
           NEW f, NEW g, IsExpected(h, pr, f), IsExpected(h, ps, g),
           NEW v \in Pairs, IsHeld(pr, v[1])
    PROVE  f[v] = g[v]
<1> DEFINE T == {n \in Nat : \E u \in Pairs : IsHeld(pr, u[1]) /\ n + u[1] = MaxProps /\ f[u] # g[u]}
<1>1. TypedProps(h, pr)
  BY DEF TypedProps, PropsOK
<1> SUFFICES ASSUME f[v] # g[v] PROVE FALSE
  OBVIOUS
<1>2. \A u \in Pairs : u[1] \in PropId /\ u[2] \in Accessors /\ u[1] \in Nat /\ u[1] <= MaxProps
  BY PropsAssumption DEF Pairs, PropId
<1>3. T # {}
  <2>1. MaxProps - v[1] \in Nat /\ (MaxProps - v[1]) + v[1] = MaxProps
    BY <1>2, PropsAssumption
  <2> QED BY <2>1
<1>4. PICK n \in T : \A y \in T : n <= y
  <2>1. T \subseteq Nat
    OBVIOUS
  <2> HIDE DEF T
  <2> QED BY <1>3, <2>1, LeastNumber
<1>5. PICK u \in Pairs : IsHeld(pr, u[1]) /\ n + u[1] = MaxProps /\ f[u] # g[u] /\ n \in Nat
  OBVIOUS
<1>6. ASSUME NEW w \in Pairs, IsHeld(pr, w[1]), w[1] > u[1]
      PROVE  f[w] = g[w]
  <2> SUFFICES ASSUME f[w] # g[w] PROVE FALSE
    OBVIOUS
  <2>1. MaxProps - w[1] \in Nat /\ (MaxProps - w[1]) + w[1] = MaxProps
    BY <1>2, PropsAssumption
  <2>2. MaxProps - w[1] \in T
    BY <1>6, <2>1
  <2>3. n <= MaxProps - w[1]
    BY <1>4, <2>2
  <2>4. w[1] \in Nat /\ u[1] \in Nat
    BY <1>2
  <2> QED BY <1>5, <1>6, <2>1, <2>3, <2>4, PropsAssumption
<1> HIDE DEF T
<1> DEFINE p == u[1]
           a == u[2]
<1>7. p \in PropId /\ a \in Accessors
  BY <1>2
<1>8. Fits(h, pr, p, a) => \A w \in Asked(h, pr, p, a) : f[w] = g[w]
  <2> SUFFICES ASSUME Fits(h, pr, p, a), NEW w \in Asked(h, pr, p, a) PROVE f[w] = g[w]
    OBVIOUS
  <2>1. Curr(h, a) # Null
    BY DEF Fits, IsScalar, Holds
  <2>2. w \in Pairs
    BY <1>1, <1>7, <2>1, AskedArePairs
  <2>3. SameShape(pr, pr)
    BY DEF SameShape
  <2>4. IsHeld(pr, w[1]) /\ w[1] > p
    BY <1>5, <1>7, <2>3, SameSaid
  <2> QED BY <1>6, <2>2, <2>4
<1>9. Said(h, pr, f, p, a) = Said(h, pr, g, p, a)
  BY <1>8 DEF Said
<1>10. Said(h, ps, g, p, a) = Said(h, pr, g, p, a)
  BY <1>5, <1>7, SameSaid
<1>11. f[u] = Said(h, pr, f, p, a)
  BY DEF IsExpected
<1>12. g[u] = Said(h, ps, g, p, a)
  BY DEF IsExpected
<1> QED BY <1>5, <1>9, <1>10, <1>11, <1>12

-----------------------------------------------------------------------------
(***************************************************************************)
(* The walk                                                                *)
(***************************************************************************)

\* Nothing but a leaf has a default.
DefaultsFit(pr) == \A p \in PropId : pr[p].kind # "leaf" => ~pr[p].default

\* The place a loop is to come to.
Awaited(h, pr, item) ==
    <<pr[item.holder].next[item.key], [prev |-> Curr(h, pr[item.holder].src), ref |-> item.key]>>

AllYes(h, pr, f, todo) == \A i \in 1..Len(todo) : f[Awaited(h, pr, todo[i])] = "yes"

\* Where a call of ok() is: what it was called on is as described if and only if
\* what its loops are still to come to is.
OnTheWay(h, pr, f, cl) ==
    /\ IsHeld(pr, cl.of) /\ cl.of \in PropId /\ pr[cl.of].src # NoSource
    /\ \A i \in 1..Len(cl.todo) : cl.of <= cl.todo[i].holder
    /\ cl.answer # "none" => cl.todo = <<>> /\ cl.answer = f[<<cl.of, pr[cl.of].src>>]
    /\ cl.answer = "none" => (f[<<cl.of, pr[cl.of].src>>] = "yes" <=> AllYes(h, pr, f, cl.todo))

WalkOK(h, pr, cl) ==
    cl.op = "ok" => \/ cl.answer = "null" /\ cl.todo = <<>>
                    \/ OnTheWay(h, pr, Expected(h, pr), cl)

\* The loop over the keys of a property.
LEMMA ChildrenAre ==
    ASSUME NEW h, NEW pr, NEW mk, PropsOK(h, pr, mk), NEW c \in PropId
    PROVE  /\ Children(pr, c) \in Todo /\ Len(Children(pr, c)) = Len(pr[c].order)
           /\ \A i \in 1..Len(pr[c].order) : /\ Children(pr, c)[i].holder = c
                                             /\ Children(pr, c)[i].key = pr[c].order[i]
<1> DEFINE o == pr[c].order
           s == Children(pr, c)
<1>1. o \in Seq(Keys)
  BY DEF PropsOK, Properties
<1>2. Len(o) \in Nat /\ \A i \in 1..Len(o) : o[i] \in Keys
  BY <1>1
<1>3. s = [i \in 1..Len(o) |-> [holder |-> c, key |-> o[i]]]
  BY DEF Children
<1> HIDE DEF s, o
<1>4. s \in [1..Len(o) -> [holder: PropId, key: Keys]]
  BY <1>2, <1>3
<1>5. s \in Todo /\ Len(s) = Len(o)
  BY <1>2, <1>4, SeqOfFunction DEF Todo
<1>6. ASSUME NEW i \in 1..Len(o) PROVE s[i].holder = c /\ s[i].key = o[i]
  <2>1. s[i] = [holder |-> c, key |-> o[i]]
    BY <1>3
  <2> QED BY <2>1
<1> QED BY <1>5, <1>6 DEF s, o

\* ok() of a property and what is expected of it.
LEMMA OkOfOne ==
    ASSUME NEW h, NEW pr, NEW mk, HeapOK(h), PropsOK(h, pr, mk), DefaultsFit(pr),
           NEW c \in PropId, pr[c].kind \in {"map", "leaf"}, pr[c].src # NoSource
    PROVE  LET f == Expected(h, pr)
               got == OkOf(h, pr, c)
               e == f[<<c, pr[c].src>>]
           IN  /\ e \in {"yes", "no"}
               /\ got \in {"yes", "no", "below"}
               /\ got # "below" => e = got
               /\ got = "below" => /\ pr[c].kind = "map" /\ Holds(h, pr[c].src, "map")
                                   /\ e = "yes" <=> AllYes(h, pr, f, Children(pr, c))
<1> DEFINE f == Expected(h, pr)
           got == OkOf(h, pr, c)
           a == pr[c].src
           e == f[<<c, a>>]
<1>1. a \in Accessors /\ pr[c] \in Properties
  BY DEF PropsOK, Properties
<1>2. IsExpected(h, pr, f)
  BY ExpectedExists DEF TypedProps, HeapOK, WellFormed, PropsOK
<1> HIDE DEF f
<1>3. e = Said(h, pr, f, c, a)
  <2>1. <<c, a>> \in Pairs
    BY <1>1 DEF Pairs
  <2> QED BY <1>2, <2>1 DEF IsExpected
<1>4. CASE pr[c].kind = "leaf"
  <2>1. Asked(h, pr, c, a) = {}
    <3> SUFFICES ASSUME NEW k \in Keys, pr[c].next[k] # None PROVE FALSE
      BY DEF Asked
    <3>1. k \in Below
      BY ReferencesDiffer
    <3> QED BY <1>4, <3>1, Held
  <2>2. got = Answer(LeafOk(h, pr, c))
    BY <1>4 DEF OkOf
  <2>3. Said(h, pr, f, c, a) = Answer(LeafOk(h, pr, c))
    BY <1>4, <2>1 DEF Said, Fits, LeafOk, Answer
  <2> QED BY <1>3, <2>2, <2>3 DEF Answer, f
<1>5. CASE pr[c].kind = "map" /\ ~Holds(h, a, "map")
  <2>1. got = Answer(~IsNeeded(pr, c)) /\ ~pr[c].default
    BY <1>5 DEF OkOf, DefaultsFit
  <2>2. ~Fits(h, pr, c, a)
    BY <1>5 DEF Fits
  <2>3. Said(h, pr, f, c, a) = got
    BY <2>1, <2>2 DEF Said, Answer
  <2>4. got \in {"yes", "no"}
    BY <2>1 DEF Answer
  <2> QED BY <1>3, <2>3, <2>4 DEF f
<1>6. CASE pr[c].kind = "map" /\ Holds(h, a, "map")
  <2> DEFINE s == Children(pr, c)
             o == pr[c].order
             at(k) == <<pr[c].next[k], [prev |-> Curr(h, a), ref |-> k]>>
  <2>1. got = "below"
    BY <1>6 DEF OkOf
  <2>2. Fits(h, pr, c, a)
    BY <1>6 DEF Fits
  <2>3. e = Answer(\A u \in Asked(h, pr, c, a) : f[u] = "yes")
    BY <1>3, <2>2 DEF Said
  <2>4. /\ \A i \in 1..Len(o) : o[i] \in Keys
        /\ \A k \in Keys : pr[c].next[k] # None <=> \E i \in 1..Len(o) : o[i] = k
    <3>1. c # RootId
      BY <1>6, PropsAssumption DEF PropsOK, Linked, PropId
    <3>2. o \in Seq(Keys)
      BY <1>1 DEF Properties
    <3> QED BY <3>1, <3>2 DEF PropsOK, Linked, InOrder
  <2>5. Len(s) = Len(o) /\ \A i \in 1..Len(o) : o[i] \in Keys /\ s[i].holder = c /\ s[i].key = o[i]
    BY <2>4, ChildrenAre
  <2> HIDE DEF s, o
  <2>6. \A i \in 1..Len(o) : Awaited(h, pr, s[i]) = at(o[i])
    BY <2>5 DEF Awaited
  <2>7. (\A u \in Asked(h, pr, c, a) : f[u] = "yes") <=> \A k \in Keys : pr[c].next[k] # None => f[at(k)] = "yes"
    BY DEF Asked
  <2>8. AllYes(h, pr, f, s) <=> \A i \in 1..Len(o) : f[at(o[i])] = "yes"
    BY <2>5, <2>6 DEF AllYes
  <2>9. AllYes(h, pr, f, s) <=> \A k \in Keys : pr[c].next[k] # None => f[at(k)] = "yes"
    <3> HIDE DEF at
    <3> QED BY <2>4, <2>5, <2>8
  <2>10. e \in {"yes", "no"} /\ (e = "yes" <=> AllYes(h, pr, f, s))
    BY <2>3, <2>7, <2>9 DEF Answer
  <2> QED BY <1>6, <2>1, <2>10 DEF f, s
<1> QED BY <1>4, <1>5, <1>6

LEMMA SeqParts ==
    ASSUME NEW S, NEW s \in Seq(S), NEW t \in Seq(S)
    PROVE  /\ Len(s) \in Nat /\ Len(t) \in Nat /\ s \o t \in Seq(S) /\ Len(s \o t) = Len(s) + Len(t)
           /\ \A i \in 1..Len(s) : i \in 1..Len(s \o t) /\ (s \o t)[i] = s[i]
           /\ \A i \in 1..Len(t) : Len(s) + i \in 1..Len(s \o t) /\ (s \o t)[Len(s) + i] = t[i]
           /\ \A i \in 1..Len(s \o t) : i \in 1..Len(s) \/ (i - Len(s) \in 1..Len(t) /\ i = Len(s) + (i - Len(s)))
           /\ s = <<>> <=> Len(s) = 0
  OBVIOUS

LEMMA AllYesParts ==
    ASSUME NEW h, NEW pr, NEW f, NEW s \in Todo, NEW t \in Todo
    PROVE  AllYes(h, pr, f, s \o t) <=> AllYes(h, pr, f, s) /\ AllYes(h, pr, f, t)
<1>1. /\ Len(s) \in Nat /\ Len(t) \in Nat
      /\ \A i \in 1..Len(s) : i \in 1..Len(s \o t) /\ (s \o t)[i] = s[i]
      /\ \A i \in 1..Len(t) : Len(s) + i \in 1..Len(s \o t) /\ (s \o t)[Len(s) + i] = t[i]
      /\ \A i \in 1..Len(s \o t) : i \in 1..Len(s) \/ (i - Len(s) \in 1..Len(t) /\ i = Len(s) + (i - Len(s)))
  BY SeqParts DEF Todo
<1> DEFINE u == s \o t
<1> HIDE DEF u
<1>2. /\ \A i \in 1..Len(s) : i \in 1..Len(u) /\ u[i] = s[i]
      /\ \A i \in 1..Len(t) : Len(s) + i \in 1..Len(u) /\ u[Len(s) + i] = t[i]
      /\ \A i \in 1..Len(u) : i \in 1..Len(s) \/ (i - Len(s) \in 1..Len(t) /\ i = Len(s) + (i - Len(s)))
  BY <1>1 DEF u
<1>3. ASSUME AllYes(h, pr, f, u)
      PROVE  AllYes(h, pr, f, s) /\ AllYes(h, pr, f, t)
  BY <1>2, <1>3 DEF AllYes
<1>4. ASSUME AllYes(h, pr, f, s), AllYes(h, pr, f, t), NEW i \in 1..Len(u)
      PROVE  f[Awaited(h, pr, u[i])] = "yes"
  <2>1. CASE i \in 1..Len(s)
    BY <1>2, <1>4, <2>1 DEF AllYes
  <2>2. CASE i - Len(s) \in 1..Len(t) /\ i = Len(s) + (i - Len(s))
    <3>1. u[i] = t[i - Len(s)]
      BY <1>2, <2>2
    <3> QED BY <1>4, <2>2, <3>1 DEF AllYes
  <2> QED BY <1>2, <2>1, <2>2
<1> QED BY <1>3, <1>4 DEF AllYes, u

\* The walk after it came to c: to what it was still to come to belongs c.
LEMMA WentExact ==
    ASSUME NEW h, NEW pr, NEW mk, HeapOK(h), PropsOK(h, pr, mk), DefaultsFit(pr),
           NEW of \in PropId, IsHeld(pr, of), pr[of].src # NoSource,
           NEW rest \in Todo, \A i \in 1..Len(rest) : of <= rest[i].holder,
           NEW c \in PropId, of <= c, pr[c].kind \in {"map", "leaf"},
           pr[c].src # NoSource =>
              (Expected(h, pr)[<<of, pr[of].src>>] = "yes" <=>
                  /\ Expected(h, pr)[<<c, pr[c].src>>] = "yes"
                  /\ AllYes(h, pr, Expected(h, pr), rest)),
           Expected(h, pr)[<<of, pr[of].src>>] \in {"yes", "no"}
    PROVE  WalkOK(h, pr, Went("ok", of, rest, pr, c, OkOf(h, pr, c)))
<1> DEFINE f == Expected(h, pr)
           got == OkOf(h, pr, c)
           next == Went("ok", of, rest, pr, c, got)
           s == Children(pr, c)
           yes == f[<<of, pr[of].src>>]
<1>1. /\ got = "below" => next.todo = s \o rest
      /\ got = "yes" => next.todo = rest
      /\ got \in {"no", "null"} => next.todo = <<>>
      /\ next.answer = IF got \in {"no", "null"} THEN got ELSE IF next.todo = <<>> THEN "yes" ELSE "none"
      /\ next.of = of /\ next.op = "ok"
  BY DEF Went
<1>2. CASE pr[c].src = NoSource
  <2>1. got = "null"
    BY <1>2 DEF OkOf
  <2> QED BY <1>1, <2>1 DEF WalkOK
<1>3. CASE pr[c].src # NoSource
  <2>1. /\ got \in {"yes", "no", "below"}
        /\ got # "below" => f[<<c, pr[c].src>>] = got
        /\ got = "below" => /\ pr[c].kind = "map"
                            /\ f[<<c, pr[c].src>>] = "yes" <=> AllYes(h, pr, f, s)
    BY <1>3, OkOfOne
  <2>2. yes = "yes" <=> f[<<c, pr[c].src>>] = "yes" /\ AllYes(h, pr, f, rest)
    BY <1>3
  <2>s. s \in Todo /\ \A i \in 1..Len(s) : s[i].holder = c
    BY ChildrenAre
  <2>y. yes \in {"yes", "no"} /\ of \in PropId /\ IsHeld(pr, of) /\ pr[of].src # NoSource
    OBVIOUS
  <2>e. WalkOK(h, pr, next) <=> (next.op = "ok" => \/ next.answer = "null" /\ next.todo = <<>>
                                                   \/ OnTheWay(h, pr, f, next))
    BY DEF WalkOK
  <2>o. OnTheWay(h, pr, f, next) <=>
            /\ \A i \in 1..Len(next.todo) : of <= next.todo[i].holder
            /\ next.answer # "none" => next.todo = <<>> /\ next.answer = yes
            /\ next.answer = "none" => (yes = "yes" <=> AllYes(h, pr, f, next.todo))
    BY <1>1, <2>y DEF OnTheWay
  <2> HIDE DEF f, got, next, s, yes
  <2>3. AllYes(h, pr, f, <<>>)
    BY DEF AllYes
  <2>4. got \in {"yes", "below"} => (yes = "yes" <=> AllYes(h, pr, f, next.todo))
    <3>1. AllYes(h, pr, f, s \o rest) <=> AllYes(h, pr, f, s) /\ AllYes(h, pr, f, rest)
      BY <2>s, AllYesParts
    <3> QED BY <1>1, <2>1, <2>2, <3>1
  <2>5. got \in {"yes", "below"} => \A i \in 1..Len(next.todo) : of <= next.todo[i].holder
    <3>1. CASE got = "yes"
      BY <1>1, <3>1
    <3>2. CASE got = "below"
      <4> DEFINE t == s \o rest
      <4>1. /\ \A i \in 1..Len(s) : t[i] = s[i]
            /\ \A i \in 1..Len(rest) : t[Len(s) + i] = rest[i]
            /\ \A i \in 1..Len(t) : i \in 1..Len(s) \/ (i - Len(s) \in 1..Len(rest) /\ i = Len(s) + (i - Len(s)))
        BY <2>s, SeqParts DEF Todo
      <4> HIDE DEF t
      <4>2. \A i \in 1..Len(t) : of <= t[i].holder
        <5> SUFFICES ASSUME NEW i \in 1..Len(t) PROVE of <= t[i].holder
          OBVIOUS
        <5>1. CASE i \in 1..Len(s)
          BY <2>s, <4>1, <5>1
        <5>2. CASE i - Len(s) \in 1..Len(rest) /\ i = Len(s) + (i - Len(s))
          <6>1. t[i] = rest[i - Len(s)]
            BY <4>1, <5>2
          <6> QED BY <5>2, <6>1
        <5> QED BY <4>1, <5>1, <5>2
      <4> QED BY <1>1, <3>2, <4>2 DEF t
    <3> QED BY <3>1, <3>2
  <2>6. ASSUME got = "no" PROVE WalkOK(h, pr, next)
    <3>1. next.todo = <<>> /\ next.answer = "no" /\ yes = "no"
      BY <1>1, <2>1, <2>2, <2>6, <2>y
    <3>2. \A i \in 1..Len(<<>>) : of <= <<>>[i].holder
      OBVIOUS
    <3> QED BY <1>1, <2>e, <2>o, <3>1, <3>2
  <2>7. ASSUME got \in {"yes", "below"}, next.todo = <<>> PROVE WalkOK(h, pr, next)
    <3>1. next.answer = "yes" /\ yes = "yes"
      BY <1>1, <2>3, <2>4, <2>7
    <3> QED BY <1>1, <2>5, <2>7, <2>e, <2>o, <3>1
  <2>8. ASSUME got \in {"yes", "below"}, next.todo # <<>> PROVE WalkOK(h, pr, next)
    <3>1. next.answer = "none"
      BY <1>1, <2>8
    <3> QED BY <1>1, <2>4, <2>5, <2>8, <2>e, <2>o, <3>1
  <2> QED BY <2>1, <2>6, <2>7, <2>8 DEF next, got
<1> QED BY <1>2, <1>3

\* One property, in either of two sets of properties of one shape.
LEMMA SameExpected ==
    ASSUME NEW h, NEW pr, NEW ps, NEW mk, HeapOK(h), PropsOK(h, pr, mk), PropsOK(h, ps, mk),
           SameShape(pr, ps), NEW p \in PropId, NEW a \in Accessors, IsHeld(pr, p)
    PROVE  /\ Expected(h, pr)[<<p, a>>] = Expected(h, ps)[<<p, a>>]
           /\ Expected(h, pr)[<<p, a>>] \in {"yes", "no"}
<1>1. TypedProps(h, pr) /\ TypedProps(h, ps) /\ h \in Heaps
  BY DEF TypedProps, HeapOK, WellFormed, PropsOK
<1> DEFINE f == Expected(h, pr)
           g == Expected(h, ps)
           v == <<p, a>>
<1>2. IsExpected(h, pr, f) /\ IsExpected(h, ps, g)
  BY <1>1, ExpectedExists
<1>3. v \in Pairs /\ v[1] = p /\ v[2] = a
  BY DEF Pairs
<1> HIDE DEF f, g, v
<1>4. f[v] = g[v]
  BY <1>1, <1>2, <1>3, AnswersAreOne
<1>5. f[v] = Said(h, pr, f, p, a)
  BY <1>2, <1>3 DEF IsExpected
<1>6. f[v] \in {"yes", "no"}
  BY <1>5 DEF Said, Answer
<1> QED BY <1>4, <1>6 DEF f, g, v

\* The place that a loop is to come to, when its holder keeps its source.
LEMMA SameAwaited ==
    ASSUME NEW h, NEW pr, NEW ps, NEW mk, HeapOK(h), PropsOK(h, pr, mk), PropsOK(h, ps, mk),
           SameShape(pr, ps), NEW item, item.holder \in PropId, item.key \in Keys,
           pr[item.holder].next[item.key] # None, pr[item.holder].src # NoSource,
           Holds(h, pr[item.holder].src, "map"), ps[item.holder].src = pr[item.holder].src
    PROVE  Expected(h, ps)[Awaited(h, ps, item)] = Expected(h, pr)[Awaited(h, pr, item)]
<1> DEFINE p == item.holder
           k == item.key
           c == pr[p].next[k]
           a == [prev |-> Curr(h, pr[p].src), ref |-> k]
<1>1. Awaited(h, pr, item) = <<c, a>> /\ Awaited(h, ps, item) = <<c, a>>
  BY DEF Awaited, SameShape
<1>2. k \in Below
  BY ReferencesDiffer
<1>3. c \in PropId /\ IsHeld(pr, c)
  BY <1>2, Held DEF IsHeld
<1>4. a \in Accessors
  <2>1. pr[p].src \in Accessors /\ Curr(h, pr[p].src) # Null
    BY DEF PropsOK, Properties, Holds
  <2>2. <<c, a>> \in Asked(h, pr, p, pr[p].src)
    BY DEF Asked
  <2>3. TypedProps(h, pr)
    BY DEF TypedProps, HeapOK, WellFormed, PropsOK
  <2>4. <<c, a>> \in Pairs
    BY <2>1, <2>2, <2>3, AskedArePairs
  <2> QED BY <2>4 DEF Pairs
<1> HIDE DEF a, c
<1> QED BY <1>1, <1>3, <1>4, SameExpected

\* ok() comes to its next key: it hands down the source that the description has
\* in mind, and what it still had to come to is what it was.
LEMMA VisitExact ==
    ASSUME IInv, DefaultsFit(prop), WalkOK(heap, prop, call), Visit
    PROVE  DefaultsFit(prop') /\ WalkOK(heap', prop', call')
<1> DEFINE p == Head(call.todo).holder
           k == Head(call.todo).key
           c == prop[p].next[k]
           rest == Tail(call.todo)
           a == [prev |-> Curr(heap, prop[p].src), ref |-> k]
           of == call.of
           f == Expected(heap, prop)
           g == Expected(heap, prop')
           step == IF call.op = "ok" THEN Stepped(heap, prop[p].src, k)
                   ELSE ConstStepped(heap, prop[p].src, k)
<1>1. /\ HeapOK(heap) /\ PropsOK(heap, prop, made) /\ TodoOK(heap, prop, call.op, call.todo)
      /\ call.todo \in Todo /\ call.todo # <<>>
  BY DEF IInv, CallOK, Visit
<1>2. heap' = heap /\ PropsOK(heap, prop', made)
  BY VisitOK
<1>3. /\ prop' = [prop EXCEPT ![c] = [@ EXCEPT !.src = step.src]]
      /\ call' = Went(call.op, of, rest, prop', c, Came(call.op, heap', prop', c))
  BY DEF Visit
<1>4. /\ Len(call.todo) \in Nat /\ 1 \in 1..Len(call.todo) /\ Head(call.todo) = call.todo[1]
      /\ p \in PropId /\ k \in Keys /\ rest \in Todo /\ Len(rest) = Len(call.todo) - 1
      /\ \A i \in 1..Len(rest) : /\ i + 1 \in 1..Len(call.todo) /\ rest[i] = call.todo[i + 1]
                                 /\ rest[i].holder \in PropId /\ rest[i].key \in Keys
                                 /\ rest[i].holder <= p
      /\ prop[p].src # NoSource /\ c # None
      /\ call.op = "ok" => Holds(heap, prop[p].src, "map")
      /\ c \in PropId /\ p \in Nat /\ c \in Nat /\ p < c /\ prop[c].kind \in {"map", "leaf"}
  BY <1>1, NextKey
<1>5. call.op = "ok" => step.src = a
  BY <1>4 DEF Stepped, Resolved
<1> HIDE DEF p, k, c, rest, step
<1>6. SameShape(prop, prop') /\ prop'[c].src = step.src
      /\ \A q \in PropId : q # c => prop'[q].src = prop[q].src
  <2>1. prop \in [PropId -> Properties] /\ prop[c] \in Properties
    BY <1>1, <1>4 DEF PropsOK
  <2> QED BY <1>3, <1>4, <2>1 DEF Properties, SameShape
<1>7. DefaultsFit(prop')
  BY <1>6 DEF DefaultsFit, SameShape
<1>8. CASE call.op # "ok"
  <2>1. call'.op = call.op
    BY <1>3 DEF Went
  <2> QED BY <1>7, <1>8, <2>1 DEF WalkOK
<1>9. CASE call.op = "ok"
  <2>1. /\ IsHeld(prop, of) /\ of \in PropId /\ prop[of].src # NoSource
        /\ \A i \in 1..Len(call.todo) : of <= call.todo[i].holder
        /\ f[<<of, prop[of].src>>] = "yes" <=> AllYes(heap, prop, f, call.todo)
    BY <1>1, <1>9 DEF WalkOK, OnTheWay
  <2>2. of \in Nat /\ of <= p /\ of <= c /\ of # c
    <3>1. of <= p
      BY <1>4, <2>1 DEF p
    <3> QED BY <1>4, <2>1, <3>1, PropsAssumption DEF PropId
  <2>3. \A i \in 1..Len(rest) : /\ of <= rest[i].holder
                                /\ rest[i].holder # c /\ rest[i].holder \in PropId
    <3> SUFFICES ASSUME NEW i \in 1..Len(rest)
                 PROVE  /\ of <= rest[i].holder
                        /\ rest[i].holder # c /\ rest[i].holder \in PropId
      OBVIOUS
    <3>1. /\ i + 1 \in 1..Len(call.todo) /\ rest[i] = call.todo[i + 1]
          /\ rest[i].holder \in PropId /\ rest[i].holder <= p
      BY <1>4
    <3>2. rest[i].holder \in Nat
      BY <3>1, PropsAssumption DEF PropId
    <3> QED BY <1>4, <2>1, <3>1, <3>2
  <2>4. prop'[of].src = prop[of].src /\ IsHeld(prop', of)
    BY <1>6, <2>1, <2>2 DEF IsHeld, SameShape
  <2>5. f[<<of, prop[of].src>>] = g[<<of, prop'[of].src>>] /\ g[<<of, prop'[of].src>>] \in {"yes", "no"}
    <3>1. prop[of].src \in Accessors
      BY <1>1, <2>1 DEF PropsOK, Properties
    <3> QED BY <1>1, <1>2, <1>6, <2>1, <2>4, <3>1, SameExpected
  <2>6. f[Awaited(heap, prop, call.todo[1])] = g[<<c, prop'[c].src>>]
    <3>1. Awaited(heap, prop, call.todo[1]) = <<c, a>>
      BY <1>4 DEF Awaited, p, k, c
    <3>2. prop'[c].src = a /\ a \in Accessors
      <4>1. prop'[c].src = a /\ a # NoSource
        <5>1. a \in Accessors
          <6>1. prop[p].src \in Accessors /\ Curr(heap, prop[p].src) # Null
            BY <1>1, <1>4, <1>9 DEF PropsOK, Properties, Holds
          <6>2. <<c, a>> \in Asked(heap, prop, p, prop[p].src)
            BY <1>4 DEF Asked, c
          <6>3. TypedProps(heap, prop)
            BY <1>1 DEF TypedProps, HeapOK, WellFormed, PropsOK
          <6>4. <<c, a>> \in Pairs
            BY <1>4, <6>1, <6>2, <6>3, AskedArePairs
          <6> QED BY <6>4 DEF Pairs
        <5> QED BY <1>5, <1>6, <1>9, <5>1, NoSourceIsNoAccessor
      <4> QED BY <1>2, <1>4, <4>1 DEF PropsOK, Properties
    <3>3. IsHeld(prop, c)
      BY <1>4, ReferencesDiffer DEF IsHeld, c
    <3> QED BY <1>1, <1>2, <1>4, <1>6, <3>1, <3>2, <3>3, SameExpected
  <2>7. ASSUME NEW i \in 1..Len(rest)
        PROVE  f[Awaited(heap, prop, rest[i])] = g[Awaited(heap, prop', rest[i])]
    <3>1. /\ i + 1 \in 1..Len(call.todo) /\ rest[i] = call.todo[i + 1]
          /\ rest[i].holder \in PropId /\ rest[i].key \in Keys /\ rest[i].holder # c
      BY <1>4, <2>3
    <3>2. /\ prop[rest[i].holder].src # NoSource
          /\ prop[rest[i].holder].next[rest[i].key] # None
          /\ Holds(heap, prop[rest[i].holder].src, "map")
      BY <1>1, <1>9, <3>1 DEF TodoOK
    <3>3. prop'[rest[i].holder].src = prop[rest[i].holder].src
      BY <1>6, <3>1
    <3> QED BY <1>1, <1>2, <1>6, <3>1, <3>2, <3>3, SameAwaited
  <2>8. AllYes(heap, prop, f, call.todo) <=> /\ g[<<c, prop'[c].src>>] = "yes"
                                             /\ AllYes(heap, prop', g, rest)
    <3> DEFINE todo == call.todo
               yes(i) == f[Awaited(heap, prop, todo[i])] = "yes"
    <3>1. AllYes(heap, prop, f, todo) <=> \A i \in 1..Len(todo) : yes(i)
      BY DEF AllYes
    <3>2. yes(1) <=> g[<<c, prop'[c].src>>] = "yes"
      BY <2>6
    <3>3. ASSUME NEW i \in 1..Len(rest)
          PROVE  i + 1 \in 1..Len(todo) /\ (yes(i + 1) <=> g[Awaited(heap, prop', rest[i])] = "yes")
      <4>1. i + 1 \in 1..Len(todo) /\ rest[i] = todo[i + 1]
        BY <1>4
      <4> QED BY <2>7, <4>1
    <3> HIDE DEF yes
    <3>4. \A i \in 1..Len(todo) : i = 1 \/ (i - 1 \in 1..Len(rest) /\ (i - 1) + 1 = i)
      BY <1>4
    <3>5. (\A i \in 1..Len(todo) : yes(i)) <=> yes(1) /\ \A i \in 1..Len(rest) : yes(i + 1)
      <4> HIDE DEF todo
      <4>1. 1 \in 1..Len(todo) /\ \A i \in 1..Len(rest) : i + 1 \in 1..Len(todo)
        BY <1>4, <3>3 DEF todo
      <4>2. ASSUME yes(1), \A i \in 1..Len(rest) : yes(i + 1), NEW i \in 1..Len(todo)
            PROVE  yes(i)
        <5>1. CASE i = 1
          BY <4>2, <5>1
        <5>2. CASE i - 1 \in 1..Len(rest) /\ (i - 1) + 1 = i
          BY <4>2, <5>2
        <5> QED BY <3>4, <5>1, <5>2
      <4> QED BY <4>1, <4>2
    <3> QED BY <3>1, <3>2, <3>3, <3>5 DEF AllYes
  <2>9. call' = Went("ok", of, rest, prop', c, OkOf(heap, prop', c))
    BY <1>2, <1>3, <1>9 DEF Came
  <2>10. prop'[c].kind \in {"map", "leaf"}
    BY <1>4, <1>6 DEF SameShape
  <2> HIDE DEF of, f, g
  <2>11. WalkOK(heap, prop', Went("ok", of, rest, prop', c, OkOf(heap, prop', c)))
    <3> DEFINE ps == prop'
    <3>1. g[<<of, ps[of].src>>] = "yes" <=> /\ g[<<c, ps[c].src>>] = "yes"
                                            /\ AllYes(heap, ps, g, rest)
      BY <2>1, <2>5, <2>8
    <3>2. /\ PropsOK(heap, ps, made) /\ DefaultsFit(ps) /\ IsHeld(ps, of) /\ of \in PropId
          /\ ps[of].src # NoSource /\ \A i \in 1..Len(rest) : of <= rest[i].holder
          /\ of <= c /\ ps[c].kind \in {"map", "leaf"} /\ g[<<of, ps[of].src>>] \in {"yes", "no"}
          /\ g = Expected(heap, ps)
      BY <1>2, <1>7, <2>1, <2>2, <2>3, <2>4, <2>5, <2>10 DEF g
    <3> HIDE DEF ps
    <3>3. WalkOK(heap, ps, Went("ok", of, rest, ps, c, OkOf(heap, ps, c)))
      BY <1>1, <1>4, <3>1, <3>2, WentExact
    <3> QED BY <3>3 DEF ps
  <2> QED BY <1>2, <1>7, <2>9, <2>11
<1> QED BY <1>8, <1>9

\* ok() begins at a property that someone holds.
LEMMA BeginExact ==
    ASSUME IInv, DefaultsFit(prop), NEW n \in AllNodes, NEW op \in {"ok", "report"}, Begin(op, n)
    PROVE  DefaultsFit(prop') /\ WalkOK(heap', prop', call')
<1> DEFINE c == CurrProp(n)
           f == Expected(heap, prop)
           e == f[<<c, prop[c].src>>]
<1>1. /\ HeapOK(heap) /\ PropsOK(heap, prop, made) /\ n.prev \in PropId /\ n.ref \in Below
      /\ c # None
  BY NodesOK, ReferencesDiffer DEF IInv, NodeOK, Begin
<1>2. c \in PropId /\ prop[c].kind \in {"map", "leaf"} /\ IsHeld(prop, c)
  BY <1>1, Held DEF CurrProp, IsHeld
<1>3. /\ heap' = heap /\ prop' = prop
      /\ call' = Went(op, c, <<>>, prop, c, Came(op, heap, prop, c))
  BY DEF Begin
<1> HIDE DEF c
<1>4. CASE op = "report"
  <2>1. call'.op = "report"
    BY <1>3, <1>4 DEF Went
  <2> QED BY <1>3, <2>1 DEF WalkOK
<1>5. CASE op = "ok" /\ prop[c].src = NoSource
  <2>1. call' = Went("ok", c, <<>>, prop, c, "null")
    BY <1>3, <1>5 DEF Came, OkOf
  <2>2. call'.answer = "null" /\ call'.todo = <<>>
    BY <2>1 DEF Went
  <2> QED BY <1>3, <2>2 DEF WalkOK
<1>6. CASE op = "ok" /\ prop[c].src # NoSource
  <2>1. e \in {"yes", "no"}
    <3>1. prop[c].src \in Accessors /\ SameShape(prop, prop)
      BY <1>1, <1>2, <1>6 DEF PropsOK, Properties, SameShape
    <3> QED BY <1>1, <1>2, <3>1, SameExpected
  <2>2. AllYes(heap, prop, f, <<>>)
    BY DEF AllYes
  <2>3. e = "yes" <=> e = "yes" /\ AllYes(heap, prop, f, <<>>)
    BY <2>2
  <2>4. <<>> \in Todo /\ (\A i \in 1..Len(<<>>) : c <= <<>>[i].holder) /\ c <= c
    BY <1>2 DEF Todo, PropId
  <2>5. WalkOK(heap, prop, Went("ok", c, <<>>, prop, c, OkOf(heap, prop, c)))
    <3> DEFINE rest == <<>>
    <3>1. rest \in Todo /\ (\A i \in 1..Len(rest) : c <= rest[i].holder) /\ c <= c
          /\ (e = "yes" <=> e = "yes" /\ AllYes(heap, prop, f, rest))
      BY <2>3, <2>4
    <3> HIDE DEF rest
    <3>2. WalkOK(heap, prop, Went("ok", c, rest, prop, c, OkOf(heap, prop, c)))
      BY <1>1, <1>2, <1>6, <2>1, <3>1, WentExact
    <3> QED BY <3>2 DEF rest
  <2> QED BY <1>3, <1>6, <2>5 DEF Came
<1> QED BY <1>4, <1>5, <1>6

\* A property that is described is new, or what it was.
LEMMA DescribedDefaults ==
    ASSUME IInv, DefaultsFit(prop), NEW n, NodeOK(prop, n), NEW kind \in {"map", "leaf"},
           NEW type \in Types \cup {"none"}, CanResolve(n, kind, type)
    PROVE  DefaultsFit(PropsAfter(n, kind, type))
<1> DEFINE c == made + 1
           s == SourceAfter(n)
           x == Property(kind, type, n.prev, n.ref, s)
           m == Holding(prop[n.prev], n.ref, c)
<1>1. CASE IsThere(n, kind, type)
  BY <1>1 DEF PropsAfter
<1>2. CASE ~IsThere(n, kind, type)
  <2>1. /\ c \in PropId /\ n.prev \in PropId /\ n.prev # c
        /\ prop \in [PropId -> Properties] /\ prop[n.prev] \in Properties
    <3>1. Added(prop, made, n, kind, s, PropsAfter(n, kind, type))
      BY <1>2, AddedOK DEF IInv
    <3> QED BY <3>1 DEF Added, IInv, PropsOK
  <2>2. PropsAfter(n, kind, type) = [prop EXCEPT ![c] = x, ![n.prev] = m]
    <3>1. [prop EXCEPT ![c] = x, ![n.prev] = Holding(@, n.ref, c)]
             = [prop EXCEPT ![c] = x, ![n.prev] = m]
      BY <2>1
    <3> QED BY <1>2, <3>1 DEF PropsAfter, SourceAfter
  <2>3. x.default = FALSE
    BY DEF Property
  <2>4. m.kind = prop[n.prev].kind /\ m.default = prop[n.prev].default
    BY <2>1 DEF Holding, Properties
  <2> HIDE DEF x, m, c
  <2> QED BY <2>1, <2>2, <2>3, <2>4 DEF DefaultsFit
<1> QED BY <1>1, <1>2

\* Describing gives a default to nothing but a leaf.
LEMMA DescribeExact ==
    ASSUME IInv, DefaultsFit(prop), NEW n \in AllNodes,
           \/ \E m \in Nodes, k \in Keys, req \in BOOLEAN : Index(n, k, req, m)
           \/ \E t \in Types : Get(n, t) \/ \E default \in BOOLEAN : Is(n, t, default)
    PROVE  DefaultsFit(prop') /\ WalkOK(heap', prop', call')
<1>1. NodeOK(prop, n)
  BY NodesOK
<1>2. ASSUME NEW m \in Nodes, NEW k \in Keys, NEW req \in BOOLEAN, Index(n, k, req, m)
      PROVE  DefaultsFit(prop') /\ call' = Idle
  <2> DEFINE c == ResolvedProp(n, "map", "none")
             ps == PropsAfter(n, "map", "none")
  <2>1. Describe(n, "map", "none")
    BY <1>2 DEF Index
  <2>2. ps \in [PropId -> Properties] /\ c \in PropId /\ call' = Idle
    BY <1>1, <2>1, DescribeOK DEF PropsOK
  <2>3. DefaultsFit(ps)
    BY <1>1, <2>1, DescribedDefaults DEF Describe
  <2>4. prop' = IF req THEN [ps EXCEPT ![c].needs = @ \cup {k}] ELSE ps
    BY <1>2 DEF Index
  <2> HIDE DEF c, ps
  <2>5. \A p \in PropId : prop'[p].kind = ps[p].kind /\ prop'[p].default = ps[p].default
    <3>1. ps[c] \in Properties
      BY <2>2
    <3> QED BY <2>2, <2>4, <3>1 DEF Properties
  <2> QED BY <2>2, <2>3, <2>5 DEF DefaultsFit
<1>3. ASSUME NEW t \in Types, Get(n, t) \/ \E default \in BOOLEAN : Is(n, t, default)
      PROVE  DefaultsFit(prop') /\ call' = Idle
  <2> DEFINE c == ResolvedProp(n, "leaf", t)
             ps == PropsAfter(n, "leaf", t)
  <2>1. Describe(n, "leaf", t)
    BY <1>3 DEF Is, Get
  <2>2. ps \in [PropId -> Properties] /\ c \in PropId /\ ps[c].kind = "leaf" /\ call' = Idle
    BY <1>1, <2>1, DescribeOK DEF PropsOK
  <2>3. DefaultsFit(ps)
    BY <1>1, <2>1, DescribedDefaults DEF Describe
  <2>4. \/ prop' = ps \/ prop' = [ps EXCEPT ![c].default = TRUE]
        \/ prop' = [ps EXCEPT ![n.prev].needs = @ \cup {n.ref}]
    BY <1>3 DEF Is, Get
  <2> HIDE DEF c, ps
  <2>5. n.prev \in PropId /\ ps[n.prev] \in Properties /\ ps[c] \in Properties
    BY <1>1, <2>2 DEF NodeOK
  <2>6. \A p \in PropId : /\ prop'[p].kind = ps[p].kind
                          /\ ps[p].kind # "leaf" => prop'[p].default = ps[p].default
    BY <2>2, <2>4, <2>5 DEF Properties
  <2> QED BY <2>2, <2>3, <2>6 DEF DefaultsFit
<1>4. DefaultsFit(prop') /\ call' = Idle
  BY <1>2, <1>3
<1> QED BY <1>4 DEF WalkOK, Idle

-----------------------------------------------------------------------------
(***************************************************************************)
(* The invariant                                                           *)
(***************************************************************************)

OkInv == DefaultsFit(prop) /\ WalkOK(heap, prop, call)

LEMMA InitExact == Init => OkInv
<1> SUFFICES ASSUME Init PROVE OkInv
  OBVIOUS
<1>1. \A p \in PropId : prop[p].default = FALSE
  BY DEF Init, Property
<1>2. call.op = "idle"
  BY DEF Init, Idle
<1> QED BY <1>1, <1>2 DEF OkInv, DefaultsFit, WalkOK

LEMMA NextExact ==
    ASSUME IInv, OkInv, [Next]_vars
    PROVE  OkInv'
<1> USE DEF OkInv
<1>1. ASSUME NEW n \in AllNodes, NEW m \in Nodes, NEW k \in Keys, NEW req \in BOOLEAN,
             Index(n, k, req, m)
      PROVE  OkInv'
  BY <1>1, DescribeExact
<1>2. ASSUME NEW n \in AllNodes, NEW t \in Types,
             (\E default \in BOOLEAN : Is(n, t, default)) \/ Get(n, t)
      PROVE  OkInv'
  BY <1>2, DescribeExact
<1>3. ASSUME NEW n \in AllNodes, Ok(n) \/ Report(n)
      PROVE  OkInv'
  BY <1>3, BeginExact DEF Ok, Report
<1>4. ASSUME Visit
      PROVE  OkInv'
  BY <1>4, VisitExact
<1>5. ASSUME Return
      PROVE  OkInv'
  BY <1>5 DEF Return, Idle, WalkOK
<1>6. ASSUME UNCHANGED vars
      PROVE  OkInv'
  BY <1>6 DEF vars
<1> QED BY <1>1, <1>2, <1>3, <1>4, <1>5, <1>6 DEF Next

\* However a program describes, asks and reports before, an answer of Node::ok is
\* what the description says of the document as it is: the walk of PolyMapProp::ok,
\* which stops at the first "no" and hands sources down as it goes, misses nothing
\* and sees no stale place.
THEOREM OkAnswersExactly == Spec => []OkIsExact
<1>1. IInv /\ OkInv /\ [Next]_vars => OkInv'
  BY NextExact
<1>2. OkInv => OkIsExact
  BY DEF OkInv, WalkOK, OnTheWay, OkIsExact
<1> QED BY <1>1, <1>2, InitExact, Inductive, PTL DEF Spec
=============================================================================
