------------------------- MODULE EntrySourceProofs -------------------------
(***************************************************************************)
(* EntrySource for every set of keys, values and handles and any bounds:   *)
(* whatever calls are made, entries form trees whose slots fit their       *)
(* kinds, accessors never throw, a call changes one place at most, and the *)
(* entries and accessors do to a document what Document says.              *)
(***************************************************************************)
EXTENDS EntrySourceRefinement, EntryHeapProofs, SequenceTheorems

USE DEF RootRef, Root

\* What get() yields through another source is not changed by an assignment.
LEMMA GrowthKeepsReadings ==
    ASSUME NEW h, NEW a, NEW k, CanGrow(h, a, k), NEW b, IsPlace(h, b), a # b
    PROVE  Reading(Grown(h, a, k), b) = Reading(h, b)
<1> DEFINE g == Grown(h, a, k)
           c == Curr(h, b)
<1>1. Curr(g, b) = c /\ c # Fresh(h)
  BY GrowthKeepsLookups
<1>2. IsGrown(h, a, k) /\ WellFormed(h)
  BY MakeAndAssign DEF CanGrow
<1>3. c # Null => c \in Id
  BY <1>2, FoundIsMade
<1>4. c # Null => g.kind[c] = h.kind[c]
  BY <1>1, <1>2, <1>3 DEF IsGrown, WellFormed, Heaps
<1>5. g.val = h.val
  BY <1>2 DEF IsGrown
<1> HIDE DEF c, g
<1> QED BY <1>1, <1>4, <1>5 DEF Reading, IsScalar, Holds, Load, c, g

LEMMA ResolveKeepsReadings ==
    ASSUME NEW h, NEW a, NEW k, WellFormed(h), IsPlace(h, a), k \in Makeable, HasRoom(h, a, k),
           NEW b, IsPlace(h, b), a # b
    PROVE  /\ Reading(Resolve(h, a, k), b) = Reading(h, b)
           /\ Curr(Resolve(h, a, k), b) # Null => Curr(Resolve(h, a, k), b) # Resolved(h, a, k)
<1>1. CASE Holds(h, a, k)
  <2>1. Resolve(h, a, k) = h /\ Resolved(h, a, k) = Curr(h, a) /\ Curr(h, a) # Null
    BY <1>1 DEF Resolve, Resolved, Holds
  <2>2. ASSUME Curr(h, b) # Null PROVE Curr(h, b) # Curr(h, a)
    <3>1. /\ Curr(h, a) = h.slot[a.prev][a.ref] /\ Curr(h, b) = h.slot[b.prev][b.ref]
          /\ Curr(h, a) \in Id
          /\ a.prev \in Id /\ a.ref \in Refs /\ b.prev \in Id /\ b.ref \in Refs
      BY <2>1, <2>2, Lookup, FoundIsMade
    <3>2. a.prev # b.prev \/ a.ref # b.ref
      BY DifferentPlaces
    <3> QED BY <3>1, <3>2 DEF WellFormed, NoSharing
  <2> QED BY <2>1, <2>2
<1>2. CASE ~Holds(h, a, k)
  <2>1. CanGrow(h, a, k)
    BY <1>2 DEF CanGrow, HasRoom
  <2>2. Resolve(h, a, k) = Grown(h, a, k) /\ Resolved(h, a, k) = Fresh(h)
    BY <1>2 DEF Resolve, Resolved, Grown
  <2> QED BY <2>1, <2>2, GrowthKeepsReadings, GrowthKeepsLookups
<1> QED BY <1>1, <1>2

LEMMA StoreKeepsReadings ==
    ASSUME NEW h, NEW a, NEW v \in Values, WellFormed(h), IsPlace(h, a), HasRoom(h, a, "scalar"),
           NEW b, IsPlace(h, b), a # b
    PROVE  Reading(Store(h, a, v), b) = Reading(h, b)
<1> DEFINE g == Resolve(h, a, "scalar")
           e == Resolved(h, a, "scalar")
           s == Store(h, a, v)
<1>1. ResolveOK(h, a, "scalar")
  BY ResolvePreserves DEF Makeable
<1>2. WellFormed(g) /\ e \in Id
  BY <1>1 DEF ResolveOK
<1>3. Reading(g, b) = Reading(h, b) /\ (Curr(g, b) # Null => Curr(g, b) # e)
  BY ResolveKeepsReadings DEF Makeable
<1>4. IsPlace(g, b)
  BY ResolveKeepsPlaces DEF Makeable
<1>5. s = [g EXCEPT !.val = [g.val EXCEPT ![e] = v]]
  BY <1>2 DEF Store, WellFormed, Heaps
<1> HIDE DEF g, e, s
<1>6. s.kind = g.kind /\ s.slot = g.slot /\ s.val = [g.val EXCEPT ![e] = v]
  BY <1>2, <1>5 DEF WellFormed, Heaps
<1>7. Curr(s, b) = Curr(g, b)
  BY <1>6 DEF Curr, Stored, SlotOf
<1>8. Curr(g, b) # Null => s.val[Curr(g, b)] = g.val[Curr(g, b)]
  <2> SUFFICES ASSUME Curr(g, b) # Null PROVE s.val[Curr(g, b)] = g.val[Curr(g, b)]
    OBVIOUS
  <2>1. Curr(g, b) \in Id
    BY <1>2, <1>4, FoundIsMade
  <2>2. g.val \in [Id -> Values]
    BY <1>2 DEF WellFormed, Heaps
  <2> QED BY <1>2, <1>3, <1>6, <2>1, <2>2
<1>9. Reading(s, b) = Reading(g, b)
  BY <1>6, <1>7, <1>8 DEF Reading, IsScalar, Holds, Load
<1> QED BY <1>3, <1>9 DEF s

-----------------------------------------------------------------------------
(***************************************************************************)
(* The inductive invariant                                                 *)
(***************************************************************************)

IInv ==
    /\ WellFormed(heap)
    /\ acc \in [Handles -> Accessors \cup {NoSource}]
    /\ \A d \in Handles : acc[d] # NoSource => IsPlace(heap, acc[d])

\* What Source::make builds: the entry it was given, and at most one below it.
LEMMA MadeEntries ==
    ASSUME NEW k \in Makeable, NEW v \in Values, NEW r \in FirstRefs(k) \cup {Absent},
           NEW h, h = MadeHeap(k, v, r)
    PROVE  LET filled == k # "scalar" /\ r # Absent
           IN  /\ {1, 2, 3} \subseteq Id /\ RootRef \in Refs
               /\ filled => r \in Refs /\ (k = "map" => r \in Keys) /\ (k = "list" => r = 0)
               /\ h.used = IF filled THEN 3 ELSE 2
               /\ \A e \in Id : h.kind[e] = IF e = 1 THEN "root" ELSE IF e = 2 THEN k
                                            ELSE IF e = 3 /\ filled THEN "scalar" ELSE "free"
               /\ \A e \in Id, x \in Refs :
                     h.slot[e][x] = IF e = 1 /\ x = RootRef THEN 2
                                    ELSE IF e = 2 /\ filled /\ x = r THEN 3 ELSE Absent
               /\ \A e \in Id : h.val[e] = IF e = (IF k = "scalar" THEN 2 ELSE 3) THEN v ELSE Nil
               /\ h \in Heaps
<1> DEFINE filled == k # "scalar" /\ r # Absent
<1>1. {1, 2, 3} \subseteq Id /\ Root \in Id /\ Top = 2 /\ Item = 3
  BY BoundsAssumption DEF Id, Top, Item
<1>2. RootRef \in Indices /\ RootRef \in Refs
  BY BoundsAssumption DEF Indices, Refs
<1>3. filled => r \in Refs /\ (k = "map" => r \in Keys) /\ (k = "list" => r = 0)
  BY <1>2 DEF FirstRefs, Refs, Makeable
<1>4. /\ h.kind = [e \in Id |-> CASE e = Root -> "root"
                                  [] e = Top -> k
                                  [] e = Item /\ filled -> "scalar"
                                  [] OTHER -> "free"]
      /\ h.used = IF filled THEN 3 ELSE 2
  BY DEF MadeHeap, Top, Item
<1>5. /\ h.kind \in [Id -> Kinds] /\ h.used \in 0..MaxEntries
      /\ \A e \in Id : h.kind[e] = IF e = 1 THEN "root" ELSE IF e = 2 THEN k
                                   ELSE IF e = 3 /\ filled THEN "scalar" ELSE "free"
  BY <1>1, <1>4, BoundsAssumption DEF Kinds, Makeable
<1> DEFINE only(q, c) == [x \in Refs |-> IF x = q THEN c ELSE Absent]
<1>6. /\ h.slot = [e \in Id |-> CASE e = Root -> only(RootRef, Top)
                                  [] e = Top /\ filled -> only(r, Item)
                                  [] OTHER -> NoSlots]
      /\ h.val = [e \in Id |-> IF e = (IF k = "scalar" THEN Top ELSE Item) THEN v ELSE Nil]
  BY DEF MadeHeap
<1>7. /\ h.slot \in [Id -> [Refs -> Pointers \cup {Absent}]]
      /\ \A e \in Id, x \in Refs :
            h.slot[e][x] = IF e = 1 /\ x = RootRef THEN 2
                           ELSE IF e = 2 /\ filled /\ x = r THEN 3 ELSE Absent
  BY <1>1, <1>2, <1>6 DEF NoSlots, Pointers
<1>8. h.val \in [Id -> Values]
  BY <1>6, NilIsAValue
<1>9. h \in Heaps
  <2>1. h = [kind |-> h.kind, slot |-> h.slot, val |-> h.val, used |-> h.used]
    BY DEF MadeHeap
  <2> QED BY <2>1, <1>5, <1>7, <1>8 DEF Heaps
<1>10. \A e \in Id : h.val[e] = IF e = (IF k = "scalar" THEN 2 ELSE 3) THEN v ELSE Nil
  BY <1>1, <1>6
<1> QED BY <1>1, <1>2, <1>3, <1>4, <1>5, <1>7, <1>9, <1>10

\* Source::make builds a well-formed heap, and one accessor, of its root.
LEMMA MadeHeapOK ==
    ASSUME NEW k \in Makeable, NEW v \in Values, NEW r \in FirstRefs(k) \cup {Absent},
           NEW h, h = MadeHeap(k, v, r)
    PROVE  WellFormed(h) /\ IsPlace(h, RootAccessor)
<1> DEFINE filled == k # "scalar" /\ r # Absent
<1>1. {1, 2, 3} \subseteq Id /\ Root \in Id /\ RootRef \in Indices /\ RootRef \in Refs
  BY BoundsAssumption, MadeEntries DEF Indices
<1>2. filled => r \in Refs /\ (k = "map" => r \in Keys) /\ (k = "list" => r = 0)
  BY MadeEntries
<1>3. /\ h.used = IF filled THEN 3 ELSE 2
      /\ \A e \in Id : h.kind[e] = IF e = 1 THEN "root" ELSE IF e = 2 THEN k
                                   ELSE IF e = 3 /\ filled THEN "scalar" ELSE "free"
  BY MadeEntries
<1>4. \A e \in Id, x \in Refs :
         h.slot[e][x] = IF e = 1 /\ x = RootRef THEN 2
                        ELSE IF e = 2 /\ filled /\ x = r THEN 3 ELSE Absent
  BY MadeEntries
<1>5. h \in Heaps
  BY MadeEntries
<1>6. OnlyMadeEntries(h)
  BY <1>1, <1>3 DEF OnlyMadeEntries, Makeable, Id
<1>7. Acyclic(h)
  BY <1>1, <1>3, <1>4, PointersAreDistinct DEF Acyclic
<1>8. NoSharing(h)
  BY <1>1, <1>4, PointersAreDistinct DEF NoSharing
<1>9. SlotsFit(h)
  <2> SUFFICES ASSUME NEW e \in Id, NEW x \in Refs, h.slot[e][x] # Absent
               PROVE  /\ Takes(h, e, x)
                      /\ h.slot[e][x] = Null => h.kind[e] = "list"
                      /\ h.kind[e] = "list" => \A i \in Indices : i < x => h.slot[e][i] # Absent
    BY DEF SlotsFit
  <2>1. CASE e = 1 /\ x = RootRef
    BY <1>1, <1>3, <1>4, <2>1, PointersAreDistinct DEF Takes, CanNext
  <2>2. CASE e = 2 /\ filled /\ x = r
    <3>1. h.kind[e] = k /\ h.slot[e][x] = 3
      BY <1>1, <1>3, <1>4, <2>2, PointersAreDistinct
    <3>2. k \in {"map", "list"}
      BY <2>2 DEF Makeable
    <3>3. Takes(h, e, x)
      BY <3>1, <3>2, <2>2, <1>1, <1>2 DEF Takes, CanNext
    <3>4. k = "list" => x = 0 /\ \A i \in Indices : ~(i < 0)
      BY <2>2, <1>2 DEF Indices
    <3> QED BY <3>1, <3>3, <3>4, <1>1, PointersAreDistinct
  <2> QED BY <1>4, <2>1, <2>2
<1>10. IsPlace(h, RootAccessor)
  BY <1>1, <1>3 DEF IsPlace, RootAccessor, Accessors, Takes, CanNext
<1> QED BY <1>5, <1>6, <1>7, <1>8, <1>9, <1>10 DEF WellFormed

LEMMA InitIInv == Init => IInv
<1> SUFFICES ASSUME Init PROVE IInv
  OBVIOUS
<1>1. PICK k \in Makeable, v \in Values : \E r \in FirstRefs(k) \cup {Absent} : heap = MadeHeap(k, v, r)
  BY DEF Init, Makeable
<1>2. WellFormed(heap) /\ IsPlace(heap, RootAccessor)
  BY <1>1, MadeHeapOK
<1>3. PICK d \in Handles : acc = [x \in Handles |-> IF x = d THEN RootAccessor ELSE NoSource]
  BY DEF Init
<1> QED BY <1>2, <1>3 DEF IInv, IsPlace

\* The reference of a step fits the container the step resolves.
LEMMA ContainerTakes ==
    ASSUME NEW h, NEW e, NEW r \in Refs, h.kind[e] = ContainerFor(r)
    PROVE  Takes(h, e, r)
BY DEF ContainerFor, Takes, CanNext, Refs

LEMMA NextIInv == IInv /\ [Next]_vars => IInv'
<1> SUFFICES ASSUME IInv, [Next]_vars PROVE IInv'
  OBVIOUS
<1> USE DEF IInv
<1>1. ASSUME NEW s \in Handles, NEW d \in Handles, NEW r \in Refs, Next_(s, r, d)
      PROVE  IInv'
  <2> DEFINE k == ContainerFor(r)
             e == Resolved(heap, acc[s], k)
  <2>1. /\ IsPlace(heap, acc[s]) /\ k \in Makeable /\ HasRoom(heap, acc[s], k)
        /\ heap' = Resolve(heap, acc[s], k)
        /\ acc' = [acc EXCEPT ![d] = [prev |-> e, ref |-> r]]
    BY <1>1 DEF Next_, Makeable, ContainerFor
  <2> HIDE DEF k, e
  <2>2. ResolveOK(heap, acc[s], k)
    BY <2>1, ResolvePreserves
  <2>3. WellFormed(heap') /\ e \in Id /\ e <= heap'.used /\ heap'.kind[e] = k
    BY <2>1, <2>2 DEF ResolveOK, e
  <2>4. IsPlace(heap', [prev |-> e, ref |-> r])
    BY <2>3, ContainerTakes DEF IsPlace, Accessors, k
  <2>5. \A b : IsPlace(heap, b) => IsPlace(heap', b)
    BY <2>1, ResolveKeepsPlaces
  <2>6. acc' \in [Handles -> Accessors \cup {NoSource}]
    BY <2>1, <2>4 DEF IsPlace
  <2>7. \A x \in Handles : acc'[x] # NoSource => IsPlace(heap', acc'[x])
    BY <2>1, <2>4, <2>5
  <2> QED BY <2>3, <2>6, <2>7
<1>2. ASSUME NEW s \in Handles, NEW d \in Handles, NEW r \in Refs, ConstNext(s, r, d)
      PROVE  IInv'
  <2> DEFINE c == Curr(heap, acc[s])
  <2>1. heap' = heap /\ IsPlace(heap, acc[s])
    BY <1>2 DEF ConstNext
  <2>2. ASSUME c # Null, Has(heap, c, r) PROVE IsPlace(heap, [prev |-> c, ref |-> r])
    <3>1. c = heap.slot[acc[s].prev][acc[s].ref] /\ c \in Id
      <4>1. acc[s].prev \in Id /\ acc[s].ref \in Refs /\ SlotOf(heap, acc[s].prev, acc[s].ref) = acc[s].ref
        BY <2>1 DEF IsPlace, Takes, SlotOf, Accessors
      <4>2. heap.slot[acc[s].prev][acc[s].ref] \in Pointers \cup {Absent}
        BY <4>1 DEF WellFormed, Heaps
      <4> QED BY <4>1, <4>2, <2>2 DEF Curr, Stored, Pointers
    <3>2. c <= heap.used /\ heap.kind[c] # "root"
      BY <3>1, <2>1 DEF IsPlace, Accessors, WellFormed, Acyclic, OnlyMadeEntries, Id
    <3> QED BY <3>1, <3>2, <2>2 DEF IsPlace, Accessors, Has, Takes, CanNext
  <2>3. acc' = [acc EXCEPT ![d] = IF c # Null /\ Has(heap, c, r) THEN [prev |-> c, ref |-> r] ELSE NoSource]
    BY <1>2 DEF ConstNext
  <2> HIDE DEF c
  <2> QED BY <2>1, <2>2, <2>3 DEF IsPlace
<1>3. ASSUME NEW s \in Handles, NEW v \in Values, Set(s, v)
      PROVE  IInv'
  BY <1>3, StorePreserves DEF Set
<1>4. ASSUME NEW s \in Handles, Drop(s)
      PROVE  IInv'
  BY <1>4 DEF Drop
<1>5. CASE UNCHANGED vars
  BY <1>5 DEF vars
<1> QED BY <1>1, <1>2, <1>3, <1>4, <1>5 DEF Next

LEMMA Invariance == Spec => []IInv
BY InitIInv, NextIInv, PTL DEF Spec

-----------------------------------------------------------------------------
(***************************************************************************)
(* Theorems                                                                *)
(***************************************************************************)

\* Entries and accessors stay what the code declares them to be.
THEOREM TypeCorrect == Spec => []TypeOK
<1>1. IInv => TypeOK
  BY DEF IInv, TypeOK, WellFormed
<1> QED BY <1>1, Invariance, PTL

\* Whatever is resolved, set and dropped, in whatever order, entries form trees.
THEOREM EntriesFormTrees == Spec => []TreeShape
<1>1. IInv => TreeShape
  BY DEF IInv, TreeShape, WellFormed
<1> QED BY <1>1, Invariance, PTL

\* Maps hold keys, lists an unbroken run of indices, and only lists hold null.
THEOREM SlotsFitTheirKinds == Spec => []SlotsFitKind
<1>1. IInv => SlotsFitKind
  BY DEF IInv, SlotsFitKind, WellFormed
<1> QED BY <1>1, Invariance, PTL

\* No accessor ever meets an entry whose lookup or assignment throws.
THEOREM AccessorsAreSafe == Spec => []AccessorsNeverThrow
<1>1. IInv => AccessorsNeverThrow
  BY DEF IInv, AccessorsNeverThrow, IsPlace
<1> QED BY <1>1, Invariance, PTL

\* A call changes what get() yields at one place at most, for any number of
\* sources into a document of any size.
THEOREM CallsChangeOnePlace == Spec => OnePlaceAtATime
<1> DEFINE A == \A x, y \in Handles :
                   acc[x] # NoSource /\ acc[y] # NoSource /\ Changes(acc[x]) /\ Changes(acc[y])
                      => acc[x] = acc[y]
<1>1. IInv /\ [Next]_vars => A
  <2> SUFFICES ASSUME IInv, [Next]_vars,
                      NEW x \in Handles, NEW y \in Handles,
                      acc[x] # NoSource, acc[y] # NoSource, acc[x] # acc[y]
               PROVE  ~Changes(acc[x]) \/ ~Changes(acc[y])
    OBVIOUS
  <2>0. IsPlace(heap, acc[x]) /\ IsPlace(heap, acc[y]) /\ WellFormed(heap)
    BY DEF IInv
  <2>1. ASSUME NEW s \in Handles, NEW d \in Handles, NEW r \in Refs, Next_(s, r, d)
        PROVE  \A b : IsPlace(heap, b) /\ b # acc[s] => ~Changes(b)
    <3>1. /\ IsPlace(heap, acc[s]) /\ ContainerFor(r) \in Makeable
          /\ HasRoom(heap, acc[s], ContainerFor(r))
          /\ heap' = Resolve(heap, acc[s], ContainerFor(r))
      BY <2>1 DEF Next_, Makeable, ContainerFor, IInv
    <3> QED BY <2>0, <3>1, ResolveKeepsReadings DEF Changes
  <2>2. ASSUME NEW s \in Handles, NEW v \in Values, Set(s, v)
        PROVE  \A b : IsPlace(heap, b) /\ b # acc[s] => ~Changes(b)
    <3>1. /\ IsPlace(heap, acc[s]) /\ HasRoom(heap, acc[s], "scalar")
          /\ heap' = Store(heap, acc[s], v)
      BY <2>2 DEF Set, IInv
    <3> QED BY <2>0, <3>1, StoreKeepsReadings DEF Changes
  <2>3. CASE heap' = heap
    BY <2>3 DEF Changes
  <2> QED BY <2>0, <2>1, <2>2, <2>3 DEF Next, ConstNext, Drop, vars
<1> QED BY <1>1, Invariance, PTL DEF Spec, OnePlaceAtATime

-----------------------------------------------------------------------------
(***************************************************************************)
(* Paths                                                                   *)
(***************************************************************************)
IsPath(p) == p \in Seq(Refs)

\* q is p, or below it.
Within(q, p) == Len(p) <= Len(q) /\ \A i \in 1..Len(p) : q[i] = p[i]

\* Document speaks of what is strictly below a path.
LEMMA StrictlyBelowIsWithin ==
    ASSUME NEW p, NEW q, IsPath(p), IsPath(q)
    PROVE  D!StrictlyBelow(q, p) <=> Within(q, p) /\ q # p
<1>1. Len(p) \in Nat /\ Len(q) \in Nat /\ p \in [1..Len(p) -> Refs] /\ q \in [1..Len(q) -> Refs]
  BY LenProperties DEF IsPath
<1>2. D!StrictlyBelow(q, p) <=> D!IsPrefix(p, q) /\ p # q
  BY DEF D!StrictlyBelow, D!IsStrictPrefix
<1>3. D!IsPrefix(p, q) <=> Len(p) <= Len(q) /\ SubSeq(p, 1, Len(p)) = SubSeq(q, 1, Len(p))
  BY DEF D!IsPrefix
<1>4. ASSUME Len(p) <= Len(q)
      PROVE  SubSeq(p, 1, Len(p)) = SubSeq(q, 1, Len(p)) <=> \A i \in 1..Len(p) : q[i] = p[i]
  <2>1. SubSeq(p, 1, Len(p)) = [i \in 1..Len(p) |-> p[i]] /\ SubSeq(q, 1, Len(p)) = [i \in 1..Len(p) |-> q[i]]
    BY <1>1, <1>4 DEF IsPath
  <2> QED BY <2>1, <1>1
<1> QED BY <1>2, <1>3, <1>4 DEF Within

LEMMA EmptyIsAbove ==
    /\ IsPath(<<>>)
    /\ \A q : IsPath(q) => Within(q, <<>>)
    /\ \A p : IsPath(p) /\ Within(<<>>, p) => p = <<>>
BY LenProperties, EmptySeq DEF IsPath, Within

LEMMA Appending ==
    ASSUME NEW p, IsPath(p), NEW r \in Refs
    PROVE  /\ IsPath(Append(p, r)) /\ Append(p, r) # <<>>
           /\ Append(p, r) # p
           /\ ~Within(p, Append(p, r))
           /\ Within(p, p)
           /\ \A q, t : IsPath(q) /\ t \in Refs /\ Append(p, r) = Append(q, t) => p = q /\ r = t
           /\ \A q : IsPath(q) => (Within(Append(p, r), q) <=> Within(p, q) \/ q = Append(p, r))
<1> DEFINE s == Append(p, r)
<1>1. /\ Len(p) \in Nat /\ p \in [1..Len(p) -> Refs]
      /\ IsPath(s) /\ Len(s) = Len(p) + 1
      /\ \A i \in 1..Len(p) : s[i] = p[i]
      /\ s[Len(p) + 1] = r
  BY LenProperties, AppendProperties DEF IsPath
<1>2. ASSUME NEW q, NEW t, IsPath(q), t \in Refs, s = Append(q, t) PROVE p = q /\ r = t
  BY <1>2, AppendInjective DEF IsPath
<1> HIDE DEF s
<1>4. Len(p) \in Nat /\ Len(s) = Len(p) + 1
  BY <1>1
<1>3. ASSUME NEW q, IsPath(q)
      PROVE  Within(s, q) <=> Within(p, q) \/ q = s
  <2>1. Len(q) \in Nat /\ q \in [1..Len(q) -> Refs]
    BY <1>3, LenProperties DEF IsPath
  <2>2. CASE Len(q) <= Len(p)
    <3>1. q # s /\ \A i \in 1..Len(q) : i \in 1..Len(p)
      BY <1>1, <2>1, <2>2
    <3> QED BY <1>1, <2>1, <2>2, <3>1 DEF Within
  <2>3. CASE Len(q) = Len(p) + 1
    <3>1. Within(s, q) <=> \A i \in 1..Len(q) : s[i] = q[i]
      BY <1>1, <2>1, <2>3 DEF Within
    <3>2. (\A i \in 1..Len(q) : s[i] = q[i]) <=> q = s
      <4>1. (\A i \in 1..Len(q) : s[i] = q[i]) => q = s
        BY <1>1, <1>3, <2>3, SeqEqual DEF IsPath
      <4> QED BY <4>1
    <3>3. ~Within(p, q)
      BY <1>1, <2>1, <2>3 DEF Within
    <3> QED BY <3>1, <3>2, <3>3
  <2>4. CASE Len(q) > Len(p) + 1
    BY <1>1, <2>1, <2>4 DEF Within
  <2>5. Len(q) \in Nat
    BY <2>1
  <2>6. Len(q) <= Len(p) \/ Len(q) = Len(p) + 1 \/ Len(q) > Len(p) + 1
    BY <1>4, <2>5
  <2> QED BY <2>2, <2>3, <2>4, <2>6
<1>5. Len(s) # 0 /\ Len(s) # Len(p) /\ ~(Len(s) <= Len(p)) /\ Len(p) <= Len(p)
  BY <1>4
<1>7. s # <<>> /\ s # p /\ ~Within(p, s) /\ Within(p, p)
  <2>1. IsPath(s) => (s = <<>> <=> Len(s) = 0)
    BY EmptySeq DEF IsPath
  <2> QED BY <2>1, <1>1, <1>5 DEF Within
<1>6. /\ \A q, t : IsPath(q) /\ t \in Refs /\ s = Append(q, t) => p = q /\ r = t
      /\ \A q : IsPath(q) => (Within(s, q) <=> Within(p, q) \/ q = s)
  BY <1>2, <1>3
<1> QED BY <1>1, <1>6, <1>7, Zenon DEF s

-----------------------------------------------------------------------------
(***************************************************************************)
(* The paths of entries                                                    *)
(***************************************************************************)
SlotAt(h, a) == h.slot[a.prev][a.ref]

\* What Paths(h) is, without the recursion: every entry has the path of the
\* place where it is stored, and no two entries have the same path.
ArePaths(h, w) ==
    /\ w \in [Id -> Seq(Refs) \cup {CutOff}]
    /\ \A e \in Id : (\A a \in Accessors : SlotAt(h, a) # e) => w[e] = CutOff
    /\ \A a \in Accessors : SlotAt(h, a) \in Id => w[SlotAt(h, a)] = PathOf(w, a)
    /\ \A e, f \in Id : w[e] = w[f] /\ IsPath(w[e]) => e = f

\* The places where something is stored are places, and hold one entry each.
LEMMA TakenArePlaces ==
    ASSUME NEW h, WellFormed(h), NEW a \in Accessors, SlotAt(h, a) # Absent
    PROVE  /\ IsPlace(h, a)
           /\ SlotAt(h, a) \in Pointers
           /\ SlotAt(h, a) \in Id => SlotAt(h, a) > a.prev /\ SlotAt(h, a) <= h.used
                                     /\ SlotAt(h, a) # Root
<1>1. a.prev \in Id /\ a.ref \in Refs
  BY DEF Accessors
<1>2. SlotAt(h, a) \in Pointers /\ Takes(h, a.prev, a.ref)
  BY <1>1 DEF WellFormed, Heaps, SlotsFit, SlotAt
<1>3. h.kind[a.prev] # "free"
  BY <1>2 DEF Takes, CanNext
<1>4. a.prev <= h.used
  <2>1. ~(a.prev > h.used) /\ h.used \in Nat /\ a.prev \in Nat
    BY <1>1, <1>3, BoundsAssumption DEF WellFormed, OnlyMadeEntries, Heaps, Id
  <2> QED BY <2>1
<1>5. SlotAt(h, a) \in Id => SlotAt(h, a) > a.prev /\ SlotAt(h, a) <= h.used
  BY <1>1 DEF WellFormed, Acyclic, SlotAt
<1>6. SlotAt(h, a) \in Id => SlotAt(h, a) # Root
  <2> SUFFICES ASSUME SlotAt(h, a) \in Id PROVE SlotAt(h, a) # Root
    OBVIOUS
  <2>1. SlotAt(h, a) > a.prev /\ a.prev >= 1
    BY <1>1, <1>5 DEF Id
  <2> QED BY <1>1, <2>1 DEF Id
<1> QED BY <1>2, <1>4, <1>5, <1>6 DEF IsPlace

\* An entry is stored in one place.
LEMMA OneHolder ==
    ASSUME NEW h, WellFormed(h), NEW a \in Accessors, NEW b \in Accessors,
           SlotAt(h, a) \in Id, SlotAt(h, a) = SlotAt(h, b)
    PROVE  a = b
<1>1. a.prev \in Id /\ a.ref \in Refs /\ b.prev \in Id /\ b.ref \in Refs
  BY DEF Accessors
<1>2. a.prev = b.prev /\ a.ref = b.ref
  BY <1>1 DEF WellFormed, NoSharing, SlotAt
<1> QED BY <1>2 DEF Accessors

\* The recursive definition of Paths, as the equation that it solves.
PathEquation(h, w) ==
    w = [e \in Id |->
            LET held == {st \in {<<a, h.slot[a.prev][a.ref]>> : a \in Taken(h)} : st[2] = e}
            IN  IF held = {} THEN CutOff ELSE PathOf(w, (CHOOSE st \in held : TRUE)[1])]

LEMMA PathsDefinition ==
    ASSUME NEW h
    PROVE  Paths(h) = CHOOSE w : PathEquation(h, w)
BY DEF Paths, PathEquation

\* What the equation says of an entry.
LEMMA PathEquationCases ==
    ASSUME NEW h, WellFormed(h), NEW w, NEW e \in Id
    PROVE  LET held == {st \in {<<a, h.slot[a.prev][a.ref]>> : a \in Taken(h)} : st[2] = e}
               it   == IF held = {} THEN CutOff ELSE PathOf(w, (CHOOSE st \in held : TRUE)[1])
           IN  /\ (\A a \in Accessors : SlotAt(h, a) # e) => it = CutOff
               /\ \A a \in Accessors : SlotAt(h, a) = e => it = PathOf(w, a)
<1> DEFINE held == {st \in {<<a, h.slot[a.prev][a.ref]>> : a \in Taken(h)} : st[2] = e}
           it   == IF held = {} THEN CutOff ELSE PathOf(w, (CHOOSE st \in held : TRUE)[1])
<1>1. \A st \in held : st[1] \in Accessors /\ SlotAt(h, st[1]) = e
  BY DEF Taken, SlotAt
<1>2. ASSUME \A a \in Accessors : SlotAt(h, a) # e PROVE it = CutOff
  <2>1. held = {}
    <3> HIDE DEF held
    <3> QED BY <1>1, <1>2
  <2> QED BY <2>1
<1>3. ASSUME NEW a \in Accessors, SlotAt(h, a) = e PROVE it = PathOf(w, a)
  <2>1. a \in Taken(h)
    BY <1>3, PointersAreDistinct DEF Taken, SlotAt
  <2>2. <<a, e>> \in held
    BY <1>3, <2>1 DEF SlotAt
  <2> DEFINE st == CHOOSE st \in held : TRUE
  <2>3. st \in held
    <3> HIDE DEF held
    <3> QED BY <2>2
  <2>4. st[1] = a
    <3>1. st[1] \in Accessors /\ SlotAt(h, st[1]) = e
      <4> HIDE DEF held, st
      <4> QED BY <1>1, <2>3
    <3> HIDE DEF st
    <3> QED BY <1>3, <3>1, OneHolder
  <2>5. it = PathOf(w, st[1])
    <3>1. held # {}
      <4> HIDE DEF held
      <4> QED BY <2>2
    <3> QED BY <3>1
  <2> HIDE DEF it, st
  <2> QED BY <2>4, <2>5
<1> QED BY <1>2, <1>3

\* Holders are older than what they hold: there is one solution.
LEMMA PathsAre ==
    ASSUME NEW h, WellFormed(h), NEW w, ArePaths(h, w)
    PROVE  Paths(h) = w
<1> DEFINE held(e) == {st \in {<<a, h.slot[a.prev][a.ref]>> : a \in Taken(h)} : st[2] = e}
           it(v, e) == IF held(e) = {} THEN CutOff ELSE PathOf(v, (CHOOSE st \in held(e) : TRUE)[1])
           v == Paths(h)
<1>1. \A u : PathEquation(h, u) <=> u = [e \in Id |-> it(u, e)]
  BY DEF PathEquation
<1>2. \A u : \A e \in Id :
          /\ (\A a \in Accessors : SlotAt(h, a) # e) => it(u, e) = CutOff
          /\ \A a \in Accessors : SlotAt(h, a) = e => it(u, e) = PathOf(u, a)
  BY PathEquationCases
<1> HIDE DEF it, held, v
<1>3. PathEquation(h, w)
  <2>1. ASSUME NEW e \in Id PROVE w[e] = it(w, e)
    <3>1. CASE \A a \in Accessors : SlotAt(h, a) # e
      BY <1>2, <3>1 DEF ArePaths
    <3>2. CASE \E a \in Accessors : SlotAt(h, a) = e
      BY <1>2, <3>2 DEF ArePaths
    <3> QED BY <3>1, <3>2
  <2>2. w = [e \in Id |-> w[e]]
    BY DEF ArePaths
  <2> QED BY <1>1, <2>1, <2>2
<1>4. PathEquation(h, v)
  BY <1>3, PathsDefinition DEF v
<1>5. v = [e \in Id |-> it(v, e)] /\ w = [e \in Id |-> it(w, e)]
  BY <1>1, <1>3, <1>4
<1> DEFINE T == {e \in Id : v[e] # w[e]}
<1>6. T = {}
  <2> SUFFICES ASSUME T # {} PROVE FALSE
    OBVIOUS
  <2>1. PICK e \in T : \A f \in T : e <= f
    <3>1. T \subseteq Nat
      BY DEF Id
    <3> HIDE DEF T
    <3> QED BY <3>1, LeastNumber
  <2>2. e \in Id /\ v[e] # w[e] /\ v[e] = it(v, e) /\ w[e] = it(w, e)
    BY <1>5
  <2>3. PICK a \in Accessors : SlotAt(h, a) = e
    BY <1>2, <2>2
  <2>4. it(v, e) = PathOf(v, a) /\ it(w, e) = PathOf(w, a)
    BY <1>2, <2>2, <2>3
  <2>5. a.prev \in Id /\ e > a.prev
    <3>1. SlotAt(h, a) # Absent
      BY <2>2, <2>3, PointersAreDistinct
    <3> QED BY <2>2, <2>3, <3>1, TakenArePlaces DEF Accessors
  <2>6. v[a.prev] = w[a.prev]
    BY <2>1, <2>5 DEF Id
  <2> QED BY <2>2, <2>4, <2>6 DEF PathOf
<1>7. v = w
  BY <1>5, <1>6
<1> QED BY <1>7 DEF v

-----------------------------------------------------------------------------
(***************************************************************************)
(* The paths after an assignment                                           *)
(***************************************************************************)

\* The path of a place, by what is above it.
LEMMA PathOfPlace ==
    ASSUME NEW h, WellFormed(h), NEW w, ArePaths(h, w), NEW a, IsPlace(h, a)
    PROVE  /\ a.prev \in Id /\ a.ref \in Refs
           /\ w[a.prev] = CutOff \/ IsPath(w[a.prev])
           /\ a.prev = Root => a.ref = RootRef /\ PathOf(w, a) = <<>>
           /\ a.prev # Root => PathOf(w, a) = IF IsPath(w[a.prev]) THEN Append(w[a.prev], a.ref) ELSE CutOff
           /\ PathOf(w, a) = CutOff \/ IsPath(PathOf(w, a))
           /\ ~IsPath(CutOff)
<1>1. a.prev \in Id /\ a.ref \in Refs
  BY DEF IsPlace, Accessors
<1>2. w[a.prev] = CutOff \/ IsPath(w[a.prev])
  BY <1>1 DEF ArePaths, IsPath
<1>3. ~IsPath(CutOff)
  BY SourcesAreNoPaths DEF IsPath
<1>4. CASE a.prev = Root
  <2>1. PathOf(w, a) = <<>>
    BY <1>4 DEF PathOf
  <2>2. a.ref = RootRef
    BY <1>1, <1>4 DEF IsPlace, Takes, WellFormed, OnlyMadeEntries
  <2> QED BY <1>1, <1>2, <1>3, <1>4, <2>1, <2>2, EmptyIsAbove
<1>5. CASE a.prev # Root
  <2>1. PathOf(w, a) = IF IsPath(w[a.prev]) THEN Append(w[a.prev], a.ref) ELSE CutOff
    BY <1>2, <1>3, <1>5 DEF PathOf
  <2>2. IsPath(w[a.prev]) => IsPath(Append(w[a.prev], a.ref))
    BY <1>1, Appending
  <2> QED BY <1>1, <1>2, <1>3, <1>5, <2>1, <2>2
<1> QED BY <1>4, <1>5

\* A path is the path of one place.
LEMMA OnePlacePerPath ==
    ASSUME NEW h, WellFormed(h), NEW w, ArePaths(h, w), NEW a, IsPlace(h, a), NEW b, IsPlace(h, b),
           IsPath(PathOf(w, a)), PathOf(w, a) = PathOf(w, b)
    PROVE  a = b
<1>1. /\ a.prev \in Id /\ a.ref \in Refs /\ ~IsPath(CutOff)
      /\ a.prev = Root => a.ref = RootRef /\ PathOf(w, a) = <<>>
      /\ a.prev # Root => PathOf(w, a) = IF IsPath(w[a.prev]) THEN Append(w[a.prev], a.ref) ELSE CutOff
  BY PathOfPlace
<1>2. /\ b.prev \in Id /\ b.ref \in Refs
      /\ b.prev = Root => b.ref = RootRef /\ PathOf(w, b) = <<>>
      /\ b.prev # Root => PathOf(w, b) = IF IsPath(w[b.prev]) THEN Append(w[b.prev], b.ref) ELSE CutOff
  BY PathOfPlace
<1>3. ASSUME b.prev # Root
      PROVE  a.prev # Root /\ a.prev = b.prev /\ a.ref = b.ref
  <2>1. IsPath(w[b.prev]) /\ PathOf(w, b) = Append(w[b.prev], b.ref)
    BY <1>1, <1>2, <1>3
  <2> DEFINE s == Append(w[b.prev], b.ref)
  <2>2. s # <<>> /\ \A q, t : IsPath(q) /\ t \in Refs /\ s = Append(q, t) => w[b.prev] = q /\ b.ref = t
    <3>1. IsPath(w[b.prev]) /\ b.ref \in Refs
      BY <1>2, <2>1
    <3>2. s # <<>>
      BY <3>1, Appending
    <3>3. ASSUME NEW q, NEW t, IsPath(q), t \in Refs, s = Append(q, t) PROVE w[b.prev] = q /\ b.ref = t
      BY <3>1, <3>3, AppendInjective DEF IsPath
    <3> QED BY <3>2, <3>3
  <2>3. PathOf(w, a) = s
    BY <2>1
  <2> HIDE DEF s
  <2>4. a.prev # Root
    BY <1>1, <2>2, <2>3
  <2>5. IsPath(w[a.prev]) /\ PathOf(w, a) = Append(w[a.prev], a.ref)
    BY <1>1, <2>4
  <2>6. w[b.prev] = w[a.prev] /\ b.ref = a.ref
    BY <1>1, <2>2, <2>3, <2>5, Zenon
  <2> QED BY <1>1, <1>2, <2>1, <2>4, <2>6 DEF ArePaths
<1>4. b.prev = Root => a.prev = Root
  <2> SUFFICES ASSUME b.prev = Root, a.prev # Root PROVE FALSE
    OBVIOUS
  <2>1. PathOf(w, b) = <<>> /\ IsPath(w[a.prev]) /\ PathOf(w, a) = Append(w[a.prev], a.ref)
    BY <1>1, <1>2
  <2>2. Append(w[a.prev], a.ref) # <<>>
    BY <1>1, <2>1, Appending
  <2> QED BY <2>1, <2>2
<1>5. b.prev = Root => a.prev = b.prev /\ a.ref = b.ref
  BY <1>1, <1>2, <1>4
<1>6. a.prev = b.prev /\ a.ref = b.ref
  BY <1>3, <1>5
<1> QED BY <1>6 DEF IsPlace, Accessors

\* What is at or below a place that is assigned a new entry is cut off.
Cut(q, p) == IF IsPath(q) /\ IsPath(p) /\ Within(q, p) THEN CutOff ELSE q
PathsGrown(h, w, a) ==
    [e \in Id |-> IF e = Fresh(h) THEN PathOf(w, a) ELSE Cut(w[e], PathOf(w, a))]

\* Of the places there were, those strictly below it are.
PathCut(q, p) == IF IsPath(q) /\ IsPath(p) /\ D!StrictlyBelow(q, p) THEN CutOff ELSE q

LEMMA GrowthCutsPaths ==
    ASSUME NEW h, NEW a, NEW k, CanGrow(h, a, k), NEW w, ArePaths(h, w), NEW b, IsPlace(h, b)
    PROVE  PathOf(PathsGrown(h, w, a), b) = PathCut(PathOf(w, b), PathOf(w, a))
<1> DEFINE v == PathsGrown(h, w, a)
           p == PathOf(w, a)
           q == w[b.prev]
<1>0. WellFormed(h) /\ IsPlace(h, a)
  BY DEF CanGrow
<1>1. /\ b.prev \in Id /\ b.ref \in Refs /\ ~IsPath(CutOff)
      /\ q = CutOff \/ IsPath(q)
      /\ b.prev = Root => PathOf(w, b) = <<>>
      /\ b.prev # Root => PathOf(w, b) = IF IsPath(q) THEN Append(q, b.ref) ELSE CutOff
  BY <1>0, PathOfPlace
<1>2. b.prev # Fresh(h)
  BY <1>0, <1>1 DEF IsPlace, Fresh, WellFormed, Heaps, Id
<1>3. v[b.prev] = Cut(q, p)
  BY <1>1, <1>2 DEF PathsGrown
<1>4. p = CutOff \/ IsPath(p)
  BY <1>0, PathOfPlace
<1> HIDE DEF v, p, q
<1>5. CASE b.prev = Root
  <2>1. PathOf(v, b) = <<>>
    BY <1>5 DEF PathOf
  <2>2. IsPath(p) => ~D!StrictlyBelow(<<>>, p)
    BY EmptyIsAbove, StrictlyBelowIsWithin
  <2> QED BY <1>1, <1>5, <2>1, <2>2 DEF PathCut, v, p
<1>6. CASE b.prev # Root /\ q = CutOff
  <2>1. PathOf(w, b) = CutOff /\ v[b.prev] = CutOff
    BY <1>1, <1>3, <1>6 DEF Cut
  <2>2. PathOf(v, b) = CutOff
    BY <1>6, <2>1 DEF PathOf
  <2> QED BY <1>1, <2>1, <2>2 DEF PathCut, v, p
<1>7. CASE b.prev # Root /\ IsPath(q) /\ ~IsPath(p)
  <2>1. v[b.prev] = q /\ q # CutOff /\ PathOf(w, b) = Append(q, b.ref)
    BY <1>1, <1>3, <1>7 DEF Cut
  <2>2. PathOf(v, b) = Append(q, b.ref)
    BY <1>7, <2>1 DEF PathOf
  <2> QED BY <1>7, <2>1, <2>2 DEF PathCut, v, p
<1>8. CASE b.prev # Root /\ IsPath(q) /\ IsPath(p)
  <2> DEFINE s == Append(q, b.ref)
  <2>1. IsPath(s) /\ (Within(s, p) <=> Within(q, p) \/ p = s) /\ ~Within(q, s)
    BY <1>1, <1>8, Appending
  <2>2. PathOf(w, b) = s
    BY <1>1, <1>8
  <2> HIDE DEF s
  <2>3. D!StrictlyBelow(s, p) <=> Within(q, p)
    BY <1>8, <2>1, StrictlyBelowIsWithin
  <2>4. PathOf(v, b) = IF Within(q, p) THEN CutOff ELSE s
    BY <1>1, <1>3, <1>8 DEF PathOf, Cut, s
  <2> QED BY <1>8, <2>1, <2>2, <2>3, <2>4 DEF PathCut, v, p
<1> QED BY <1>1, <1>4, <1>5, <1>6, <1>7, <1>8

\* The new entry has the path of its place, and what it replaces has none.
LEMMA GrownPathsAre ==
    ASSUME NEW h, NEW a, NEW k, CanGrow(h, a, k), NEW w, ArePaths(h, w)
    PROVE  ArePaths(Grown(h, a, k), PathsGrown(h, w, a))
<1> DEFINE g == Grown(h, a, k)
           n == Fresh(h)
           v == PathsGrown(h, w, a)
           p == PathOf(w, a)
<1>0. WellFormed(h) /\ IsPlace(h, a) /\ WellFormed(g) /\ a \in Accessors
  BY MakeAndAssignWellFormed DEF CanGrow, IsPlace
<1>1. n \in Id /\ \A e \in Id, r \in Refs : g.slot[e][r] = SlotGrown(h, a, e, r)
  <2>1. IsGrown(h, a, k)
    BY MakeAndAssign
  <2> QED BY <2>1 DEF IsGrown
<1>2. /\ a.prev \in Id /\ a.ref \in Refs /\ ~IsPath(CutOff)
      /\ p = CutOff \/ IsPath(p)
  BY <1>0, PathOfPlace
<1>3. \A e \in Id : v[e] = IF e = n THEN p ELSE Cut(w[e], p)
  BY DEF PathsGrown
<1>4. v \in [Id -> Seq(Refs) \cup {CutOff}]
  <2>1. p \in Seq(Refs) \cup {CutOff}
    BY <1>2 DEF IsPath
  <2>2. \A e \in Id : Cut(w[e], p) \in Seq(Refs) \cup {CutOff}
    BY DEF Cut, ArePaths
  <2> QED BY <2>1, <2>2 DEF PathsGrown
<1>5. \A b \in Accessors : SlotAt(g, b) \in Id =>
          IF b = a THEN SlotAt(g, b) = n ELSE SlotAt(g, b) = SlotAt(h, b) /\ SlotAt(h, b) # n
  <2> SUFFICES ASSUME NEW b \in Accessors, SlotAt(g, b) \in Id
               PROVE  IF b = a THEN SlotAt(g, b) = n ELSE SlotAt(g, b) = SlotAt(h, b) /\ SlotAt(h, b) # n
    OBVIOUS
  <2>1. b.prev \in Id /\ b.ref \in Refs /\ SlotAt(g, b) = SlotGrown(h, a, b.prev, b.ref)
    BY <1>1 DEF Accessors, SlotAt
  <2>2. b # a => b.prev # a.prev \/ b.ref # a.ref
    BY <1>0 DEF Accessors
  <2>3. SlotAt(h, b) # n
    BY <1>0, <1>1, TakenArePlaces, PointersAreDistinct DEF Fresh, WellFormed, Heaps, Id
  <2> QED BY <2>1, <2>2, <2>3, PointersAreDistinct DEF SlotGrown, SlotAt
<1>6. SlotAt(g, a) = n
  BY <1>1, <1>2 DEF SlotGrown, SlotAt
<1>7. \A b \in Accessors : b # a /\ SlotAt(h, b) \in Id => SlotAt(g, b) = SlotAt(h, b)
  <2> SUFFICES ASSUME NEW b \in Accessors, b # a, SlotAt(h, b) \in Id PROVE SlotAt(g, b) = SlotAt(h, b)
    OBVIOUS
  <2>1. b.prev \in Id /\ b.ref \in Refs /\ SlotAt(g, b) = SlotGrown(h, a, b.prev, b.ref)
    BY <1>1 DEF Accessors, SlotAt
  <2>2. b.prev # a.prev \/ b.ref # a.ref
    BY <1>0 DEF Accessors
  <2> QED BY <2>1, <2>2, PointersAreDistinct DEF SlotGrown, SlotAt
<1> HIDE DEF g, n, v, p
<1>8. ASSUME NEW e \in Id, \A b \in Accessors : SlotAt(g, b) # e
      PROVE  v[e] = CutOff
  <2>1. e # n
    BY <1>0, <1>6, <1>8
  <2>2. CASE \A b \in Accessors : SlotAt(h, b) # e
    BY <1>3, <2>1, <2>2 DEF ArePaths, Cut
  <2>3. CASE SlotAt(h, a) = e
    <3>1. w[e] = p
      BY <1>0, <2>3 DEF ArePaths, p
    <3>2. IsPath(p) => Within(p, p)
      BY <1>2, EmptyIsAbove, Appending DEF Within
    <3> QED BY <1>2, <1>3, <2>1, <3>1, <3>2 DEF Cut
  <2> QED BY <1>7, <1>8, <2>2, <2>3
<1>9. ASSUME NEW b \in Accessors, SlotAt(g, b) \in Id
      PROVE  v[SlotAt(g, b)] = PathOf(v, b)
  <2>1. CASE b = a
    <3>1. PathOf(v, a) = PathCut(p, p)
      BY <1>0, GrowthCutsPaths DEF v, p
    <3>2. IsPath(p) => ~D!StrictlyBelow(p, p)
      BY StrictlyBelowIsWithin
    <3>3. PathOf(v, a) = p
      BY <3>1, <3>2 DEF PathCut
    <3> QED BY <1>1, <1>3, <1>6, <2>1, <3>3
  <2>2. CASE b # a
    <3> DEFINE e == SlotAt(h, b)
               q == PathOf(w, b)
    <3>1. SlotAt(g, b) = e /\ e # n /\ e \in Id
      BY <1>5, <1>9, <2>2
    <3>2. IsPlace(h, b) /\ w[e] = q
      BY <1>0, <3>1, TakenArePlaces, PointersAreDistinct DEF ArePaths
    <3>3. PathOf(v, b) = PathCut(q, p)
      BY <3>2, GrowthCutsPaths DEF v, p
    <3>4. v[e] = Cut(q, p)
      BY <1>3, <3>1, <3>2
    <3>5. IsPath(q) => q # p
      BY <1>0, <2>2, <3>2, OnePlacePerPath DEF p
    <3> HIDE DEF e, q
    <3>6. IsPath(q) /\ IsPath(p) => (D!StrictlyBelow(q, p) <=> Within(q, p))
      BY <3>5, StrictlyBelowIsWithin
    <3> QED BY <3>1, <3>3, <3>4, <3>6 DEF Cut, PathCut
  <2> QED BY <2>1, <2>2
<1>10. ASSUME NEW e \in Id, NEW f \in Id, v[e] = v[f], IsPath(v[e])
       PROVE  e = f
  <2>1. \A d \in Id : d # n /\ IsPath(v[d]) => v[d] = w[d] /\ w[d] # p
    <3>1. IsPath(p) => Within(p, p)
      BY DEF Within, IsPath
    <3> QED BY <1>2, <1>3, <3>1 DEF Cut
  <2>2. v[n] = p
    BY <1>1, <1>3
  <2> QED BY <1>10, <2>1, <2>2 DEF ArePaths
<1> QED BY <1>4, <1>8, <1>9, <1>10 DEF ArePaths, v, g

-----------------------------------------------------------------------------
(***************************************************************************)
(* The document of a heap                                                  *)
(***************************************************************************)
IsDocument(h, w, d) ==
    /\ d = [p \in DOMAIN d |-> d[p]]
    /\ \A p \in DOMAIN d : IsPath(p) /\ \E a \in Accessors : SlotAt(h, a) # Absent /\ PathOf(w, a) = p
    /\ \A a \in Accessors : SlotAt(h, a) # Absent /\ IsPath(PathOf(w, a)) =>
          PathOf(w, a) \in DOMAIN d /\ d[PathOf(w, a)] = NodeAt(h, SlotAt(h, a))

LEMMA DocumentIs ==
    ASSUME NEW h, WellFormed(h), NEW w, ArePaths(h, w)
    PROVE  IsDocument(h, w, DocumentOf(h, w))
<1> DEFINE nodes == {<<PathOf(w, a), NodeAt(h, SlotAt(h, a))>> : a \in Taken(h)}
           paths == {n[1] : n \in nodes} \ {CutOff}
           d     == [p \in paths |-> (CHOOSE n \in nodes : n[1] = p)[2]]
<1>1. DocumentOf(h, w) = d
  BY DEF DocumentOf, SlotAt
<1>2. \A a : a \in Taken(h) <=> a \in Accessors /\ SlotAt(h, a) # Absent
  BY DEF Taken, SlotAt
<1>3. \A a \in Taken(h) : IsPlace(h, a) /\ (PathOf(w, a) = CutOff \/ IsPath(PathOf(w, a))) /\ ~IsPath(CutOff)
  BY <1>2, TakenArePlaces, PathOfPlace
<1>4. \A a \in Taken(h) : <<PathOf(w, a), NodeAt(h, SlotAt(h, a))>> \in nodes
  OBVIOUS
<1>5. \A n \in nodes : \E a \in Taken(h) : n[1] = PathOf(w, a) /\ n[2] = NodeAt(h, SlotAt(h, a))
  OBVIOUS
<1> HIDE DEF nodes
<1>6. DOMAIN d = paths
  OBVIOUS
<1>7. ASSUME NEW p \in paths
      PROVE  IsPath(p) /\ \E a \in Accessors : SlotAt(h, a) # Absent /\ PathOf(w, a) = p
  BY <1>2, <1>3, <1>5
<1>8. ASSUME NEW a \in Accessors, SlotAt(h, a) # Absent, IsPath(PathOf(w, a))
      PROVE  PathOf(w, a) \in paths /\ d[PathOf(w, a)] = NodeAt(h, SlotAt(h, a))
  <2> DEFINE p == PathOf(w, a)
             m == <<p, NodeAt(h, SlotAt(h, a))>>
             n == CHOOSE n \in nodes : n[1] = p
  <2>1. a \in Taken(h)
    BY <1>2, <1>8
  <2>2. m \in nodes /\ m[1] = p
    BY <1>4, <2>1
  <2>3. p # CutOff
    BY <1>3, <1>8, <2>1
  <2>4. p \in paths
    <3> HIDE DEF m
    <3> QED BY <2>2, <2>3
  <2>5. n \in nodes /\ n[1] = p
    <3> HIDE DEF m
    <3> QED BY <2>2
  <2> HIDE DEF n
  <2>6. PICK b \in Taken(h) : n[1] = PathOf(w, b) /\ n[2] = NodeAt(h, SlotAt(h, b))
    BY <1>5, <2>5
  <2>7. a = b
    BY <1>3, <1>8, <2>1, <2>5, <2>6, OnePlacePerPath
  <2>8. d[p] = n[2]
    BY <2>4 DEF n
  <2> QED BY <2>4, <2>6, <2>7, <2>8
<1> HIDE DEF paths
<1>9. d = [p \in DOMAIN d |-> d[p]]
  BY <1>6
<1> HIDE DEF d
<1> QED BY <1>1, <1>6, <1>7, <1>8, <1>9 DEF IsDocument

LEMMA DocumentsAreEqual ==
    ASSUME NEW h, NEW w, NEW c, NEW d, IsDocument(h, w, c), IsDocument(h, w, d)
    PROVE  c = d
<1>1. DOMAIN c = DOMAIN d
  BY DEF IsDocument
<1>2. \A p \in DOMAIN c : c[p] = d[p]
  BY <1>1 DEF IsDocument
<1>3. c = [p \in DOMAIN c |-> c[p]] /\ d = [p \in DOMAIN d |-> d[p]]
  BY DEF IsDocument
<1> QED BY <1>1, <1>2, <1>3

\* What is put at a path, of any document.
Kept(d, p) == {q \in DOMAIN d : ~D!StrictlyBelow(q, p)}
PutAt(d, p, x) ==
    [q \in Kept(d, p) \cup D!Holes(p) \cup {p} |->
        IF q = p THEN x ELSE IF q \in Kept(d, p) THEN d[q] ELSE "null"]

LEMMA AppendedEnds ==
    ASSUME NEW u, IsPath(u), NEW r \in Refs
    PROVE  D!Front(Append(u, r)) = u /\ D!Last(Append(u, r)) = r
<1>1. u \in Seq(Refs) /\ Len(u) \in Nat /\ Len(Append(u, r)) = Len(u) + 1 /\ Append(u, r) \in Seq(Refs)
      /\ Append(u, r)[Len(u) + 1] = r
  BY LenProperties, AppendProperties DEF IsPath
<1>2. D!Last(Append(u, r)) = r
  BY <1>1 DEF D!Last
<1>3. D!Front(Append(u, r)) = SubSeq(Append(u, r), 1, Len(u))
  BY <1>1 DEF D!Front
<1>4. SubSeq(Append(u, r), 1, Len(u)) = u
  BY <1>1, HeadTailAppend, AppendProperties
<1> QED BY <1>2, <1>3, <1>4

\* The holes of a path are those of the list above its end.
LEMMA HolesAre ==
    ASSUME NEW h, WellFormed(h), NEW w, ArePaths(h, w), NEW a, IsPlace(h, a), IsPath(PathOf(w, a)), NEW q
    PROVE  q \in D!Holes(PathOf(w, a)) <=>
              /\ h.kind[a.prev] = "list"
              /\ \E i \in Indices : i < a.ref /\ q = PathOf(w, [prev |-> a.prev, ref |-> i])
<1> DEFINE p == PathOf(w, a)
<1>1. /\ a.prev \in Id /\ a.ref \in Refs /\ ~IsPath(CutOff)
      /\ a.prev = Root => p = <<>>
      /\ a.prev # Root => p = IF IsPath(w[a.prev]) THEN Append(w[a.prev], a.ref) ELSE CutOff
  BY PathOfPlace
<1>2. (h.kind[a.prev] = "root" <=> a.prev = Root) /\ Takes(h, a.prev, a.ref)
  BY <1>1 DEF WellFormed, OnlyMadeEntries, IsPlace
<1>3. CASE a.prev = Root
  BY <1>1, <1>2, <1>3 DEF D!Holes
<1>4. CASE a.prev # Root
  <2> DEFINE u == w[a.prev]
  <2>1. IsPath(u) /\ p = Append(u, a.ref)
    BY <1>1, <1>4
  <2>2. p # <<>> /\ D!Last(p) = a.ref /\ D!Front(p) = u
    BY <1>1, <2>1, Appending, AppendedEnds
  <2>3. \A i : PathOf(w, [prev |-> a.prev, ref |-> i]) = Append(u, i)
    BY <1>1, <1>4, <2>1 DEF PathOf
  <2>4. h.kind[a.prev] = "list" <=> a.ref \in Indices
    BY <1>2, <1>4, KeysAreNotIndices DEF Takes, CanNext
  <2>5. D!Indices = Indices
    BY DEF D!Indices, Indices
  <2>6. D!Holes(p) = IF a.ref \notin Indices THEN {} ELSE {Append(u, i) : i \in 0..a.ref} \ {p}
    BY <2>2, <2>5 DEF D!Holes
  <2>7. \A i \in Indices : i \in Refs /\ i \in Nat
    BY DEF Indices, Refs
  <2>8. ASSUME a.ref \in Indices, NEW i \in 0..a.ref
        PROVE  i \in Indices /\ (Append(u, i) # p <=> i < a.ref)
    <3>1. i \in Indices /\ i \in Nat /\ a.ref \in Nat /\ i <= a.ref
      BY <2>8, BoundsAssumption DEF Indices
    <3>2. i \in Refs
      BY <2>7, <3>1
    <3>3. Append(u, i) = p => i = a.ref
      BY <1>1, <2>1, <3>2, AppendInjective DEF IsPath
    <3> QED BY <2>1, <3>1, <3>3
  <2>9. ASSUME a.ref \in Indices, NEW i \in Indices, i < a.ref PROVE i \in 0..a.ref
    BY <2>9, BoundsAssumption DEF Indices
  <2>10. a.ref \in Indices =>
            (q \in {Append(u, i) : i \in 0..a.ref} \ {p} <=> \E i \in Indices : i < a.ref /\ q = Append(u, i))
    <3> HIDE DEF u, p
    <3> QED BY <2>8, <2>9
  <2> HIDE DEF u
  <2> QED BY <2>3, <2>4, <2>6, <2>10
<1> QED BY <1>3, <1>4

-----------------------------------------------------------------------------
(***************************************************************************)
(* The document after an assignment                                        *)
(***************************************************************************)

\* Heaps that a call leaves, which may have given the new entry a value too.
IsGrownTo(h, a, k, g) ==
    /\ g.slot = Grown(h, a, k).slot /\ g.kind = Grown(h, a, k).kind
    /\ \A e \in Id \ {Fresh(h)} : g.val[e] = h.val[e]

\* What is at a place after it, of the places that were taken and of the others.
LEMMA GrownSlots ==
    ASSUME NEW h, NEW a, NEW k, CanGrow(h, a, k), NEW g, IsGrownTo(h, a, k, g), NEW b \in Accessors
    PROVE  /\ Fresh(h) \in Id
           /\ b = a => SlotAt(g, b) = Fresh(h)
           /\ b # a /\ SlotAt(h, b) # Absent =>
                 SlotAt(g, b) = SlotAt(h, b) /\ NodeAt(g, SlotAt(g, b)) = NodeAt(h, SlotAt(h, b))
           /\ b # a /\ SlotAt(h, b) = Absent =>
                 IF h.kind[a.prev] = "list" /\ b.prev = a.prev /\ b.ref \in Indices /\ b.ref < a.ref
                 THEN SlotAt(g, b) = Null ELSE SlotAt(g, b) = Absent
<1>0. WellFormed(h) /\ a \in Accessors /\ IsGrown(h, a, k)
  BY MakeAndAssign DEF CanGrow, IsPlace
<1>1. a.prev \in Id /\ a.ref \in Refs /\ b.prev \in Id /\ b.ref \in Refs
  BY <1>0 DEF Accessors
<1>2. SlotAt(g, b) = SlotGrown(h, a, b.prev, b.ref) /\ Fresh(h) \in Id
      /\ g.kind = [h.kind EXCEPT ![Fresh(h)] = k]
  BY <1>0, <1>1 DEF IsGrown, IsGrownTo, SlotAt
<1>3. b # a => b.prev # a.prev \/ b.ref # a.ref
  BY <1>0 DEF Accessors
<1>4. b = a => SlotAt(g, b) = Fresh(h)
  BY <1>2 DEF SlotGrown
<1>5. ASSUME b # a, SlotAt(h, b) # Absent
      PROVE  SlotAt(g, b) = SlotAt(h, b) /\ NodeAt(g, SlotAt(g, b)) = NodeAt(h, SlotAt(h, b))
  <2> DEFINE e == SlotAt(h, b)
  <2>1. SlotAt(g, b) = e
    BY <1>2, <1>3, <1>5 DEF SlotGrown, SlotAt
  <2>2. e \in Pointers /\ (e \in Id => e <= h.used)
    BY <1>0, <1>5, TakenArePlaces
  <2>3. e # Fresh(h)
    <3>1. h.used \in Nat
      BY <1>0, BoundsAssumption DEF WellFormed, Heaps
    <3> QED BY <1>2, <2>2, <3>1, PointersAreDistinct DEF Fresh, Pointers, Id
  <2>4. e # Null => g.kind[e] = h.kind[e] /\ g.val[e] = h.val[e]
    <3>1. h.kind \in [Id -> Kinds]
      BY <1>0 DEF WellFormed, Heaps
    <3> QED BY <1>2, <2>2, <2>3, <3>1 DEF IsGrownTo, Pointers
  <2>5. NodeAt(g, e) = NodeAt(h, e)
    BY <2>4 DEF NodeAt
  <2> QED BY <2>1, <2>5
<1>6. ASSUME b # a, SlotAt(h, b) = Absent
      PROVE  IF h.kind[a.prev] = "list" /\ b.prev = a.prev /\ b.ref \in Indices /\ b.ref < a.ref
             THEN SlotAt(g, b) = Null ELSE SlotAt(g, b) = Absent
  BY <1>2, <1>3, <1>6 DEF SlotGrown, SlotAt
<1> QED BY <1>2, <1>4, <1>5, <1>6

\* The gaps of a list are at holes of the path that is assigned, and no others are.
LEMMA GapsAreHoles ==
    ASSUME NEW h, NEW a, WellFormed(h), IsPlace(h, a), NEW w, ArePaths(h, w),
           NEW b \in Accessors, h.kind[a.prev] = "list", b.prev = a.prev, b.ref \in Indices, b.ref < a.ref
    PROVE  /\ IsPlace(h, b) /\ b # a
           /\ IsPath(PathOf(w, b)) <=> IsPath(PathOf(w, a))
           /\ IsPath(PathOf(w, a)) => /\ ~D!StrictlyBelow(PathOf(w, b), PathOf(w, a))
                                      /\ PathOf(w, b) # PathOf(w, a)
                                      /\ PathOf(w, b) \in D!Holes(PathOf(w, a))
<1>1. a.prev \in Id /\ a.ref \in Refs /\ b.ref \in Refs /\ a.prev # Root
  BY DEF IsPlace, Accessors, WellFormed, OnlyMadeEntries
<1>2. IsPlace(h, b)
  BY <1>1 DEF IsPlace, Takes, CanNext
<1>3. a.ref \in Indices
  BY <1>1 DEF IsPlace, Takes, CanNext
<1>4. b # a /\ b.ref # a.ref
  BY <1>3, BoundsAssumption DEF Indices
<1> DEFINE u == w[a.prev]
<1>5. /\ ~IsPath(CutOff)
      /\ PathOf(w, a) = IF IsPath(u) THEN Append(u, a.ref) ELSE CutOff
      /\ PathOf(w, b) = IF IsPath(u) THEN Append(u, b.ref) ELSE CutOff
  BY <1>1, <1>2, PathOfPlace
<1>6. IsPath(PathOf(w, b)) <=> IsPath(PathOf(w, a))
  BY <1>1, <1>5, Appending
<1>7. ASSUME IsPath(PathOf(w, a))
      PROVE  /\ ~D!StrictlyBelow(PathOf(w, b), PathOf(w, a))
             /\ PathOf(w, b) # PathOf(w, a)
             /\ PathOf(w, b) \in D!Holes(PathOf(w, a))
  <2> DEFINE p == PathOf(w, a)
             q == PathOf(w, b)
  <2>1. IsPath(u) /\ p = Append(u, a.ref) /\ q = Append(u, b.ref) /\ IsPath(p) /\ IsPath(q)
    BY <1>5, <1>6, <1>7
  <2>2. q # p
    <3>1. IsPath(u) /\ Append(u, b.ref) = Append(u, a.ref) => b.ref = a.ref
      BY <1>1, AppendInjective DEF IsPath
    <3> QED BY <1>4, <2>1, <3>1
  <2>3. (Within(q, p) <=> Within(u, p) \/ p = q) /\ ~Within(u, p)
    <3> HIDE DEF p, q, u
    <3>1. \A s : IsPath(s) => (Within(q, s) <=> Within(u, s) \/ s = q)
      BY <1>1, <2>1, Appending
    <3>2. ~Within(u, p)
      BY <1>1, <2>1, Appending
    <3> QED BY <2>1, <3>1, <3>2
  <2>4. ~D!StrictlyBelow(q, p)
    BY <2>1, <2>2, <2>3, StrictlyBelowIsWithin
  <2>5. q \in D!Holes(p)
    <3>1. b = [prev |-> a.prev, ref |-> b.ref]
      BY DEF Accessors
    <3> HIDE DEF p, q, u
    <3> QED BY <1>7, <3>1, HolesAre DEF p, q
  <2> QED BY <2>2, <2>4, <2>5
<1> QED BY <1>2, <1>4, <1>6, <1>7

\* A place that is assigned: Document puts the same there.
LEMMA GrownDocument ==
    ASSUME NEW h, NEW a, NEW k, CanGrow(h, a, k), NEW g, IsGrownTo(h, a, k, g),
           NEW w, ArePaths(h, w), NEW d, IsDocument(h, w, d), IsPath(PathOf(w, a))
    PROVE  IsDocument(g, PathsGrown(h, w, a), PutAt(d, PathOf(w, a), NodeAt(g, Fresh(h))))
<1> DEFINE n == Fresh(h)
           v == PathsGrown(h, w, a)
           p == PathOf(w, a)
           x == NodeAt(g, n)
           c == PutAt(d, p, x)
<1>0. WellFormed(h) /\ IsPlace(h, a) /\ a \in Accessors
  BY DEF CanGrow, IsPlace
<1>1. \A b : IsPlace(h, b) => PathOf(v, b) = PathCut(PathOf(w, b), p)
  BY GrowthCutsPaths
<1>2. ~IsPath(CutOff) /\ IsPath(p) /\ ~D!StrictlyBelow(p, p)
  BY <1>0, PathOfPlace, StrictlyBelowIsWithin
<1>3. /\ DOMAIN c = Kept(d, p) \cup D!Holes(p) \cup {p}
      /\ c = [q \in DOMAIN c |-> c[q]]
      /\ \A q \in DOMAIN c : c[q] = IF q = p THEN x ELSE IF q \in Kept(d, p) THEN d[q] ELSE "null"
  BY DEF PutAt
<1>4. PathOf(v, a) = p
  BY <1>0, <1>1, <1>2 DEF PathCut
<1>5. \A b \in Accessors : SlotAt(h, b) # Absent => IsPlace(h, b)
  BY <1>0, TakenArePlaces
<1> HIDE DEF v, c, x, n, p
<1>6. ASSUME NEW b \in Accessors, SlotAt(g, b) # Absent, IsPath(PathOf(v, b))
      PROVE  PathOf(v, b) \in DOMAIN c /\ c[PathOf(v, b)] = NodeAt(g, SlotAt(g, b))
  <2>1. CASE b = a
    <3>1. SlotAt(g, b) = n
      BY <2>1, GrownSlots DEF n
    <3> QED BY <1>3, <1>4, <2>1, <3>1 DEF x
  <2>2. CASE b # a /\ SlotAt(h, b) # Absent
    <3>1. NodeAt(g, SlotAt(g, b)) = NodeAt(h, SlotAt(h, b))
      BY <2>2, GrownSlots
    <3>2. IsPlace(h, b) /\ PathOf(v, b) = PathOf(w, b) /\ ~D!StrictlyBelow(PathOf(w, b), p)
      BY <1>1, <1>2, <1>5, <1>6, <2>2 DEF PathCut
    <3>3. PathOf(w, b) # p
      BY <1>0, <1>2, <2>2, <3>2, OnePlacePerPath DEF p
    <3>4. PathOf(w, b) \in DOMAIN d /\ d[PathOf(w, b)] = NodeAt(h, SlotAt(h, b))
      BY <1>6, <2>2, <3>2 DEF IsDocument
    <3> QED BY <1>3, <3>1, <3>2, <3>3, <3>4 DEF Kept
  <2>3. CASE b # a /\ SlotAt(h, b) = Absent
    <3>1. h.kind[a.prev] = "list" /\ b.prev = a.prev /\ b.ref \in Indices /\ b.ref < a.ref /\ SlotAt(g, b) = Null
      BY <1>6, <2>3, GrownSlots
    <3>2. IsPlace(h, b) /\ PathOf(w, b) # p /\ PathOf(w, b) \in D!Holes(p) /\ IsPath(PathOf(w, b))
          /\ ~D!StrictlyBelow(PathOf(w, b), p)
      BY <1>0, <1>2, <3>1, GapsAreHoles DEF p
    <3>3. PathOf(v, b) = PathOf(w, b)
      BY <1>1, <3>2 DEF PathCut
    <3>4. PathOf(w, b) \notin DOMAIN d
      <4> SUFFICES ASSUME NEW f \in Accessors, SlotAt(h, f) # Absent, PathOf(w, f) = PathOf(w, b)
                   PROVE  FALSE
        BY DEF IsDocument
      <4>1. f = b
        BY <1>0, <1>5, <3>2, OnePlacePerPath
      <4> QED BY <2>3, <4>1
    <3>5. NodeAt(g, Null) = "null"
      BY DEF NodeAt
    <3> QED BY <1>3, <3>1, <3>2, <3>3, <3>4, <3>5 DEF Kept
  <2> QED BY <2>1, <2>2, <2>3
<1>7. ASSUME NEW q \in DOMAIN c
      PROVE  IsPath(q) /\ \E b \in Accessors : SlotAt(g, b) # Absent /\ PathOf(v, b) = q
  <2>1. CASE q = p
    <3>1. SlotAt(g, a) # Absent
      BY <1>0, GrownSlots, PointersAreDistinct
    <3> QED BY <1>0, <1>2, <1>4, <2>1, <3>1
  <2>2. CASE q # p /\ q \in Kept(d, p)
    <3>1. q \in DOMAIN d /\ ~D!StrictlyBelow(q, p)
      BY <2>2 DEF Kept
    <3>2. PICK b \in Accessors : SlotAt(h, b) # Absent /\ PathOf(w, b) = q /\ IsPath(q)
      BY <3>1 DEF IsDocument
    <3>3. PathOf(v, b) = q
      BY <1>1, <1>5, <3>1, <3>2 DEF PathCut
    <3>4. b # a
      BY <2>2, <3>2 DEF p
    <3>5. SlotAt(g, b) # Absent
      BY <3>2, <3>4, GrownSlots
    <3> QED BY <3>2, <3>3, <3>5
  <2>3. CASE q # p /\ q \in D!Holes(p)
    <3>1. PICK i \in Indices : i < a.ref /\ q = PathOf(w, [prev |-> a.prev, ref |-> i]) /\ h.kind[a.prev] = "list"
      BY <1>0, <1>2, <2>3, HolesAre DEF p
    <3> DEFINE b == [prev |-> a.prev, ref |-> i]
    <3>2. b \in Accessors /\ b.prev = a.prev /\ b.ref = i
      BY <1>0, <3>1 DEF Accessors, Refs
    <3> HIDE DEF b
    <3>3. q = PathOf(w, b)
      BY <3>1 DEF b
    <3>4. IsPlace(h, b) /\ b # a /\ IsPath(q) /\ ~D!StrictlyBelow(q, p)
      BY <1>0, <1>2, <3>1, <3>2, <3>3, GapsAreHoles DEF p
    <3>5. PathOf(v, b) = q
      BY <1>1, <3>3, <3>4 DEF PathCut
    <3>6. SlotAt(g, b) # Absent
      BY <3>1, <3>2, <3>4, GrownSlots, PointersAreDistinct
    <3> QED BY <3>2, <3>4, <3>5, <3>6
  <2> QED BY <1>3, <2>1, <2>2, <2>3
<1> QED BY <1>3, <1>6, <1>7 DEF IsDocument, c, v, p, x, n

\* A place that is cut off: what is assigned there does not show.
LEMMA StrayGrowth ==
    ASSUME NEW h, NEW a, NEW k, CanGrow(h, a, k), NEW g, IsGrownTo(h, a, k, g),
           NEW w, ArePaths(h, w), NEW d, IsDocument(h, w, d), ~IsPath(PathOf(w, a))
    PROVE  IsDocument(g, PathsGrown(h, w, a), d)
<1> DEFINE v == PathsGrown(h, w, a)
           p == PathOf(w, a)
<1>0. WellFormed(h) /\ IsPlace(h, a) /\ a \in Accessors
  BY DEF CanGrow, IsPlace
<1>1. \A b : IsPlace(h, b) => PathOf(v, b) = PathOf(w, b)
  BY GrowthCutsPaths DEF PathCut
<1>2. \A b \in Accessors : SlotAt(h, b) # Absent => IsPlace(h, b)
  BY <1>0, TakenArePlaces
<1> HIDE DEF v
<1>3. ASSUME NEW b \in Accessors, IsPath(PathOf(v, b)), SlotAt(g, b) # Absent
      PROVE  /\ b # a /\ SlotAt(h, b) # Absent /\ PathOf(v, b) = PathOf(w, b)
             /\ NodeAt(g, SlotAt(g, b)) = NodeAt(h, SlotAt(h, b))
  <2>1. b # a
    BY <1>0, <1>1, <1>3
  <2>2. SlotAt(h, b) # Absent
    <3> SUFFICES ASSUME SlotAt(h, b) = Absent PROVE FALSE
      OBVIOUS
    <3>1. h.kind[a.prev] = "list" /\ b.prev = a.prev /\ b.ref \in Indices /\ b.ref < a.ref
      BY <1>3, <2>1, GrownSlots
    <3>2. IsPlace(h, b) /\ ~IsPath(PathOf(w, b))
      BY <1>0, <3>1, GapsAreHoles
    <3> QED BY <1>1, <1>3, <3>2
  <2> QED BY <1>1, <1>2, <2>1, <2>2, GrownSlots
<1>4. ASSUME NEW b \in Accessors, SlotAt(h, b) # Absent, IsPath(PathOf(w, b))
      PROVE  SlotAt(g, b) # Absent /\ PathOf(v, b) = PathOf(w, b)
  <2>1. b # a
    BY <1>4
  <2> QED BY <1>1, <1>2, <1>4, <2>1, GrownSlots
<1> QED BY <1>3, <1>4 DEF IsDocument, v

-----------------------------------------------------------------------------
(***************************************************************************)
(* Calls on the heap, seen from the document                               *)
(***************************************************************************)

\* What g is to h when x was assigned at the place of a: what is below is cut
\* off, and the document has x there, if the place shows in it.
Assigns(h, a, g, x) ==
    LET p == PathOf(Paths(h), a)
    IN  /\ ArePaths(g, Paths(g))
        /\ \A b : IsPlace(h, b) => PathOf(Paths(g), b) = PathCut(PathOf(Paths(h), b), p)
        /\ DocumentOf(g, Paths(g)) =
              IF IsPath(p) THEN PutAt(DocumentOf(h, Paths(h)), p, x) ELSE DocumentOf(h, Paths(h))

LEMMA GrowthAssigns ==
    ASSUME NEW h, NEW a, NEW k, CanGrow(h, a, k), NEW g, IsGrownTo(h, a, k, g), WellFormed(g),
           ArePaths(h, Paths(h))
    PROVE  /\ Assigns(h, a, g, NodeAt(g, Fresh(h)))
           /\ Paths(g)[Fresh(h)] = PathOf(Paths(h), a)
<1> DEFINE w == Paths(h)
           v == PathsGrown(h, w, a)
           d == DocumentOf(h, w)
           x == NodeAt(g, Fresh(h))
           p == PathOf(w, a)
<1>0. WellFormed(h) /\ Fresh(h) \in Id
  BY MakeAndAssign DEF CanGrow, IsGrown
<1> HIDE DEF w
<1>1. ArePaths(Grown(h, a, k), v)
  BY GrownPathsAre DEF w
<1>2. ArePaths(g, v)
  <2>1. \A b : SlotAt(g, b) = SlotAt(Grown(h, a, k), b)
    BY DEF IsGrownTo, SlotAt
  <2> HIDE DEF v
  <2> QED BY <1>1, <2>1 DEF ArePaths
<1>3. Paths(g) = v
  BY <1>2, PathsAre
<1>4. \A b : IsPlace(h, b) => PathOf(v, b) = PathCut(PathOf(w, b), p)
  BY GrowthCutsPaths DEF w
<1>5. IsDocument(h, w, d) /\ IsDocument(g, v, DocumentOf(g, v))
  BY <1>0, <1>2, DocumentIs DEF w
<1>6. v[Fresh(h)] = p
  BY <1>0 DEF PathsGrown
<1> HIDE DEF v, d, p, x
<1>7. ASSUME IsPath(p) PROVE DocumentOf(g, v) = PutAt(d, p, x)
  <2>1. IsDocument(g, v, PutAt(d, p, x))
    BY <1>5, <1>7, GrownDocument DEF v, p, x, w
  <2> QED BY <1>5, <2>1, DocumentsAreEqual
<1>8. ASSUME ~IsPath(p) PROVE DocumentOf(g, v) = d
  <2>1. IsDocument(g, v, d)
    BY <1>5, <1>8, StrayGrowth DEF v, p, w
  <2> QED BY <1>5, <2>1, DocumentsAreEqual
<1> QED BY <1>2, <1>3, <1>4, <1>6, <1>7, <1>8 DEF Assigns, w, d, p, x

\* Nothing is below a scalar, not even cut off later: no entry there holds any.
LEMMA NothingBelowScalars ==
    ASSUME NEW h, WellFormed(h), NEW w, ArePaths(h, w), NEW a, IsPlace(h, a),
           Holds(h, a, "scalar"), IsPath(PathOf(w, a)),
           NEW b, IsPlace(h, b), IsPath(PathOf(w, b))
    PROVE  ~D!StrictlyBelow(PathOf(w, b), PathOf(w, a))
<1> DEFINE e == SlotAt(h, a)
           p == PathOf(w, a)
           T == {f \in Id : IsPath(w[f]) /\ Within(w[f], p) /\ f # e}
<1>1. a \in Accessors /\ e \in Id /\ h.kind[e] = "scalar" /\ w[e] = p /\ ~IsPath(CutOff)
  <2>1. a \in Accessors /\ Curr(h, a) # Null /\ h.kind[Curr(h, a)] = "scalar"
    BY DEF IsPlace, Holds
  <2>2. e \in Id /\ Curr(h, a) = e
    BY <2>1, Lookup DEF SlotAt, Pointers
  <2> QED BY <2>1, <2>2, SourcesAreNoPaths DEF ArePaths, IsPath
<1>2. \A c : IsPlace(h, c) => c.prev # e
  BY <1>1 DEF IsPlace, Takes, CanNext
<1> HIDE DEF e, p
<1>3. ASSUME NEW c, IsPlace(h, c), IsPath(PathOf(w, c)), Within(PathOf(w, c), p), PathOf(w, c) # p
      PROVE  c.prev \in T
  <2>1. /\ c.prev \in Id /\ c.ref \in Refs
        /\ c.prev = Root => PathOf(w, c) = <<>>
        /\ c.prev # Root => PathOf(w, c) = IF IsPath(w[c.prev]) THEN Append(w[c.prev], c.ref) ELSE CutOff
    BY <1>3, PathOfPlace
  <2>2. c.prev # Root
    BY <1>3, <2>1, EmptyIsAbove DEF p
  <2>3. IsPath(w[c.prev]) /\ PathOf(w, c) = Append(w[c.prev], c.ref)
    BY <1>1, <1>3, <2>1, <2>2
  <2>4. \A s : IsPath(s) => (Within(Append(w[c.prev], c.ref), s) <=> Within(w[c.prev], s) \/ s = Append(w[c.prev], c.ref))
    <3> DEFINE o == w[c.prev]
               t == c.ref
    <3>1. IsPath(o) /\ t \in Refs
      BY <2>1, <2>3
    <3> HIDE DEF o, t
    <3>2. \A s : IsPath(s) => (Within(Append(o, t), s) <=> Within(o, s) \/ s = Append(o, t))
      BY <3>1, Appending
    <3> QED BY <3>2 DEF o, t
  <2>5. Within(w[c.prev], p)
    BY <1>3, <2>3, <2>4 DEF p
  <2> QED BY <1>2, <1>3, <2>1, <2>3, <2>5
<1>4. T = {}
  <2> SUFFICES ASSUME T # {} PROVE FALSE
    OBVIOUS
  <2>1. PICK f \in T : \A t \in T : f <= t
    <3>1. T \subseteq Nat
      BY DEF Id
    <3> HIDE DEF T
    <3> QED BY <3>1, LeastNumber
  <2>2. f \in Id /\ IsPath(w[f]) /\ Within(w[f], p) /\ f # e
    OBVIOUS
  <2>3. PICK c \in Accessors : SlotAt(h, c) = f
    BY <1>1, <2>2 DEF ArePaths
  <2>4. IsPlace(h, c) /\ f > c.prev
    BY <2>2, <2>3, TakenArePlaces, PointersAreDistinct
  <2>5. PathOf(w, c) = w[f] /\ w[f] # p
    BY <1>1, <2>2, <2>3 DEF ArePaths
  <2>6. c.prev \in T
    BY <1>3, <2>2, <2>4, <2>5
  <2>7. f <= c.prev /\ f \in Nat /\ c.prev \in Nat
    BY <2>1, <2>2, <2>6 DEF Id
  <2> QED BY <2>4, <2>7
<1>5. ~(Within(PathOf(w, b), p) /\ PathOf(w, b) # p)
  BY <1>3, <1>4
<1> QED BY <1>5, StrictlyBelowIsWithin DEF p

\* set() of a scalar where there is one.
LEMMA RewritingAssigns ==
    ASSUME NEW h, WellFormed(h), NEW a, IsPlace(h, a), Holds(h, a, "scalar"), ArePaths(h, Paths(h)),
           NEW g, WellFormed(g), NEW x, g.slot = h.slot, g.kind = h.kind,
           \A e \in Id : g.val[e] = IF e = SlotAt(h, a) THEN x ELSE h.val[e]
    PROVE  Assigns(h, a, g, x)
<1> DEFINE w == Paths(h)
           d == DocumentOf(h, w)
           p == PathOf(w, a)
           c == PutAt(d, p, x)
<1>1. \A b : SlotAt(g, b) = SlotAt(h, b)
  BY DEF SlotAt
<1> HIDE DEF w
<1>2. ArePaths(g, w)
  BY <1>1 DEF ArePaths, w
<1>3. Paths(g) = w
  BY <1>2, PathsAre
<1>4. IsDocument(h, w, d) /\ IsDocument(g, w, DocumentOf(g, w)) /\ ArePaths(h, w)
  BY <1>2, DocumentIs DEF w
<1>5. a \in Accessors /\ SlotAt(h, a) \in Id /\ h.kind[SlotAt(h, a)] = "scalar"
  <2>1. a \in Accessors /\ Curr(h, a) # Null /\ h.kind[Curr(h, a)] = "scalar"
    BY DEF IsPlace, Holds
  <2> QED BY <2>1, Lookup DEF SlotAt, Pointers
<1>6. \A b \in Accessors : SlotAt(h, b) # Absent =>
         NodeAt(g, SlotAt(g, b)) = IF b = a THEN x ELSE NodeAt(h, SlotAt(h, b))
  <2> SUFFICES ASSUME NEW b \in Accessors, SlotAt(h, b) # Absent
               PROVE  NodeAt(g, SlotAt(h, b)) = IF b = a THEN x ELSE NodeAt(h, SlotAt(h, b))
    BY <1>1
  <2>1. SlotAt(h, b) \in Pointers
    BY TakenArePlaces
  <2>2. SlotAt(h, b) \in Id /\ SlotAt(h, b) = SlotAt(h, a) => b = a
    BY <1>5, OneHolder
  <2>3. SlotAt(h, a) # Null
    BY <1>5, PointersAreDistinct
  <2> QED BY <1>5, <2>1, <2>2, <2>3 DEF NodeAt, Pointers
<1>7. ~IsPath(CutOff)
  BY SourcesAreNoPaths DEF IsPath
<1>8. \A b : IsPlace(h, b) => PathOf(w, b) = PathCut(PathOf(w, b), p)
  BY <1>4, NothingBelowScalars DEF PathCut
<1> HIDE DEF d, p, c
<1>9. ASSUME ~IsPath(p) PROVE IsDocument(g, w, d)
  <2>1. \A b \in Accessors : IsPath(PathOf(w, b)) => b # a
    BY <1>9 DEF p
  <2> QED BY <1>1, <1>4, <1>6, <2>1 DEF IsDocument
<1>10. ASSUME IsPath(p) PROVE IsDocument(g, w, c)
  <2>1. p \in DOMAIN d
    BY <1>4, <1>5, <1>10, PointersAreDistinct DEF IsDocument, p
  <2>2. ASSUME NEW q \in DOMAIN d
        PROVE  q \in Kept(d, p)
    <3>1. PICK b \in Accessors : SlotAt(h, b) # Absent /\ PathOf(w, b) = q /\ IsPath(q)
      BY <1>4 DEF IsDocument
    <3>2. IsPlace(h, b)
      BY <3>1, TakenArePlaces
    <3> QED BY <1>4, <1>10, <3>1, <3>2, NothingBelowScalars DEF Kept, p
  <2>3. ASSUME NEW q \in D!Holes(p)
        PROVE  q \in DOMAIN d
    <3>1. PICK i \in Indices : i < a.ref /\ q = PathOf(w, [prev |-> a.prev, ref |-> i]) /\ h.kind[a.prev] = "list"
      BY <1>4, <1>10, <2>3, HolesAre DEF p
    <3> DEFINE b == [prev |-> a.prev, ref |-> i]
    <3>2. b \in Accessors /\ b.prev = a.prev /\ b.ref = i
      BY <1>5, <3>1 DEF Accessors, Refs
    <3>3. SlotAt(h, b) # Absent
      <4>1. a.prev \in Id /\ a.ref \in Refs /\ h.slot[a.prev][a.ref] # Absent
        BY <1>5, PointersAreDistinct DEF SlotAt, Accessors
      <4> QED BY <3>1, <3>2, <4>1 DEF WellFormed, SlotsFit, SlotAt
    <3> HIDE DEF b
    <3>4. PathOf(w, b) = q /\ IsPath(q)
      BY <1>4, <1>5, <1>10, <3>1, <3>2, GapsAreHoles DEF b, p
    <3> QED BY <1>4, <3>2, <3>3, <3>4 DEF IsDocument
  <2>4. /\ DOMAIN c = DOMAIN d
        /\ c = [q \in DOMAIN c |-> c[q]]
        /\ \A q \in DOMAIN c : c[q] = IF q = p THEN x ELSE d[q]
    <3>1. DOMAIN c = Kept(d, p) \cup D!Holes(p) \cup {p} /\ c = [q \in DOMAIN c |-> c[q]]
          /\ \A q \in DOMAIN c : c[q] = IF q = p THEN x ELSE IF q \in Kept(d, p) THEN d[q] ELSE "null"
      BY DEF c, PutAt
    <3>2. DOMAIN c = DOMAIN d
      BY <2>1, <2>2, <2>3, <3>1 DEF Kept
    <3> QED BY <2>2, <3>1, <3>2
  <2>5. ASSUME NEW b \in Accessors, SlotAt(h, b) # Absent, IsPath(PathOf(w, b)) PROVE PathOf(w, b) = p <=> b = a
    <3>1. IsPlace(h, b)
      BY <2>5, TakenArePlaces
    <3> QED BY <1>4, <1>10, <2>5, <3>1, OnePlacePerPath DEF p
  <2> QED BY <1>1, <1>4, <1>6, <2>4, <2>5 DEF IsDocument
<1>11. DocumentOf(g, w) = IF IsPath(p) THEN c ELSE d
  BY <1>4, <1>9, <1>10, DocumentsAreEqual
<1> QED BY <1>2, <1>3, <1>8, <1>11 DEF Assigns, c, d, p, w

\* What resolve_<T> does when it does not find a T.
LEMMA ResolveAssigns ==
    ASSUME NEW h, NEW a, NEW k \in {"map", "list"}, WellFormed(h), IsPlace(h, a), HasRoom(h, a, k),
           ~Holds(h, a, k), ArePaths(h, Paths(h))
    PROVE  /\ Assigns(h, a, Resolve(h, a, k), k)
           /\ Paths(Resolve(h, a, k))[Fresh(h)] = PathOf(Paths(h), a)
<1> DEFINE g == Resolve(h, a, k)
<1>1. CanGrow(h, a, k) /\ g = Grown(h, a, k)
  BY DEF CanGrow, HasRoom, Resolve, Grown, Makeable
<1> HIDE DEF g
<1>2. IsGrown(h, a, k) /\ WellFormed(g)
  BY <1>1, MakeAndAssign, MakeAndAssignWellFormed
<1>3. IsGrownTo(h, a, k, g)
  BY <1>1, <1>2 DEF IsGrownTo, IsGrown
<1>4. NodeAt(g, Fresh(h)) = k
  <2>1. Fresh(h) \in Id /\ g.kind = [h.kind EXCEPT ![Fresh(h)] = k] /\ h.kind \in [Id -> Kinds]
    BY <1>1, <1>2 DEF IsGrown, CanGrow, WellFormed, Heaps
  <2> QED BY <2>1, PointersAreDistinct DEF NodeAt
<1> QED BY <1>1, <1>2, <1>3, <1>4, GrowthAssigns DEF g

\* set_ assigns the value, whether or not it finds a scalar to write it to.
LEMMA StoreAssigns ==
    ASSUME NEW h, NEW a, NEW v \in Values, WellFormed(h), IsPlace(h, a), HasRoom(h, a, "scalar"),
           ArePaths(h, Paths(h))
    PROVE  Assigns(h, a, Store(h, a, v), v)
<1> DEFINE r == Resolve(h, a, "scalar")
           e == Resolved(h, a, "scalar")
           g == Store(h, a, v)
<1>1. WellFormed(g) /\ WellFormed(r) /\ e \in Id
  BY StorePreserves, ResolvePreserves DEF Makeable, ResolveOK
<1>2. g = [r EXCEPT !.val = [r.val EXCEPT ![e] = v]]
  BY <1>1 DEF Store, WellFormed, Heaps
<1> HIDE DEF r, e, g
<1>3. /\ g.slot = r.slot /\ g.kind = r.kind
      /\ \A f \in Id : g.val[f] = IF f = e THEN v ELSE r.val[f]
  BY <1>1, <1>2 DEF WellFormed, Heaps
<1>4. CASE Holds(h, a, "scalar")
  <2>1. r = h /\ e = Curr(h, a)
    BY <1>4 DEF Resolve, Resolved, r, e
  <2>2. e = SlotAt(h, a)
    BY <1>4, <2>1, Lookup DEF Holds, SlotAt
  <2> QED BY <1>1, <1>3, <1>4, <2>1, <2>2, RewritingAssigns DEF g
<1>5. CASE ~Holds(h, a, "scalar")
  <2>1. CanGrow(h, a, "scalar") /\ r = Grown(h, a, "scalar") /\ e = Fresh(h)
    BY <1>5 DEF CanGrow, HasRoom, Resolve, Resolved, Grown, Makeable, r, e
  <2>2. IsGrown(h, a, "scalar")
    BY <2>1, MakeAndAssign
  <2>3. IsGrownTo(h, a, "scalar", g)
    BY <1>3, <2>1, <2>2 DEF IsGrownTo, IsGrown
  <2>4. NodeAt(g, Fresh(h)) = v
    <3>1. Fresh(h) \in Id /\ g.kind = [h.kind EXCEPT ![Fresh(h)] = "scalar"] /\ h.kind \in [Id -> Kinds]
      BY <1>3, <2>1, <2>2 DEF IsGrown, CanGrow, WellFormed, Heaps
    <3> QED BY <1>3, <2>1, <3>1, PointersAreDistinct DEF NodeAt
  <2> QED BY <1>1, <2>1, <2>3, <2>4, GrowthAssigns DEF g
<1> QED BY <1>4, <1>5

\* What Document looks up is what the entries hold.
LEMMA KeptIsHeld ==
    ASSUME NEW h, WellFormed(h), NEW w, ArePaths(h, w), NEW a, IsPlace(h, a), IsPath(PathOf(w, a)),
           NEW k \in {"map", "list"}
    PROVE  /\ PathOf(w, a) \in DOMAIN DocumentOf(h, w) /\ DocumentOf(h, w)[PathOf(w, a)] = k
                <=> Holds(h, a, k)
<1> DEFINE d == DocumentOf(h, w)
           p == PathOf(w, a)
           e == SlotAt(h, a)
<1>1. IsDocument(h, w, d) /\ a \in Accessors
  BY DocumentIs DEF IsPlace
<1>2. e \in Pointers \cup {Absent} /\ Curr(h, a) = IF e = Absent THEN Null ELSE e
  BY Lookup DEF SlotAt
<1> HIDE DEF d, e
<1>3. CASE e = Absent
  <2>1. ASSUME p \in DOMAIN d PROVE FALSE
    <3>1. PICK b \in Accessors : SlotAt(h, b) # Absent /\ PathOf(w, b) = p
      BY <1>1, <2>1 DEF IsDocument
    <3> QED BY <1>3, <3>1, TakenArePlaces, OnePlacePerPath DEF e
  <2> QED BY <1>2, <1>3, <2>1 DEF Holds, d
<1>4. CASE e # Absent
  <2>1. p \in DOMAIN d /\ d[p] = NodeAt(h, e)
    BY <1>1, <1>4 DEF IsDocument, e
  <2>2. e \in Id => h.val[e] \in Values
    BY DEF WellFormed, Heaps
  <2>3. NodeAt(h, e) = k <=> e # Null /\ h.kind[e] = k
    BY <1>2, <1>4, <2>2, ValuesAreNoContainers DEF NodeAt, Pointers
  <2> QED BY <1>2, <1>4, <2>1, <2>3 DEF Holds, d
<1> QED BY <1>3, <1>4

\* So is what is below an entry: has() sees what the document has there.
LEMMA SeenIsHad ==
    ASSUME NEW h, WellFormed(h), NEW w, ArePaths(h, w), NEW a, IsPlace(h, a), NEW r \in Refs,
           IsPath(PathOf(w, a))
    PROVE  Append(PathOf(w, a), r) \in DOMAIN DocumentOf(h, w)
                <=> Curr(h, a) # Null /\ Has(h, Curr(h, a), r)
<1> DEFINE d == DocumentOf(h, w)
           p == PathOf(w, a)
           c == Curr(h, a)
           q == Append(p, r)
<1>1. IsDocument(h, w, d) /\ a \in Accessors
  BY DocumentIs DEF IsPlace
<1> HIDE DEF d, p
<1>2. IsPath(q) /\ q # <<>> /\ \A u, t : IsPath(u) /\ t \in Refs /\ q = Append(u, t) => p = u /\ r = t
  <2>1. IsPath(p)
    BY DEF p
  <2> QED BY <2>1, Appending
<1> HIDE DEF q
<1> USE DEF p
<1>3. ASSUME c # Null, Has(h, c, r) PROVE q \in DOMAIN d
  <2> DEFINE b == [prev |-> c, ref |-> r]
  <2>1. SlotAt(h, a) = c /\ c \in Id /\ c # Root
    BY <1>1, <1>3, Lookup, TakenArePlaces, PointersAreDistinct DEF SlotAt, Pointers
  <2>2. w[c] = p /\ h.kind[c] # "root"
    BY <1>1, <2>1 DEF ArePaths, WellFormed, OnlyMadeEntries
  <2>3. b \in Accessors /\ b.prev = c /\ b.ref = r
    BY <2>1 DEF Accessors
  <2>4. SlotAt(h, b) # Absent
    BY <1>3, <2>2, <2>3 DEF Has, SlotAt
  <2> HIDE DEF b
  <2>5. PathOf(w, b) = q
    BY <2>1, <2>2, <2>3, SourcesAreNoPaths DEF PathOf, q, IsPath
  <2> QED BY <1>1, <1>2, <2>3, <2>4, <2>5 DEF IsDocument
<1>4. ASSUME q \in DOMAIN d PROVE c # Null /\ Has(h, c, r)
  <2>1. PICK b \in Accessors : SlotAt(h, b) # Absent /\ PathOf(w, b) = q
    BY <1>1, <1>4 DEF IsDocument
  <2>2. IsPlace(h, b) /\ b.prev \in Id /\ b.ref \in Refs
    BY <2>1, TakenArePlaces DEF Accessors
  <2>3. b.prev # Root /\ IsPath(w[b.prev]) /\ q = Append(w[b.prev], b.ref)
    BY <1>2, <2>1, <2>2, PathOfPlace
  <2>4. w[b.prev] = p /\ b.ref = r
    BY <1>2, <2>2, <2>3
  <2>5. PICK o \in Accessors : SlotAt(h, o) = b.prev
    BY <2>2, <2>3, SourcesAreNoPaths DEF ArePaths, IsPath
  <2>6. PathOf(w, o) = p /\ IsPlace(h, o)
    BY <2>2, <2>4, <2>5, TakenArePlaces, PointersAreDistinct DEF ArePaths
  <2>7. o = a
    BY <2>6, OnePlacePerPath
  <2>8. c = b.prev
    BY <2>2, <2>5, <2>7, Lookup, PointersAreDistinct DEF SlotAt
  <2>9. h.slot[c][r] # Absent /\ Takes(h, c, r) /\ h.kind[c] # "root"
    BY <2>1, <2>2, <2>3, <2>4, <2>8 DEF SlotAt, IsPlace, WellFormed, OnlyMadeEntries
  <2> QED BY <2>2, <2>8, <2>9, PointersAreDistinct DEF Has, Takes, CanNext
<1> QED BY <1>3, <1>4 DEF d, q

-----------------------------------------------------------------------------
(***************************************************************************)
(* The initial states                                                      *)
(***************************************************************************)

\* Source::make builds the document it was given.
LEMMA MadeDocument ==
    ASSUME NEW k \in Makeable, NEW v \in Values, NEW r \in FirstRefs(k) \cup {Absent},
           NEW h, h = MadeHeap(k, v, r)
    PROVE  /\ ArePaths(h, Paths(h))
           /\ \/ DocumentOf(h, Paths(h)) = [p \in {<<>>} |-> IF k = "scalar" THEN v ELSE k]
              \/ /\ r \in Keys \cup {0}
                 /\ DocumentOf(h, Paths(h)) =
                       [p \in {<<>>, <<r>>} |-> IF p = <<>> THEN ContainerFor(r) ELSE v]
<1> DEFINE filled == k # "scalar" /\ r # Absent
           w == [e \in Id |-> IF e = 2 THEN <<>> ELSE IF e = 3 /\ filled THEN <<r>> ELSE CutOff]
           top == [prev |-> 1, ref |-> 0]
           item == [prev |-> 2, ref |-> r]
<1>1. /\ WellFormed(h) /\ {1, 2, 3} \subseteq Id
      /\ filled => r \in Refs /\ r \in Keys \cup {0} /\ k = ContainerFor(r)
      /\ \A e \in Id : h.kind[e] = IF e = 1 THEN "root" ELSE IF e = 2 THEN k
                                   ELSE IF e = 3 /\ filled THEN "scalar" ELSE "free"
      /\ \A e \in Id, x \in Refs :
            h.slot[e][x] = IF e = 1 /\ x = 0 THEN 2 ELSE IF e = 2 /\ filled /\ x = r THEN 3 ELSE Absent
      /\ h.val[2] = IF k = "scalar" THEN v ELSE Nil
      /\ filled => h.val[3] = v
  <2>1. \A q \in Keys : q \notin Indices
    BY KeysAreNotIndices
  <2>2. 0 \in Indices
    BY BoundsAssumption DEF Indices
  <2> QED BY <2>1, <2>2, MadeHeapOK, MadeEntries DEF FirstRefs, Refs, Makeable, ContainerFor
<1>2. \A e \in Id : w[e] = IF e = 2 THEN <<>> ELSE IF e = 3 /\ filled THEN <<r>> ELSE CutOff
  OBVIOUS
<1>3. /\ IsPath(<<>>) /\ ~IsPath(CutOff)
      /\ filled => IsPath(<<r>>) /\ <<r>> # <<>> /\ <<r>> = Append(<<>>, r)
  <2>1. \A t \in Refs : <<t>> \in Seq(Refs) /\ <<t>> # <<>> /\ <<t>> = Append(<<>>, t)
    OBVIOUS
  <2> QED BY <1>1, <2>1, EmptyIsAbove, SourcesAreNoPaths DEF IsPath
<1>4. /\ top \in Accessors /\ top.prev = 1 /\ top.ref = 0 /\ SlotAt(h, top) = 2
      /\ filled => item \in Accessors /\ item.prev = 2 /\ item.ref = r /\ SlotAt(h, item) = 3
  BY <1>1, BoundsAssumption DEF Accessors, SlotAt, Refs, Indices
<1>5. \A a \in Accessors : SlotAt(h, a) # Absent => a = top \/ (filled /\ a = item)
  BY <1>1 DEF Accessors, SlotAt
<1>6. w \in [Id -> Seq(Refs) \cup {CutOff}]
  <2>1. \A e \in Id : w[e] \in Seq(Refs) \cup {CutOff}
    BY <1>2, <1>3 DEF IsPath
  <2> QED BY <2>1
<1> HIDE DEF w, top, item
<1>7. PathOf(w, top) = <<>> /\ (filled => PathOf(w, item) = <<r>>)
  <2>1. w[2] = <<>> /\ w[2] # CutOff
    BY <1>1, <1>2, <1>3
  <2>2. \A x : x.prev = 2 /\ w[2] # CutOff => PathOf(w, x) = Append(w[2], x.ref)
    BY DEF PathOf
  <2>3. filled => PathOf(w, item) = <<r>>
    BY <1>3, <1>4, <2>1, <2>2, Zenon
  <2> QED BY <1>4, <2>3 DEF PathOf
<1>8. ArePaths(h, w)
  <2>1. \A e \in Id : (\A a \in Accessors : SlotAt(h, a) # e) => w[e] = CutOff
    BY <1>2, <1>4
  <2>2. \A a \in Accessors : SlotAt(h, a) \in Id => w[SlotAt(h, a)] = PathOf(w, a)
    BY <1>1, <1>2, <1>4, <1>5, <1>7, PointersAreDistinct
  <2>3. \A e, f \in Id : w[e] = w[f] /\ IsPath(w[e]) => e = f
    BY <1>2, <1>3
  <2> QED BY <1>6, <2>1, <2>2, <2>3 DEF ArePaths
<1>9. Paths(h) = w
  BY <1>1, <1>8, PathsAre
<1>10. NodeAt(h, 2) = (IF k = "scalar" THEN v ELSE k) /\ (filled => NodeAt(h, 3) = v)
  BY <1>1, PointersAreDistinct DEF NodeAt
<1>11. CASE filled
  <2> DEFINE c == [p \in {<<>>, <<r>>} |-> IF p = <<>> THEN ContainerFor(r) ELSE v]
  <2>1. /\ DOMAIN c = {<<>>, <<r>>} /\ c = [p \in DOMAIN c |-> c[p]]
        /\ c[<<>>] = ContainerFor(r) /\ c[<<r>>] = v
    BY <1>3, <1>11
  <2>2. SlotAt(h, top) # Absent /\ SlotAt(h, item) # Absent
    BY <1>1, <1>4, <1>11, PointersAreDistinct
  <2> HIDE DEF c
  <2>3. IsDocument(h, w, c)
    <3>1. \A p \in DOMAIN c : IsPath(p) /\ \E a \in Accessors : SlotAt(h, a) # Absent /\ PathOf(w, a) = p
      BY <1>3, <1>4, <1>7, <1>11, <2>1, <2>2
    <3>2. \A a \in Accessors : SlotAt(h, a) # Absent =>
             PathOf(w, a) \in DOMAIN c /\ c[PathOf(w, a)] = NodeAt(h, SlotAt(h, a))
      BY <1>1, <1>4, <1>5, <1>7, <1>10, <1>11, <2>1
    <3> QED BY <2>1, <3>1, <3>2 DEF IsDocument
  <2>4. DocumentOf(h, w) = c
    BY <1>1, <1>8, <2>3, DocumentIs, DocumentsAreEqual
  <2> QED BY <1>1, <1>8, <1>9, <1>11, <2>4 DEF c
<1>12. CASE ~filled
  <2> DEFINE x == IF k = "scalar" THEN v ELSE k
             c == [p \in {<<>>} |-> x]
  <2>1. DOMAIN c = {<<>>} /\ c = [p \in DOMAIN c |-> c[p]] /\ c[<<>>] = x
    OBVIOUS
  <2>2. SlotAt(h, top) # Absent
    BY <1>1, <1>4, PointersAreDistinct
  <2> HIDE DEF c, x
  <2>3. IsDocument(h, w, c)
    <3>1. \A p \in DOMAIN c : IsPath(p) /\ \E a \in Accessors : SlotAt(h, a) # Absent /\ PathOf(w, a) = p
      BY <1>3, <1>4, <1>7, <2>1, <2>2
    <3>2. \A a \in Accessors : SlotAt(h, a) # Absent =>
             PathOf(w, a) \in DOMAIN c /\ c[PathOf(w, a)] = NodeAt(h, SlotAt(h, a))
      BY <1>4, <1>5, <1>7, <1>10, <1>12, <2>1 DEF x
    <3> QED BY <2>1, <3>1, <3>2 DEF IsDocument
  <2>4. DocumentOf(h, w) = c
    BY <1>1, <1>8, <2>3, DocumentIs, DocumentsAreEqual
  <2> QED BY <1>8, <1>9, <2>4 DEF c, x
<1> QED BY <1>11, <1>12

-----------------------------------------------------------------------------
(***************************************************************************)
(* The steps                                                               *)
(***************************************************************************)

\* What the sources stand for when the entries are those of h.
AtIn(h, c) == [x \in Handles |-> IF c[x] = NoSource THEN NoSource ELSE PathOf(Paths(h), c[x])]

LEMMA MappedStates ==
    /\ docOf = DocumentOf(heap, Paths(heap)) /\ docOf' = DocumentOf(heap', Paths(heap'))
    /\ atOf = AtIn(heap, acc) /\ atOf' = AtIn(heap', acc')
BY DEF docOf, atOf, AtIn

\* Document's names for what both speak of.
LEMMA SharedNames ==
    /\ D!Refs = Refs
    /\ \A r : D!ContainerFor(r) = ContainerFor(r)
    /\ \A p, x : D!Put(p, x) = PutAt(docOf, p, x)
BY DEF D!Refs, D!Indices, Refs, Indices, D!ContainerFor, ContainerFor, D!Put, PutAt, Kept

\* A source that is held stands for a path or is cut off.
LEMMA WhereSourcesAre ==
    ASSUME IInv, ArePaths(heap, Paths(heap)), NEW x \in Handles
    PROVE  /\ acc[x] = NoSource => atOf[x] = NoSource
           /\ acc[x] # NoSource => /\ atOf[x] = PathOf(Paths(heap), acc[x])
                                   /\ atOf[x] = CutOff \/ IsPath(atOf[x])
                                   /\ IsPlace(heap, acc[x])
           /\ ~IsPath(CutOff) /\ ~IsPath(NoSource) /\ CutOff # NoSource
<1>1. ~IsPath(CutOff) /\ ~IsPath(NoSource) /\ CutOff # NoSource
  BY SourcesAreNoPaths DEF IsPath
<1>2. atOf[x] = IF acc[x] = NoSource THEN NoSource ELSE PathOf(Paths(heap), acc[x])
  BY MappedStates DEF AtIn
<1>3. acc[x] # NoSource => PathOf(Paths(heap), acc[x]) = CutOff \/ IsPath(PathOf(Paths(heap), acc[x]))
  BY PathOfPlace DEF IInv
<1> QED BY <1>1, <1>2, <1>3 DEF IInv

\* What an assignment does to the sources that are held.
LEMMA AssigningCuts ==
    ASSUME IInv, ArePaths(heap, Paths(heap)), NEW s \in Handles, acc[s] # NoSource,
           NEW g, NEW x, Assigns(heap, acc[s], g, x)
    PROVE  /\ ArePaths(g, Paths(g))
           /\ IsPath(atOf[s]) => AtIn(g, acc) = D!CutBelow(atOf[s])
                                 /\ DocumentOf(g, Paths(g)) = D!Put(atOf[s], x)
           /\ atOf[s] = CutOff => AtIn(g, acc) = atOf /\ DocumentOf(g, Paths(g)) = docOf
<1> DEFINE p == atOf[s]
<1>1. /\ p = PathOf(Paths(heap), acc[s]) /\ IsPlace(heap, acc[s])
      /\ ~IsPath(CutOff) /\ ~IsPath(NoSource) /\ CutOff # NoSource
  BY WhereSourcesAre
<1> HIDE DEF p
<1>2. /\ ArePaths(g, Paths(g))
      /\ \A b : IsPlace(heap, b) => PathOf(Paths(g), b) = PathCut(PathOf(Paths(heap), b), p)
      /\ DocumentOf(g, Paths(g)) = IF IsPath(p) THEN PutAt(docOf, p, x) ELSE docOf
  BY <1>1, MappedStates DEF Assigns
<1>3. ASSUME NEW y \in Handles
      PROVE  AtIn(g, acc)[y] = IF IsPath(p) /\ IsPath(atOf[y]) /\ D!StrictlyBelow(atOf[y], p)
                               THEN CutOff ELSE atOf[y]
  <2>1. AtIn(g, acc)[y] = IF acc[y] = NoSource THEN NoSource ELSE PathOf(Paths(g), acc[y])
    BY DEF AtIn
  <2> QED BY <1>1, <1>2, <2>1, WhereSourcesAre DEF PathCut
<1>4. AtIn(g, acc) = [y \in Handles |-> AtIn(g, acc)[y]] /\ atOf = [y \in Handles |-> atOf[y]]
  BY MappedStates DEF AtIn
<1>5. ASSUME IsPath(p) PROVE AtIn(g, acc) = D!CutBelow(p)
  <2>1. D!CutBelow(p) = [y \in Handles |->
            IF atOf[y] \in {NoSource, CutOff} THEN atOf[y]
            ELSE IF D!StrictlyBelow(atOf[y], p) THEN CutOff ELSE atOf[y]]
    BY DEF D!CutBelow
  <2>2. \A y \in Handles : AtIn(g, acc)[y] = D!CutBelow(p)[y]
    <3> SUFFICES ASSUME NEW y \in Handles PROVE AtIn(g, acc)[y] = D!CutBelow(p)[y]
      OBVIOUS
    <3>1. atOf[y] = NoSource \/ atOf[y] = CutOff \/ IsPath(atOf[y])
      BY WhereSourcesAre
    <3> QED BY <1>1, <1>3, <1>5, <2>1, <3>1
  <2> QED BY <1>4, <2>1, <2>2
<1>6. ASSUME p = CutOff PROVE AtIn(g, acc) = atOf
  BY <1>1, <1>3, <1>4, <1>6
<1> QED BY <1>1, <1>2, <1>5, <1>6, SharedNames DEF p

\* The step of Document that a step of the entries is.
Maps == ArePaths(heap', Paths(heap')) /\ [D!Next]_D!vars

\* s->next(r) walks, unless s is cut off.
LEMMA NextMaps ==
    ASSUME IInv, ArePaths(heap, Paths(heap)), NEW s \in Handles, NEW d \in Handles, NEW r \in Refs,
           Next_(s, r, d)
    PROVE  Maps
<1> DEFINE a == acc[s]
           k == ContainerFor(r)
           e == Resolved(heap, a, k)
           b == [prev |-> e, ref |-> r]
           p == atOf[s]
           g == heap'
<1>1. /\ a # NoSource /\ HasRoom(heap, a, k) /\ g = Resolve(heap, a, k)
      /\ acc' = [acc EXCEPT ![d] = b] /\ acc \in [Handles -> Accessors \cup {NoSource}]
      /\ WellFormed(heap) /\ IsPlace(heap, a) /\ k \in {"map", "list"}
  BY DEF Next_, IInv, ContainerFor
<1>2. /\ p = PathOf(Paths(heap), a) /\ (p = CutOff \/ IsPath(p)) /\ ~IsPath(CutOff)
      /\ CutOff # NoSource /\ ~IsPath(NoSource)
  BY <1>1, WhereSourcesAre
<1> HIDE DEF k, e, p, g
<1>3. e \in Id /\ b \in Accessors /\ b # NoSource
  <2>1. e \in Id
    BY <1>1, ResolvePreserves DEF ResolveOK, Makeable, e
  <2> QED BY <2>1, NoSourceIsNoAccessor DEF Accessors
<1>4. CASE Holds(heap, a, k)
  <2>1. g = heap /\ e = Curr(heap, a) /\ Curr(heap, a) # Null
    BY <1>1, <1>4 DEF Resolve, Resolved, e, Holds
  <2>2. e = SlotAt(heap, a)
    BY <1>1, <2>1, Lookup DEF SlotAt
  <2>3. Paths(heap)[e] = p /\ e # Root
    BY <1>1, <1>2, <1>3, <2>2, TakenArePlaces, PointersAreDistinct DEF ArePaths, IsPlace
  <2>4. PathOf(Paths(heap), b) = IF p = CutOff THEN CutOff ELSE Append(p, r)
    BY <2>3 DEF PathOf
  <2>5. docOf' = docOf /\ atOf' = [atOf EXCEPT ![d] = PathOf(Paths(heap), b)]
    BY <1>1, <1>3, <2>1, MappedStates DEF AtIn, g
  <2>6. CASE IsPath(p)
    <3>1. p \in DOMAIN docOf /\ docOf[p] = k
      BY <1>1, <1>2, <1>4, <2>6, KeptIsHeld, MappedStates
    <3>2. D!Walk(s, r, d)
      <4>1. atOf' = [atOf EXCEPT ![d] = Append(p, r)]
        BY <1>2, <2>4, <2>5, <2>6
      <4> QED BY <1>2, <2>5, <2>6, <3>1, <4>1, SharedNames DEF D!Walk, D!IsHeld, k, p
    <3> QED BY <2>1, <3>2, SharedNames DEF Maps, D!Next, g
  <2>7. CASE p = CutOff
    <3>1. D!Stray(s, d)
      BY <2>4, <2>5, <2>7 DEF D!Stray, p
    <3> QED BY <2>1, <3>1 DEF Maps, D!Next, g
  <2> QED BY <1>2, <2>6, <2>7
<1>5. CASE ~Holds(heap, a, k)
  <2>1. Assigns(heap, a, g, k) /\ Paths(g)[Fresh(heap)] = p /\ e = Fresh(heap)
    BY <1>1, <1>2, <1>5, ResolveAssigns DEF Resolved, e
  <2>2. e # Root
    <3>1. Root \in Id /\ heap.kind[Root] # "free"
      BY <1>1, BoundsAssumption DEF WellFormed, OnlyMadeEntries, Id
    <3> QED BY <1>1, <1>3, <2>1, <3>1, BoundsAssumption DEF WellFormed, OnlyMadeEntries, Heaps, Fresh, Id
  <2>3. PathOf(Paths(g), b) = IF p = CutOff THEN CutOff ELSE Append(p, r)
    BY <2>1, <2>2 DEF PathOf
  <2>4. /\ ArePaths(g, Paths(g))
        /\ IsPath(p) => AtIn(g, acc) = D!CutBelow(p) /\ DocumentOf(g, Paths(g)) = D!Put(p, k)
        /\ p = CutOff => AtIn(g, acc) = atOf /\ DocumentOf(g, Paths(g)) = docOf
    BY <1>1, <2>1, AssigningCuts DEF p
  <2>5. atOf' = [AtIn(g, acc) EXCEPT ![d] = PathOf(Paths(g), b)] /\ docOf' = DocumentOf(g, Paths(g))
    BY <1>1, <1>3, MappedStates DEF AtIn, g
  <2>6. CASE IsPath(p)
    <3>1. ~(p \in DOMAIN docOf /\ docOf[p] = k)
      BY <1>1, <1>2, <1>5, <2>6, KeptIsHeld, MappedStates
    <3>2. D!Walk(s, r, d)
      <4>1. atOf' = [D!CutBelow(p) EXCEPT ![d] = Append(p, r)] /\ docOf' = D!Put(p, k)
        BY <1>2, <2>3, <2>4, <2>5, <2>6
      <4> QED BY <1>2, <2>6, <3>1, <4>1, SharedNames DEF D!Walk, D!IsHeld, k, p
    <3> QED BY <2>4, <3>2, SharedNames DEF Maps, D!Next, g
  <2>7. CASE p = CutOff
    <3>1. D!Stray(s, d)
      BY <2>3, <2>4, <2>5, <2>7 DEF D!Stray, p
    <3> QED BY <2>4, <3>1 DEF Maps, D!Next, g
  <2> QED BY <1>2, <2>6, <2>7
<1> QED BY <1>4, <1>5

\* std::as_const(*s).next(r) peeks, unless s is cut off.
LEMMA ConstNextMaps ==
    ASSUME IInv, ArePaths(heap, Paths(heap)), NEW s \in Handles, NEW d \in Handles, NEW r \in Refs,
           ConstNext(s, r, d)
    PROVE  Maps
<1> DEFINE a == acc[s]
           c == Curr(heap, a)
           b == [prev |-> c, ref |-> r]
           p == atOf[s]
           w == Paths(heap)
           found == c # Null /\ Has(heap, c, r)
<1>1. /\ a # NoSource /\ heap' = heap
      /\ acc' = [acc EXCEPT ![d] = IF found THEN b ELSE NoSource]
      /\ acc \in [Handles -> Accessors \cup {NoSource}]
      /\ WellFormed(heap) /\ IsPlace(heap, a) /\ a \in Accessors
  BY DEF ConstNext, IInv, IsPlace
<1>2. /\ p = PathOf(w, a) /\ (p = CutOff \/ IsPath(p)) /\ ~IsPath(CutOff)
      /\ CutOff # NoSource /\ ~IsPath(NoSource)
  BY <1>1, WhereSourcesAre
<1> HIDE DEF p, c, w
<1>3. found => b # NoSource /\ PathOf(w, b) = IF p = CutOff THEN CutOff ELSE Append(p, r)
  <2> SUFFICES ASSUME found
               PROVE  b # NoSource /\ PathOf(w, b) = IF p = CutOff THEN CutOff ELSE Append(p, r)
    OBVIOUS
  <2>1. c = SlotAt(heap, a) /\ c \in Id
    BY <1>1, Lookup DEF SlotAt, Pointers, c
  <2>2. w[c] = p /\ c # Root
    BY <1>1, <1>2, <2>1, TakenArePlaces, PointersAreDistinct DEF ArePaths, w
  <2>3. b \in Accessors
    BY <2>1 DEF Accessors
  <2> QED BY <2>2, <2>3, NoSourceIsNoAccessor DEF PathOf
<1>4. docOf' = docOf /\ atOf' = [atOf EXCEPT ![d] = IF found THEN PathOf(w, b) ELSE NoSource]
  <2> HIDE DEF a, b
  <2> QED BY <1>1, <1>3, MappedStates DEF AtIn, w
<1>5. CASE IsPath(p)
  <2>1. Append(p, r) \in DOMAIN docOf <=> found
    BY <1>1, <1>2, <1>5, SeenIsHad, MappedStates DEF c, w
  <2>2. atOf' = [atOf EXCEPT ![d] = IF Append(p, r) \in DOMAIN docOf THEN Append(p, r) ELSE NoSource]
    BY <1>2, <1>3, <1>4, <1>5, <2>1
  <2>3. D!Peek(s, r, d)
    BY <1>2, <1>4, <1>5, <2>2 DEF D!Peek, D!IsHeld, p
  <2> QED BY <1>1, <2>3, SharedNames DEF Maps, D!Next
<1>6. CASE p = CutOff
  <2>1. D!Stray(s, d)
    BY <1>3, <1>4, <1>6 DEF D!Stray, p
  <2> QED BY <1>1, <2>1 DEF Maps, D!Next
<1> QED BY <1>2, <1>5, <1>6

\* s->set(v) writes, unless s is cut off.
LEMMA SetMaps ==
    ASSUME IInv, ArePaths(heap, Paths(heap)), NEW s \in Handles, NEW v \in Values, Set(s, v)
    PROVE  Maps
<1> DEFINE p == atOf[s]
<1>1. /\ acc[s] # NoSource /\ heap' = Store(heap, acc[s], v) /\ acc' = acc
      /\ WellFormed(heap) /\ IsPlace(heap, acc[s]) /\ HasRoom(heap, acc[s], "scalar")
  BY DEF Set, IInv
<1>2. Assigns(heap, acc[s], heap', v)
  BY <1>1, StoreAssigns
<1>3. p = CutOff \/ IsPath(p)
  BY <1>1, WhereSourcesAre
<1>4. docOf' = DocumentOf(heap', Paths(heap')) /\ atOf' = AtIn(heap', acc)
  BY <1>1, MappedStates
<1>5. /\ ArePaths(heap', Paths(heap'))
      /\ IsPath(p) => atOf' = D!CutBelow(p) /\ docOf' = D!Put(p, v)
      /\ p = CutOff => atOf' = atOf /\ docOf' = docOf
  BY <1>1, <1>2, <1>4, AssigningCuts
<1>6. CASE IsPath(p)
  <2>1. D!Write(s, v)
    BY <1>1, <1>5, <1>6, WhereSourcesAre DEF D!Write, D!IsHeld
  <2> QED BY <1>5, <2>1 DEF Maps, D!Next
<1>7. CASE p = CutOff
  BY <1>5, <1>7 DEF Maps, D!vars
<1> QED BY <1>3, <1>6, <1>7

LEMMA DropMaps ==
    ASSUME IInv, ArePaths(heap, Paths(heap)), NEW s \in Handles, Drop(s)
    PROVE  Maps
<1>1. heap' = heap /\ acc' = [acc EXCEPT ![s] = NoSource] /\ acc \in [Handles -> Accessors \cup {NoSource}]
  BY DEF Drop, IInv
<1>2. docOf' = docOf /\ atOf' = [atOf EXCEPT ![s] = NoSource]
  BY <1>1, MappedStates DEF AtIn
<1>3. D!Drop(s)
  BY <1>2 DEF D!Drop
<1> QED BY <1>1, <1>3 DEF Maps, D!Next

-----------------------------------------------------------------------------
(***************************************************************************)
(* The theorem                                                             *)
(***************************************************************************)

LEMMA InitMaps == Init => ArePaths(heap, Paths(heap)) /\ D!Init
<1> SUFFICES ASSUME Init PROVE ArePaths(heap, Paths(heap)) /\ D!Init
  OBVIOUS
<1>1. PICK k \in Makeable, v \in Values : \E r \in FirstRefs(k) \cup {Absent} : heap = MadeHeap(k, v, r)
  BY DEF Init, Makeable
<1>2. PICK r \in FirstRefs(k) \cup {Absent} : heap = MadeHeap(k, v, r)
  BY <1>1
<1>3. PICK d \in Handles : acc = [x \in Handles |-> IF x = d THEN RootAccessor ELSE NoSource]
  BY DEF Init
<1>4. /\ ArePaths(heap, Paths(heap))
      /\ \/ docOf = [p \in {<<>>} |-> IF k = "scalar" THEN v ELSE k]
         \/ r \in Keys \cup {0} /\ docOf = [p \in {<<>>, <<r>>} |-> IF p = <<>> THEN ContainerFor(r) ELSE v]
  BY <1>2, MadeDocument, MappedStates
<1>5. atOf = [x \in Handles |-> IF x = d THEN <<>> ELSE NoSource]
  <2>1. RootAccessor # NoSource /\ RootAccessor.prev = Root
    BY BoundsAssumption, NoSourceIsNoAccessor DEF RootAccessor, Accessors, Id, Refs, Indices
  <2>2. PathOf(Paths(heap), RootAccessor) = <<>>
    BY <2>1 DEF PathOf
  <2> QED BY <1>3, <2>1, <2>2, MappedStates DEF AtIn
<1>6. (IF k = "scalar" THEN v ELSE k) \in Values \cup {"map", "list"}
  BY DEF Makeable
<1>7. \/ \E x \in Values \cup {"map", "list"} : docOf = [p \in {<<>>} |-> x]
      \/ \E q \in Keys \cup {0}, x \in Values :
            docOf = [p \in {<<>>, <<q>>} |-> IF p = <<>> THEN D!ContainerFor(q) ELSE x]
  <2>1. CASE docOf = [p \in {<<>>} |-> IF k = "scalar" THEN v ELSE k]
    BY <1>6, <2>1
  <2>2. CASE r \in Keys \cup {0} /\ docOf = [p \in {<<>>, <<r>>} |-> IF p = <<>> THEN ContainerFor(r) ELSE v]
    <3>1. docOf = [p \in {<<>>, <<r>>} |-> IF p = <<>> THEN D!ContainerFor(r) ELSE v]
      BY <2>2, SharedNames
    <3> QED BY <2>2, <3>1
  <2> QED BY <1>4, <2>1, <2>2
<1> QED BY <1>4, <1>5, <1>7 DEF D!Init

LEMMA NextMapsOn == IInv /\ ArePaths(heap, Paths(heap)) /\ [Next]_vars => Maps
<1> SUFFICES ASSUME IInv, ArePaths(heap, Paths(heap)), [Next]_vars PROVE Maps
  OBVIOUS
<1>1. CASE Next
  BY <1>1, NextMaps, ConstNextMaps, SetMaps, DropMaps DEF Next
<1>2. CASE UNCHANGED vars
  <2>1. heap' = heap /\ acc' = acc
    BY <1>2 DEF vars
  <2>2. docOf' = docOf /\ atOf' = atOf
    BY <2>1, MappedStates
  <2> QED BY <2>1, <2>2 DEF Maps, D!vars
<1> QED BY <1>1, <1>2

\* Entries have one path each, however the document was walked and written.
THEOREM EntriesHavePaths == Spec => []ArePaths(heap, Paths(heap))
<1>1. IInv /\ ArePaths(heap, Paths(heap)) /\ [Next]_vars => ArePaths(heap, Paths(heap))'
  BY NextMapsOn DEF Maps
<1> QED BY <1>1, InitMaps, Invariance, PTL DEF Spec

\* Whatever is walked, peeked, set and dropped, in whatever order and through
\* however many sources, the entries and accessors do to the document what
\* Document says; a source below what was replaced never shows in it again.
THEOREM Implementation == Spec => ImplementsDocument
<1>1. IInv /\ ArePaths(heap, Paths(heap)) /\ [Next]_vars => [D!Next]_D!vars
  BY NextMapsOn DEF Maps
<1>2. Init => D!Init
  BY InitMaps
<1> QED BY <1>1, <1>2, Invariance, EntriesHavePaths, PTL DEF Spec, ImplementsDocument, D!Spec
=============================================================================
