-------------------------- MODULE EntryHeapProofs --------------------------
(***************************************************************************)
(* What assigning, resolving and storing leave of a heap, for every set of *)
(* keys and values and any bounds: it stays well-formed, places stay       *)
(* places, and what is found elsewhere stays.                              *)
(***************************************************************************)
EXTENDS EntryHeap, TLAPS, WellFoundedInduction

USE DEF RootRef, Root

WellFormed(h) ==
    /\ h \in Heaps
    /\ OnlyMadeEntries(h)
    /\ Acyclic(h)
    /\ NoSharing(h)
    /\ SlotsFit(h)

\* The places that accessors may stand for in a heap.
IsPlace(h, a) ==
    /\ a \in Accessors
    /\ a.prev <= h.used
    /\ Takes(h, a.prev, a.ref)

\* The heap resolve_ leaves when it does not find a T.
Makeable == {"scalar", "map", "list"}
CanGrow(h, a, k) == WellFormed(h) /\ IsPlace(h, a) /\ k \in Makeable /\ h.used < MaxEntries
Grown(h, a, k) == Assign(Make(h, k), a.prev, a.ref, Fresh(h))

\* What it has under r in e: the new entry in its place, null before it in a list.
SlotGrown(h, a, e, r) ==
    IF e # a.prev THEN h.slot[e][r]
    ELSE IF r = a.ref THEN Fresh(h)
    ELSE IF h.kind[e] = "list" /\ r \in Indices /\ r < a.ref /\ h.slot[e][r] = Absent
         THEN Null
    ELSE h.slot[e][r]

\* What Grown is, field by field.
IsGrown(h, a, k) ==
    /\ Fresh(h) \in Id
    /\ Grown(h, a, k) \in Heaps
    /\ Grown(h, a, k).used = Fresh(h)
    /\ Grown(h, a, k).val = h.val
    /\ Grown(h, a, k).kind = [h.kind EXCEPT ![Fresh(h)] = k]
    /\ \A e \in Id, r \in Refs : Grown(h, a, k).slot[e][r] = SlotGrown(h, a, e, r)

-----------------------------------------------------------------------------

\* What Entry_::assign of a new entry leaves behind, field by field.
LEMMA MakeAndAssign ==
    ASSUME NEW h, NEW a, NEW k, CanGrow(h, a, k)
    PROVE  IsGrown(h, a, k)
<1> DEFINE n == Fresh(h)
           m == Make(h, k)
           g == Grown(h, a, k)
<1>0. WellFormed(h) /\ IsPlace(h, a) /\ k \in Makeable /\ h.used < MaxEntries
  BY DEF CanGrow
<1>1. n \in Id /\ n \in Nat /\ n = h.used + 1 /\ h.used \in Nat /\ a.prev \in Id /\ a.ref \in Refs
  BY <1>0, BoundsAssumption DEF WellFormed, IsPlace, Heaps, Fresh, Id, Accessors
<1>2. /\ m.used = n /\ m.val = h.val /\ m.slot = h.slot /\ m.kind = [h.kind EXCEPT ![n] = k]
      /\ m \in Heaps
  <2>1. h.kind \in [Id -> Kinds] /\ h \in Heaps /\ k \in Kinds
    BY <1>0 DEF WellFormed, Heaps, Kinds, Makeable
  <2>2. m = [h EXCEPT !.kind = [h.kind EXCEPT ![n] = k], !.used = n]
    BY <2>1 DEF Make
  <2>3. [h.kind EXCEPT ![n] = k] \in [Id -> Kinds] /\ n \in 0..MaxEntries
    BY <1>1, <2>1, BoundsAssumption DEF Id
  <2> QED BY <2>1, <2>2, <2>3 DEF Heaps
<1>3. m.kind[a.prev] = h.kind[a.prev]
  BY <1>0, <1>1, <1>2 DEF IsPlace, WellFormed, Heaps, Id
<1>4. SlotOf(m, a.prev, a.ref) = a.ref
  BY <1>0, <1>3 DEF SlotOf, IsPlace, Takes
<1> DEFINE gap(x) == m.kind[a.prev] = "list" /\ x \in Indices /\ x < a.ref /\ m.slot[a.prev][x] = Absent
           row == [x \in Refs |-> IF x = a.ref THEN n ELSE IF gap(x) THEN Null ELSE m.slot[a.prev][x]]
           slots == [f \in Id |-> IF f = a.prev THEN row ELSE m.slot[f]]
<1>5. g = [m EXCEPT !.slot = slots]
  <2> HIDE DEF m
  <2> QED BY <1>4, Zenon DEF Assign, Grown, m, n
<1>6. row \in [Refs -> Pointers \cup {Absent}]
  BY <1>1, <1>2 DEF Heaps, Pointers
<1>7. g.used = m.used /\ g.val = m.val /\ g.kind = m.kind /\ g.slot = slots /\ g \in Heaps
  <2>1. slots \in [Id -> [Refs -> Pointers \cup {Absent}]]
    <3> HIDE DEF row, m
    <3> QED BY <1>2, <1>6 DEF Heaps
  <2> HIDE DEF row, m, g, slots
  <2> QED BY <1>2, <1>5, <2>1 DEF Heaps
<1>8. ASSUME NEW e \in Id, NEW r \in Refs
      PROVE  g.slot[e][r] = SlotGrown(h, a, e, r)
  <2>1. m.slot \in [Id -> [Refs -> Pointers \cup {Absent}]]
    BY <1>2 DEF Heaps
  <2>2. g.slot[e] = IF e = a.prev THEN row ELSE h.slot[e]
    <3>1. slots[e] = IF e = a.prev THEN row ELSE m.slot[e]
      OBVIOUS
    <3> HIDE DEF row, m, g, slots
    <3> QED BY <1>2, <1>7, <3>1
  <2> QED BY <2>2, <1>2, <1>3 DEF SlotGrown
<1> QED BY <1>1, <1>2, <1>7, <1>8 DEF IsGrown

\* resolve_ and the trees: the new entry is stored in one place and holds nothing.
LEMMA MakeAndAssignWellFormed ==
    ASSUME NEW h, NEW a, NEW k, CanGrow(h, a, k)
    PROVE  WellFormed(Grown(h, a, k))
<1> DEFINE n == Fresh(h)
           g == Grown(h, a, k)
<1>a. /\ n \in Id /\ g \in Heaps /\ g.used = n /\ g.kind = [h.kind EXCEPT ![n] = k]
      /\ \A e \in Id, r \in Refs : g.slot[e][r] = SlotGrown(h, a, e, r)
  <2>1. IsGrown(h, a, k)
    BY MakeAndAssign
  <2> QED BY <2>1 DEF IsGrown
<1> USE DEF CanGrow
<1>0. /\ n \in Id /\ n = h.used + 1 /\ h.used \in Nat /\ a.prev \in Id /\ a.ref \in Refs
      /\ g \in Heaps /\ g.used = n
      /\ h.kind \in [Id -> Kinds] /\ g.kind = [h.kind EXCEPT ![n] = k]
      /\ a.prev <= h.used
  BY <1>a, BoundsAssumption DEF WellFormed, Heaps, IsPlace, Accessors, Fresh
<1>1. \A e \in Id : g.kind[e] = IF e = n THEN k ELSE h.kind[e]
  BY <1>0
<1>2. \A e \in Id, r \in Refs :
          g.slot[e][r] = IF e # a.prev THEN h.slot[e][r]
                         ELSE IF r = a.ref THEN n
                         ELSE IF /\ h.kind[e] = "list" /\ r \in Indices
                                 /\ r < a.ref /\ h.slot[e][r] = Absent
                              THEN Null ELSE h.slot[e][r]
  BY <1>a DEF SlotGrown
<1>3. \A e \in Id : e \in Nat
  BY DEF Id
<1>4. h.kind[n] = "free" /\ \A e \in Id, r \in Refs : h.slot[e][r] # n
  BY <1>0, <1>3 DEF WellFormed, OnlyMadeEntries, Acyclic
<1> HIDE DEF n, g
<1>5. OnlyMadeEntries(g)
  <2> SUFFICES ASSUME NEW e \in Id
               PROVE  (g.kind[e] = "free" <=> e > n) /\ (g.kind[e] = "root" <=> e = Root)
    BY <1>0 DEF OnlyMadeEntries
  <2>1. (h.kind[e] = "free" <=> e > h.used) /\ (h.kind[e] = "root" <=> e = Root)
    BY DEF WellFormed, OnlyMadeEntries
  <2>2. k # "free" /\ k # "root"
    BY DEF Makeable
  <2>3. n # Root
    BY <1>0, <1>4 DEF WellFormed, OnlyMadeEntries
  <2> QED BY <2>1, <2>2, <2>3, <1>0, <1>1, <1>3
<1>6. Acyclic(g)
  <2> SUFFICES ASSUME NEW e \in Id, NEW r \in Refs, g.slot[e][r] \in Id
               PROVE  g.slot[e][r] > e /\ g.slot[e][r] <= n
    BY <1>0 DEF Acyclic
  <2>1. h.slot[e][r] \in Id => h.slot[e][r] > e /\ h.slot[e][r] <= h.used
    BY DEF WellFormed, Acyclic
  <2>2. g.slot[e][r] = h.slot[e][r] \/ (g.slot[e][r] = n /\ e = a.prev)
    BY <1>2, PointersAreDistinct
  <2>3. e \in Nat /\ n \in Nat
    BY <1>0, <1>3
  <2>4. CASE g.slot[e][r] = h.slot[e][r]
    <3>1. h.slot[e][r] \in Nat
      BY <2>4, <1>3
    <3> QED BY <2>1, <2>3, <2>4, <3>1, <1>0
  <2>5. CASE g.slot[e][r] = n /\ e = a.prev
    BY <2>3, <2>5, <1>0
  <2> QED BY <2>2, <2>4, <2>5
<1>7. NoSharing(g)
  BY <1>0, <1>2, <1>4, PointersAreDistinct DEF NoSharing, WellFormed
<1>8. SlotsFit(g)
  <2> SUFFICES ASSUME NEW e \in Id, NEW r \in Refs, g.slot[e][r] # Absent
               PROVE  /\ Takes(g, e, r)
                      /\ g.slot[e][r] = Null => g.kind[e] = "list"
                      /\ g.kind[e] = "list" => \A i \in Indices : i < r => g.slot[e][i] # Absent
    BY DEF SlotsFit
  <2>1. e # n
    BY <1>0, <1>2, <1>4 DEF WellFormed, SlotsFit, Takes, CanNext
  <2>2. g.kind[e] = h.kind[e]
    BY <1>1, <2>1
  <2>3. CASE e # a.prev
    BY <2>2, <2>3, <1>2 DEF WellFormed, SlotsFit, Takes, CanNext, Indices, Refs
  <2>4. CASE e = a.prev
    <3>1. Takes(g, e, r)
      BY <2>2, <2>4, <1>2 DEF WellFormed, SlotsFit, Takes, CanNext, IsPlace
    <3>2. g.slot[e][r] = Null => g.kind[e] = "list"
      BY <2>2, <2>4, <1>0, <1>2, PointersAreDistinct DEF WellFormed, SlotsFit
    <3>3. ASSUME g.kind[e] = "list", NEW i \in Indices, i < r
          PROVE  g.slot[e][i] # Absent
      <4>1. i \in Refs /\ r \in Indices /\ a.ref \in Indices /\ i \in Nat /\ r \in Nat /\ a.ref \in Nat
        BY <3>1, <3>3, <2>2, <2>4 DEF Refs, Takes, CanNext, IsPlace, Indices
      <4>2. CASE h.slot[e][r] # Absent
        <5>1. h.slot[e][i] # Absent
          BY <2>2, <3>3, <4>2 DEF WellFormed, SlotsFit
        <5> QED BY <5>1, <4>1, <1>2, <1>0, <2>4, PointersAreDistinct
      <4>3. CASE h.slot[e][r] = Absent
        <5>1. r <= a.ref
          BY <4>1, <4>3, <1>2, <2>4, <2>2, <3>3
        <5> QED BY <5>1, <4>1, <3>3, <2>2, <1>2, <1>0, <2>4, PointersAreDistinct
      <4> QED BY <4>2, <4>3
    <3> QED BY <3>1, <3>2, <3>3
  <2> QED BY <2>3, <2>4
<1> QED BY <1>0, <1>5, <1>6, <1>7, <1>8 DEF WellFormed, g

\* A place stays one: entries never change their kind.
LEMMA PlacesStay ==
    ASSUME NEW h, NEW a, NEW k, CanGrow(h, a, k), NEW b, IsPlace(h, b)
    PROVE  IsPlace(Grown(h, a, k), b)
<1>1. IsGrown(h, a, k)
  BY MakeAndAssign
<1> DEFINE g == Grown(h, a, k)
<1>2. b.prev \in Id /\ b.prev # Fresh(h) /\ h.kind \in [Id -> Kinds] /\ b.prev <= Fresh(h)
  BY DEF CanGrow, WellFormed, Heaps, IsPlace, Accessors, Fresh, Id
<1>3. g.kind[b.prev] = h.kind[b.prev]
  BY <1>1, <1>2 DEF IsGrown
<1> QED BY <1>1, <1>2, <1>3 DEF IsGrown, IsPlace, Takes, CanNext

\* resolve_<T> leaves a well-formed heap and returns a T that is in it.
ResolveOK(h, a, k) ==
    /\ WellFormed(Resolve(h, a, k))
    /\ Resolved(h, a, k) \in Id
    /\ Resolved(h, a, k) <= Resolve(h, a, k).used
    /\ Resolve(h, a, k).kind[Resolved(h, a, k)] = k

LEMMA ResolvePreserves ==
    ASSUME NEW h, NEW a, NEW k, WellFormed(h), IsPlace(h, a), k \in Makeable, HasRoom(h, a, k)
    PROVE  ResolveOK(h, a, k)
<1>1. CASE Holds(h, a, k)
  <2>1. Resolve(h, a, k) = h /\ Resolved(h, a, k) = Curr(h, a)
    BY <1>1 DEF Resolve, Resolved
  <2>2. a.prev \in Id /\ a.ref \in Refs /\ SlotOf(h, a.prev, a.ref) = a.ref
    BY DEF IsPlace, Takes, SlotOf, Accessors
  <2>3. Curr(h, a) # Null /\ h.kind[Curr(h, a)] = k
    BY <1>1 DEF Holds
  <2>4. Curr(h, a) = h.slot[a.prev][a.ref] /\ h.slot[a.prev][a.ref] \in Id
    BY <2>2, <2>3 DEF Curr, Stored, WellFormed, Heaps, Pointers
  <2>5. Curr(h, a) <= h.used
    BY <2>2, <2>4 DEF WellFormed, Acyclic
  <2> QED BY <2>1, <2>3, <2>4, <2>5 DEF ResolveOK
<1>2. CASE ~Holds(h, a, k)
  <2>1. CanGrow(h, a, k)
    BY <1>2 DEF CanGrow, HasRoom
  <2>2. Resolve(h, a, k) = Grown(h, a, k) /\ Resolved(h, a, k) = Fresh(h)
    BY <1>2 DEF Resolve, Resolved, Grown
  <2>3. WellFormed(Grown(h, a, k)) /\ IsGrown(h, a, k)
    BY <2>1, MakeAndAssign, MakeAndAssignWellFormed
  <2>4. Fresh(h) \in Id /\ Grown(h, a, k).used = Fresh(h) /\ Grown(h, a, k).kind[Fresh(h)] = k
    BY <2>1, <2>3 DEF IsGrown, CanGrow, WellFormed, Heaps
  <2>5. Fresh(h) <= Fresh(h)
    BY <2>4 DEF Id
  <2> QED BY <2>2, <2>3, <2>4, <2>5 DEF ResolveOK
<1> QED BY <1>1, <1>2

LEMMA ResolveKeepsPlaces ==
    ASSUME NEW h, NEW a, NEW k, WellFormed(h), IsPlace(h, a), k \in Makeable, HasRoom(h, a, k),
           NEW b, IsPlace(h, b)
    PROVE  IsPlace(Resolve(h, a, k), b)
<1>1. CASE Holds(h, a, k)
  BY <1>1 DEF Resolve
<1>2. CASE ~Holds(h, a, k)
  <2>1. CanGrow(h, a, k)
    BY <1>2 DEF CanGrow, HasRoom
  <2>2. Resolve(h, a, k) = Grown(h, a, k)
    BY <1>2 DEF Resolve, Grown
  <2> QED BY <2>1, <2>2, PlacesStay
<1> QED BY <1>1, <1>2

\* Only values differ between what resolve_<ScalarEntry> leaves and what set_ does.
LEMMA StorePreserves ==
    ASSUME NEW h, NEW a, NEW v \in Values, WellFormed(h), IsPlace(h, a), HasRoom(h, a, "scalar")
    PROVE  /\ WellFormed(Store(h, a, v))
           /\ \A b : IsPlace(h, b) => IsPlace(Store(h, a, v), b)
<1> DEFINE g == Resolve(h, a, "scalar")
           e == Resolved(h, a, "scalar")
           s == Store(h, a, v)
<1>1. ResolveOK(h, a, "scalar")
  BY ResolvePreserves DEF Makeable
<1>2. WellFormed(g) /\ e \in Id
  BY <1>1 DEF ResolveOK
<1>3. s = [g EXCEPT !.val = [g.val EXCEPT ![e] = v]]
  BY <1>2 DEF Store, WellFormed, Heaps
<1>4. \A b : IsPlace(h, b) => IsPlace(g, b)
  BY ResolveKeepsPlaces DEF Makeable
<1> HIDE DEF g, e, s
<1>5. [g.val EXCEPT ![e] = v] \in [Id -> Values] /\ g \in Heaps
  BY <1>2 DEF WellFormed, Heaps
<1>6. s \in Heaps /\ s.kind = g.kind /\ s.slot = g.slot /\ s.used = g.used
  BY <1>3, <1>5 DEF Heaps
<1>7. WellFormed(s)
  BY <1>2, <1>6 DEF WellFormed, OnlyMadeEntries, Acyclic, NoSharing, SlotsFit, Takes, CanNext
<1>8. \A b : IsPlace(g, b) => IsPlace(s, b)
  BY <1>6 DEF IsPlace, Takes, CanNext
<1> QED BY <1>4, <1>7, <1>8 DEF s

\* What an accessor finds is what its slot holds.
LEMMA Lookup ==
    ASSUME NEW h, NEW a, WellFormed(h), IsPlace(h, a)
    PROVE  /\ a.prev \in Id /\ a.ref \in Refs
           /\ h.slot[a.prev][a.ref] \in Pointers \cup {Absent}
           /\ Curr(h, a) = IF h.slot[a.prev][a.ref] = Absent THEN Null ELSE h.slot[a.prev][a.ref]
<1>1. a.prev \in Id /\ a.ref \in Refs /\ SlotOf(h, a.prev, a.ref) = a.ref
  BY DEF IsPlace, Takes, SlotOf, Accessors
<1>2. h.slot[a.prev][a.ref] \in Pointers \cup {Absent}
  BY <1>1 DEF WellFormed, Heaps
<1> QED BY <1>1, <1>2 DEF Curr, Stored

\* Two places are different slots.
LEMMA DifferentPlaces ==
    ASSUME NEW h, NEW a, NEW b, IsPlace(h, a), IsPlace(h, b), a # b
    PROVE  a.prev # b.prev \/ a.ref # b.ref
BY DEF IsPlace, Accessors

\* A new entry changes what is found at its own place only.
LEMMA GrowthKeepsLookups ==
    ASSUME NEW h, NEW a, NEW k, CanGrow(h, a, k), NEW b, IsPlace(h, b), a # b
    PROVE  Curr(Grown(h, a, k), b) = Curr(h, b) /\ Curr(h, b) # Fresh(h)
<1> DEFINE g == Grown(h, a, k)
<1>1. WellFormed(h) /\ IsPlace(h, a) /\ WellFormed(g) /\ IsPlace(g, b) /\ IsGrown(h, a, k)
  BY MakeAndAssign, MakeAndAssignWellFormed, PlacesStay DEF CanGrow
<1>2. /\ b.prev \in Id /\ b.ref \in Refs
      /\ h.slot[b.prev][b.ref] \in Pointers \cup {Absent}
      /\ Curr(h, b) = IF h.slot[b.prev][b.ref] = Absent THEN Null ELSE h.slot[b.prev][b.ref]
  BY <1>1, Lookup
<1>3. Curr(g, b) = IF g.slot[b.prev][b.ref] = Absent THEN Null ELSE g.slot[b.prev][b.ref]
  BY <1>1, Lookup
<1>4. g.slot[b.prev][b.ref] = SlotGrown(h, a, b.prev, b.ref)
  BY <1>1, <1>2 DEF IsGrown
<1>5. a.prev # b.prev \/ a.ref # b.ref
  BY <1>1, DifferentPlaces
<1>6. h.slot[b.prev][b.ref] # Fresh(h)
  <2>1. Fresh(h) \in Id /\ h.used \in Nat /\ Fresh(h) = h.used + 1
    BY <1>1, BoundsAssumption DEF IsGrown, WellFormed, Heaps, Fresh
  <2> QED BY <1>1, <1>2, <2>1 DEF WellFormed, Acyclic
<1>7. Fresh(h) # Null
  BY <1>1, PointersAreDistinct DEF IsGrown
<1> QED BY <1>2, <1>3, <1>4, <1>5, <1>6, <1>7, PointersAreDistinct DEF SlotGrown

\* What is found at a place is an entry of the heap.
LEMMA FoundIsMade ==
    ASSUME NEW h, NEW a, WellFormed(h), IsPlace(h, a), Curr(h, a) # Null
    PROVE  Curr(h, a) \in Id
BY Lookup DEF Pointers

\* Every set of numbers that is not empty has a least one.
LEMMA LeastNumber ==
    ASSUME NEW T, T \subseteq Nat, T # {}
    PROVE  \E x \in T : \A y \in T : x <= y
<1> DEFINE R == {ss \in Nat \X Nat : ss[1] < ss[2]}
<1>1. IsWellFoundedOn(R, Nat)
  BY NatLessThanWellFounded DEF OpToRel
<1>2. \E x \in T : \A y \in T : ~ (<<y, x>> \in R)
  <2> HIDE DEF R
  <2> QED BY <1>1, WFMin
<1>3. PICK x \in T : \A y \in T : ~ (<<y, x>> \in R)
  BY <1>2
<1>4. ASSUME NEW y \in T PROVE x <= y
  <2>1. <<y, x>> \in Nat \X Nat /\ x \in Nat /\ y \in Nat
    OBVIOUS
  <2>2. ~(y < x)
    BY <1>3, <2>1
  <2> QED BY <2>1, <2>2
<1> QED BY <1>4
=============================================================================
