----------------------------- MODULE EntryHeap -----------------------------
(***************************************************************************)
(* The entries behind an in-memory document and the steps an Accessor      *)
(* takes over them (src/source/entry.cpp).                                 *)
(*                                                                         *)
(* Every std::make_shared<...Entry> gets the next number, so an entry is   *)
(* named by the order of its creation and a pointer to it is that number.  *)
(* A heap is a record of functions over those numbers:                     *)
(*   kind  the dynamic type of the entry, "free" before it is created;     *)
(*   slot  the children: for a map or a list, what is stored under each    *)
(*         reference (Absent: nothing, Null: a null pointer, which the     *)
(*         gaps of a resized list hold); for the root, what RootRef holds; *)
(*   val   the value of a scalar;                                          *)
(*   used  the number of entries created so far.                           *)
(* Entries are never destroyed here: an entry nobody points to any more    *)
(* cannot be told from a destroyed one.                                    *)
(***************************************************************************)
EXTENDS Naturals

CONSTANTS
    Keys,        \* the keys of maps
    MaxIndex,    \* bound: the largest list index that is used
    Values,      \* the (type, value) pairs a scalar can hold
    Nil,         \* the value a ScalarEntry is born with
    MaxEntries,  \* bound: how many entries are created
    Null,        \* the null pointer
    Absent       \* no such key, or an index past the end

Id      == 1..MaxEntries
Indices == 0..MaxIndex
Refs    == Keys \cup Indices
RootRef == 0     \* Reference() is the index 0

ASSUME BoundsAssumption == MaxIndex \in Nat /\ MaxEntries \in Nat /\ MaxEntries >= 3
ASSUME KeysAreNotIndices == Keys \cap Indices = {}
ASSUME PointersAreDistinct == Null \notin Id /\ Absent \notin Id /\ Null # Absent
ASSUME NilIsAValue == Nil \in Values

Kinds    == {"free", "root", "scalar", "map", "list"}
Pointers == Id \cup {Null}
Heaps    == [kind: [Id -> Kinds],
             slot: [Id -> [Refs -> Pointers \cup {Absent}]],
             val:  [Id -> Values],
             used: 0..MaxEntries]

NoSlots == [r \in Refs |-> Absent]

\* Where an entry keeps what it stores under r: a RootEntry ignores the reference.
SlotOf(h, e, r) == IF h.kind[e] = "root" THEN RootRef ELSE r

\* Entry_::has: a map knows keys, a list indices, a scalar nothing.
Has(h, e, r) ==
    \/ h.kind[e] = "root" /\ h.slot[e][RootRef] # Null
    \/ h.kind[e] = "map" /\ r \in Keys /\ h.slot[e][r] # Absent
    \/ h.kind[e] = "list" /\ r \in Indices /\ h.slot[e][r] # Absent

\* Entry_::next() const: what is stored under r, null when there is nothing.
Stored(h, e, r) ==
    LET p == h.slot[e][SlotOf(h, e, r)] IN IF p = Absent THEN Null ELSE p

\* What Entry_::next() const accepts: a scalar throws InvalidAccessError, a
\* map given an index or a list given a key throws std::bad_variant_access.
CanNext(h, e, r) ==
    \/ h.kind[e] = "root"
    \/ h.kind[e] = "map" /\ r \in Keys
    \/ h.kind[e] = "list" /\ r \in Indices

\* The places an accessor may stand for: below the root there is one, and
\* elsewhere those whose lookup does not throw.
Takes(h, e, r) == CanNext(h, e, r) /\ (h.kind[e] = "root" => r = RootRef)

\* Mutants of Assign: resize() left out, the gaps filled with the new entry
\* (resize(index + 1, entry)), everything before the index reset.
AssignWithoutResize(h, e, r, c) == [h EXCEPT !.slot[e][SlotOf(h, e, r)] = c]
AssignFillsGaps(h, e, r, c) ==
    [h EXCEPT !.slot[e] = [x \in Refs |->
        IF x = SlotOf(h, e, r) \/ (h.kind[e] = "list" /\ x \in Indices /\ x < r /\ h.slot[e][x] = Absent)
        THEN c ELSE h.slot[e][x]]]
AssignResets(h, e, r, c) ==
    [h EXCEPT !.slot[e] = [x \in Refs |->
        IF x = SlotOf(h, e, r) THEN c
        ELSE IF h.kind[e] = "list" /\ x \in Indices /\ x < r THEN Null ELSE h.slot[e][x]]]

\* Entry_::assign: a list that is too short grows, null pointers in between.
Assign(h, e, r, c) ==
    LET at == SlotOf(h, e, r)
        IsGap(x) == h.kind[e] = "list" /\ x \in Indices /\ x < r /\ h.slot[e][x] = Absent
        row == [x \in Refs |-> IF x = at THEN c ELSE IF IsGap(x) THEN Null ELSE h.slot[e][x]]
    IN  [h EXCEPT !.slot = [f \in Id |-> IF f = e THEN row ELSE h.slot[f]]]

\* std::make_shared<T>(); its number is Fresh(h).
Fresh(h) == h.used + 1
Make(h, k) == [h EXCEPT !.kind = [@ EXCEPT ![Fresh(h)] = k], !.used = Fresh(h)]

(***************************************************************************)
(* An Accessor is the entry above and the reference below it: it does not  *)
(* hold the entry it stands for, but looks it up at every call.            *)
(***************************************************************************)
Accessors == [prev: Id, ref: Refs]

\* The accessor Source::make returns.
Root == 1
RootAccessor == [prev |-> Root, ref |-> RootRef]

\* Accessor::curr_
Curr(h, a) == Stored(h, a.prev, a.ref)

\* The kind of container a reference steps into.
ContainerFor(r) == IF r \in Indices THEN "list" ELSE "map"

\* Mutant of Holds: any container will do where a map or a list is wanted.
HoldsAContainer(h, a, k) ==
    Curr(h, a) # Null /\ ((k = "scalar") <=> (h.kind[Curr(h, a)] = "scalar"))

\* Whether resolve_<T> finds a T where the accessor points.
Holds(h, a, k) == Curr(h, a) # Null /\ h.kind[Curr(h, a)] = k

\* Mutant of Resolved: what was found, though it has been replaced.
ResolvedBefore(h, a, k) == Curr(h, a)

\* Accessor::resolve_<T>, the mutable one: anything but a T is replaced by a
\* new T. The heap it leaves, and the entry it returns.
Resolve(h, a, k) ==
    IF Holds(h, a, k) THEN h ELSE Assign(Make(h, k), a.prev, a.ref, Fresh(h))
Resolved(h, a, k) ==
    IF Holds(h, a, k) THEN Curr(h, a) ELSE Fresh(h)

\* Whether the bound on entries leaves room for the resolution.
HasRoom(h, a, k) == Holds(h, a, k) \/ h.used < MaxEntries

\* Accessor::set_: the scalar in place is reused, anything else is replaced.
Store(h, a, v) ==
    LET e == Resolved(h, a, "scalar")
    IN  [Resolve(h, a, "scalar") EXCEPT !.val[e] = v]

\* Accessor::get_ const: the scalar where the accessor points, if there is one.
IsScalar(h, a) == Holds(h, a, "scalar")
Load(h, a) == h.val[Curr(h, a)]

-----------------------------------------------------------------------------
(***************************************************************************)
(* What a well-formed heap is                                              *)
(***************************************************************************)

\* The entries made so far are the ones in use; the root is the only RootEntry.
OnlyMadeEntries(h) ==
    \A e \in Id :
        /\ h.kind[e] = "free" <=> e > h.used
        /\ h.kind[e] = "root" <=> e = Root

\* A child is an entry that exists and is newer than the entry that holds it:
\* there are no cycles of std::shared_ptr, which would never be destroyed.
Acyclic(h) ==
    \A e \in Id, r \in Refs :
        h.slot[e][r] \in Id => h.slot[e][r] > e /\ h.slot[e][r] <= h.used

\* No entry is held in two places: a write through one of them would show in
\* the other.
NoSharing(h) ==
    \A e, f \in Id, r, q \in Refs :
        h.slot[e][r] \in Id /\ h.slot[e][r] = h.slot[f][q] => e = f /\ r = q

\* Something is stored only under references its holder takes, null only in
\* lists, and the indices of a list are a prefix of the numbers.
SlotsFit(h) ==
    \A e \in Id, r \in Refs : h.slot[e][r] # Absent =>
        /\ Takes(h, e, r)
        /\ h.slot[e][r] = Null => h.kind[e] = "list"
        /\ h.kind[e] = "list" => \A i \in Indices : i < r => h.slot[e][i] # Absent
=============================================================================
