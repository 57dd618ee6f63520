----------------------------- MODULE OrderedMap -----------------------------
(***************************************************************************)
(* OrderedMap of include/cray/detail/ordered_map.hpp: a hash map, and the  *)
(* order its keys were first put in. Maps of a document and properties of  *)
(* a map are held in one; reports and ok() walk through it with a range    *)
(* for, calling back at every key, and what is called may put keys in.     *)
(*                                                                         *)
(* Next to the map there are the reference operator[] returned last and    *)
(* the range for under way.                                                *)
(***************************************************************************)
EXTENDS Naturals, Sequences, Functions

CONSTANTS
    Keys, Values,
    NewValue,       \* T()
    None            \* no reference is held

ASSUME NewIsValue == NewValue \in Values
ASSUME NoneIsNoKey == None \notin Keys

VARIABLES
    order_,         \* keys, in the order they were put in
    values_,        \* the hash map
    held,           \* the key of the value referred to
    walk            \* where the range for is, where it ends, and what it met

vars == <<order_, values_, held, walk>>

Idle == [at |-> 0, end |-> 0, met |-> <<>>]

Init ==
    /\ order_ = <<>>
    /\ values_ = [k \in {} |-> NewValue]
    /\ held = None
    /\ walk = Idle

With(f, k, v) == [j \in DOMAIN f \cup {k} |-> IF j = k THEN v ELSE f[j]]

\* Mutant of EmplaceKey: a key that is there is put at the end.
EmplaceKeyLast(k) == Append(SelectSeq(order_, LAMBDA j : j # k), k)

\* Mutant of EmplaceKey: whether the key is new is not asked.
EmplaceKeyAgain(k) == Append(order_, k)

\* OrderedMap::emplace_key_, and the same lines of operator[].
EmplaceKey(k) == IF k \in DOMAIN values_ THEN order_ ELSE Append(order_, k)

\* insert: a value that is there stays.
Insert(k, v) ==
    /\ order_' = EmplaceKey(k)
    /\ values_' = IF k \in DOMAIN values_ THEN values_ ELSE With(values_, k, v)
    /\ UNCHANGED <<held, walk>>

InsertOrAssign(k, v) ==
    /\ order_' = EmplaceKey(k)
    /\ values_' = With(values_, k, v)
    /\ UNCHANGED <<held, walk>>

\* operator[] returns a reference.
Subscript(k) ==
    /\ order_' = EmplaceKey(k)
    /\ values_' = IF k \in DOMAIN values_ THEN values_ ELSE With(values_, k, NewValue)
    /\ held' = k
    /\ UNCHANGED walk

\* An assignment to the reference; elements of a hash map stay where they are.
Assign(v) ==
    /\ held # None
    /\ values_' = [values_ EXCEPT ![held] = v]
    /\ UNCHANGED <<order_, held, walk>>

\* for(auto const& [key, value]: map), which takes end() once; what was met is
\* the key at its index in order_.
Begin ==
    /\ walk' = [at |-> 0, end |-> Len(order_), met |-> <<>>]
    /\ UNCHANGED <<order_, values_, held>>

Step ==
    /\ walk.at < walk.end
    /\ walk' = [walk EXCEPT !.at = @ + 1, !.met = Append(@, order_[walk.at + 1])]
    /\ UNCHANGED <<order_, values_, held>>

Next ==
    \/ \E k \in Keys, v \in Values : Insert(k, v) \/ InsertOrAssign(k, v)
    \/ \E k \in Keys : Subscript(k)
    \/ \E v \in Values : Assign(v)
    \/ Begin \/ Step

Spec == Init /\ [][Next]_vars

-----------------------------------------------------------------------------
(***************************************************************************)
(* Properties                                                              *)
(***************************************************************************)

\* What is stored is of the types declared (OrderedMap's members).
TypeOK ==
    /\ order_ \in Seq(Keys)
    /\ DOMAIN values_ \subseteq Keys /\ values_ \in [DOMAIN values_ -> Values]
    /\ held \in Keys \cup {None}
    /\ walk \in [at : Nat, end : Nat, met : Seq(Keys)]

\* The order has every key of the hash map, once; find() asserts it
\* (ordered_map.hpp:113), iterators dereference by it, and the reference
\* operator[] returned is to a value that is there.
OrderEnumeratesKeys ==
    /\ IsInjective(order_)
    /\ Range(order_) = DOMAIN values_
    /\ held # None => held \in DOMAIN values_

\* A range for never runs out of the order, and meets its keys one after the
\* other without repetition, whatever was put in on the way.
WalkMeetsKeysInOrder ==
    /\ walk.at <= walk.end /\ walk.end <= Len(order_)
    /\ Len(walk.met) = walk.at
    /\ \A i \in 1..walk.at : walk.met[i] = order_[i]
    /\ IsInjective(walk.met)

\* A key never loses its place: an index of an iterator stays with its key.
KeysKeepTheirPlace ==
    [][/\ Len(order_) <= Len(order_')
       /\ \A i \in DOMAIN order_ : order_'[i] = order_[i]]_vars
=============================================================================
