---------------------------- MODULE EntrySource ----------------------------
(***************************************************************************)
(* An in-memory document in use: Source::make builds it, and the program   *)
(* walks and writes it through accessors it holds in Handles, in any order *)
(* and at any depth (src/source/entry.cpp). Assigning a handle drops the   *)
(* accessor it held.                                                       *)
(***************************************************************************)
EXTENDS EntryHeap

CONSTANTS
    Handles,     \* the std::shared_ptr<Source> variables of the program
    NoSource     \* a handle that holds nullptr

ASSUME NoSourceIsNoAccessor == NoSource \notin Accessors

VARIABLES
    heap,        \* the entries
    acc          \* the accessor in each handle

vars == <<heap, acc>>

Top  == 2        \* the entry Source::make was given
Item == 3        \* its only child, when it has one

\* The documents Source::make is given: a scalar, or a container that is
\* empty or holds one scalar under r.
MadeHeap(k, v, r) ==
    LET filled == k # "scalar" /\ r # Absent
        only(p) == [x \in Refs |-> IF x = p[1] THEN p[2] ELSE Absent]
    IN  [kind |-> [e \in Id |-> CASE e = Root -> "root"
                                  [] e = Top -> k
                                  [] e = Item /\ filled -> "scalar"
                                  [] OTHER -> "free"],
         slot |-> [e \in Id |-> CASE e = Root -> only(<<RootRef, Top>>)
                                  [] e = Top /\ filled -> only(<<r, Item>>)
                                  [] OTHER -> NoSlots],
         val  |-> [e \in Id |-> IF e = (IF k = "scalar" THEN Top ELSE Item) THEN v ELSE Nil],
         used |-> IF filled THEN Item ELSE Top]

FirstRefs(k) == IF k = "map" THEN Keys ELSE IF k = "list" THEN {0} ELSE {}

Init ==
    /\ \E k \in {"scalar", "map", "list"}, v \in Values :
          \E r \in FirstRefs(k) \cup {Absent} : heap = MadeHeap(k, v, r)
    /\ \E d \in Handles : acc = [x \in Handles |-> IF x = d THEN RootAccessor ELSE NoSource]

\* d = s->next(r): makes the step possible when it is not.
Next_(s, r, d) ==
    LET a == acc[s]
        k == ContainerFor(r)
    IN  /\ a # NoSource
        /\ HasRoom(heap, a, k)
        /\ heap' = Resolve(heap, a, k)
        /\ acc' = [acc EXCEPT ![d] = [prev |-> Resolved(heap, a, k), ref |-> r]]

\* d = std::as_const(*s).next(r): null when there is nothing under r.
ConstNext(s, r, d) ==
    LET c == Curr(heap, acc[s])
    IN  /\ acc[s] # NoSource
        /\ acc' = [acc EXCEPT ![d] =
              IF c # Null /\ Has(heap, c, r) THEN [prev |-> c, ref |-> r] ELSE NoSource]
        /\ UNCHANGED heap

\* s->set(v)
Set(s, v) ==
    /\ acc[s] # NoSource
    /\ HasRoom(heap, acc[s], "scalar")
    /\ heap' = Store(heap, acc[s], v)
    /\ UNCHANGED acc

\* The program drops a source.
Drop(s) ==
    /\ acc[s] # NoSource
    /\ acc' = [acc EXCEPT ![s] = NoSource]
    /\ UNCHANGED heap

Next ==
    \/ \E s, d \in Handles, r \in Refs : Next_(s, r, d)
    \/ \E s, d \in Handles, r \in Refs : ConstNext(s, r, d)
    \/ \E s \in Handles, v \in Values : Set(s, v)
    \/ \E s \in Handles : Drop(s)

Spec == Init /\ [][Next]_vars

-----------------------------------------------------------------------------
(***************************************************************************)
(* Invariants                                                              *)
(***************************************************************************)

\* Entries and accessors are what the code declares them to be.
TypeOK ==
    /\ heap \in Heaps
    /\ acc \in [Handles -> Accessors \cup {NoSource}]

\* However often places are assigned, replaced and assigned again, the entries
\* form trees (Accessor::resolve_ always stores a new entry).
TreeShape == OnlyMadeEntries(heap) /\ Acyclic(heap) /\ NoSharing(heap)

\* Children sit where their holder's std::vector or map can have them: the
\* indices of a list are a prefix, so that size() is one more than the last,
\* and only a list has null children.
SlotsFitKind == SlotsFit(heap)

\* Whatever became of the document since an accessor was made, looking up or
\* assigning the place it stands for never throws: the entry above is not a
\* scalar and takes that kind of reference.
AccessorsNeverThrow ==
    \A d \in Handles : acc[d] # NoSource =>
        acc[d].prev <= heap.used /\ Takes(heap, acc[d].prev, acc[d].ref)

-----------------------------------------------------------------------------
(***************************************************************************)
(* Action properties                                                       *)
(***************************************************************************)

\* What get() yields through an accessor, Absent when it returns false.
Reading(h, a) == IF IsScalar(h, a) THEN Load(h, a) ELSE Absent

Changes(a) == Reading(heap', a) # Reading(heap, a)

\* A call changes what get() yields at one place at most: accessors that see a
\* change stand for the same place. Those of any other place yield what they
\* did, also those below an entry that the call replaced.
OnePlaceAtATime ==
    [][\A x, y \in Handles :
          acc[x] # NoSource /\ acc[y] # NoSource /\ Changes(acc[x]) /\ Changes(acc[y])
             => acc[x] = acc[y]]_vars
=============================================================================
