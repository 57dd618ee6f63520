---------------------------- MODULE IntervalOps ----------------------------
(***************************************************************************)
(* Intervals of integers (include/cray/detail/interval.hpp with T an       *)
(* integer type): what they hold, clamp to and have in common. MinInt and  *)
(* MaxInt are the limits of T; one step past them wraps around.            *)
(***************************************************************************)
EXTENDS Integers

CONSTANTS
    MinInt, MaxInt,  \* std::numeric_limits<T>
    NoBound          \* std::nullopt where a bound is expected

Ints   == MinInt..MaxInt
Bounds == [value: Ints, is_inclusive: BOOLEAN]
Intervals == [min: Bounds \cup {NoBound}, max: Bounds \cup {NoBound}]

ASSUME LimitsAssumption ==
    MinInt \in Int /\ MaxInt \in Int /\ MinInt <= 0 /\ 2 <= MaxInt
ASSUME NoBoundIsNone == NoBound \notin Bounds

\* value + 1 and value - 1 in T.
Inc(n) == IF n = MaxInt THEN MinInt ELSE n + 1
Dec(n) == IF n = MinInt THEN MaxInt ELSE n - 1

Bound(v, inc)   == [value |-> v, is_inclusive |-> inc]
Between(lo, up) == [min |-> lo, max |-> up]

LowerContains(b, v) == b.value < v \/ (b.is_inclusive /\ b.value = v)
UpperContains(b, v) == b.value > v \/ (b.is_inclusive /\ b.value = v)

LowerClamp(b, v) ==
    IF b.value < v THEN v ELSE IF b.is_inclusive THEN b.value ELSE Inc(b.value)
UpperClamp(b, v) ==
    IF b.value > v THEN v ELSE IF b.is_inclusive THEN b.value ELSE Dec(b.value)

\* LowerBound::operator<=> and UpperBound::operator<=>: at the same value the
\* bound that lets more in is the less, respectively the greater.
LowerLess(a, b) == a.value < b.value \/ (a.value = b.value /\ a.is_inclusive /\ ~b.is_inclusive)
UpperLess(a, b) == a.value < b.value \/ (a.value = b.value /\ ~a.is_inclusive /\ b.is_inclusive)

All          == Between(NoBound, NoBound)
Empty        == Between(Bound(2, FALSE), Bound(1, FALSE))
Singleton(v) == Between(Bound(v, TRUE), Bound(v, TRUE))

HasBoth(i) == i.min # NoBound /\ i.max # NoBound

\* Mutant of IsSingleton: the width is not told from the kinds of the bounds.
IsSingletonByWidth(i) == HasBoth(i) /\ i.max.value = Inc(i.min.value)

IsSingleton(i) ==
    /\ HasBoth(i)
    /\ i.min.value <= i.max.value
    /\ IF i.min.is_inclusive /\ i.max.is_inclusive THEN i.min.value = i.max.value
       ELSE IF i.min.is_inclusive \/ i.max.is_inclusive THEN Inc(i.min.value) = i.max.value
       ELSE Inc(Inc(i.min.value)) = i.max.value

Minimum(i) ==
    IF i.min = NoBound THEN MinInt
    ELSE IF i.min.is_inclusive THEN i.min.value ELSE Inc(i.min.value)

IsEmpty(i) ==
    /\ HasBoth(i)
    /\ \/ i.min.value > i.max.value
       \/ i.min.value = i.max.value /\ ~(i.min.is_inclusive /\ i.max.is_inclusive)

Contains(i, v) ==
    /\ i.min # NoBound => LowerContains(i.min, v)
    /\ i.max # NoBound => UpperContains(i.max, v)

\* Mutant of Clamp: both bounds look at the value given.
ClampApart(i, v) ==
    IF i.max # NoBound /\ ~UpperContains(i.max, v) THEN Dec(i.max.value)
    ELSE IF i.min # NoBound THEN LowerClamp(i.min, v) ELSE v

Clamp(i, v) ==
    LET w == IF i.min = NoBound THEN v ELSE LowerClamp(i.min, v)
    IN  IF i.max = NoBound THEN w ELSE UpperClamp(i.max, w)

\* Mutant of Intersect: the one that ends first is taken as it is.
IntersectTakesFirst(i, j) ==
    IF i.max = NoBound \/ (j.max # NoBound /\ UpperLess(j.max, i.max)) THEN j ELSE i

\* The interval that ends first is taken, with the greater of the two minima.
Intersect(i, j) ==
    LET swap == i.max = NoBound \/ (j.max # NoBound /\ UpperLess(j.max, i.max))
        lhs  == IF swap THEN j ELSE i
        rhs  == IF swap THEN i ELSE j
    IN  IF IsEmpty(i) \/ IsEmpty(j) \/ IsEmpty(Between(rhs.min, lhs.max)) THEN Empty
        ELSE IF lhs.min = NoBound \/ (rhs.min # NoBound /\ LowerLess(lhs.min, rhs.min))
             THEN [lhs EXCEPT !.min = rhs.min]
        ELSE lhs
=============================================================================
