------------------------------ MODULE Interval ------------------------------
(***************************************************************************)
(* An interval being described, as 3 < x <= 42 or by narrowing another     *)
(* (include/cray/detail/interval.hpp), and what a property then relies on. *)
(***************************************************************************)
EXTENDS SchemaBounds

VARIABLE interval

\* The member of a property before any describer is called.
Init == interval = All

\* v < x, v <= x
From(v, inc) == interval' = Between(Bound(v, inc), NoBound)

\* ... < v, ... <= v
UpTo(v, inc) == interval' = Between(interval.min, Bound(v, inc))

\* The size of an array.
Fix(v) == interval' = Singleton(v)

Narrow(j) == interval' = Intersect(interval, j)

Next ==
    \/ \E v \in Ints, inc \in BOOLEAN : From(v, inc) \/ UpTo(v, inc)
    \/ \E v \in Ints : Fix(v)
    \/ \E j \in Intervals : Narrow(j)

Spec == Init /\ [][Next]_interval

-----------------------------------------------------------------------------
TypeOK == interval \in Intervals

\* An intersection holds the values both intervals hold, whichever bounds are
\* missing, equal or reversed.
IntersectIsExact ==
    \A j \in Intervals, v \in Ints :
        Contains(Intersect(interval, j), v) <=> Contains(interval, v) /\ Contains(j, v)

\* Whenever the interval holds a value at all, clamping lands inside, and on
\* the value inside that is nearest: the exclusive bounds' step by one neither
\* overflows nor leaves through the other bound.
ClampIsNearest ==
    \A v, w \in Ints : Contains(interval, w) =>
        LET c == Clamp(interval, v)
        IN  /\ Contains(interval, c)
            /\ v <= w => v <= c /\ c <= w
            /\ w <= v => w <= c /\ c <= v

\* What the reports rely on when they print one number for an interval: it
\* holds that number, minimum(), and no other.
SingletonIsItsMinimum ==
    IsSingleton(interval) =>
        \A v \in Ints : Contains(interval, v) <=> v = Minimum(interval)

\* The bounds of the JSON Schema report admit what the interval holds, for
\* numbers and for lengths, whose exclusive bounds are moved by one; but for a
\* bound at the limit of std::size_t, which wraps around.
SchemaBoundsAreExact ==
    \A v \in Ints :
        /\ AdmitsNumber(NumericBounds(interval), v) <=> Contains(interval, v)
        /\ ~Wraps(interval) =>
              (AdmitsLength(LengthBounds(interval), v) <=> Contains(interval, v))
=============================================================================
