--------------------------- MODULE IntervalProofs ---------------------------
(***************************************************************************)
(* The arithmetic of Interval for integer types of any width.              *)
(***************************************************************************)
EXTENDS Interval, TLAPS

LEMMA IntsAreInt == /\ \A v \in Ints : v \in Int /\ MinInt <= v /\ v <= MaxInt
                    /\ \A v \in Int : MinInt <= v /\ v <= MaxInt => v \in Ints
                    /\ \A v \in Ints : Inc(v) \in Ints /\ Dec(v) \in Ints
BY LimitsAssumption DEF Ints, Inc, Dec

LEMMA BoundType ==
    ASSUME NEW b \in Bounds
    PROVE  b.value \in Int /\ b.is_inclusive \in BOOLEAN /\ b.value \in Ints
BY IntsAreInt DEF Bounds

LEMMA BetweenType ==
    ASSUME NEW lo \in Bounds \cup {NoBound}, NEW up \in Bounds \cup {NoBound}
    PROVE  /\ Between(lo, up) \in Intervals
           /\ Between(lo, up).min = lo /\ Between(lo, up).max = up
BY DEF Between, Intervals

LEMMA MadeBounds == \A v \in Ints, inc \in BOOLEAN : Bound(v, inc) \in Bounds
BY DEF Bound, Bounds

LEMMA EmptyType == Empty \in Intervals /\ All \in Intervals
<1>1. 1 \in Ints /\ 2 \in Ints
  BY LimitsAssumption DEF Ints
<1> QED BY <1>1, MadeBounds, BetweenType DEF Empty, All

\* Nothing is in an interval that isEmpty().
LEMMA EmptyHoldsNothing ==
    ASSUME NEW i \in Intervals, NEW v \in Int, IsEmpty(i)
    PROVE  ~Contains(i, v)
<1>1. i.min \in Bounds /\ i.max \in Bounds
  BY DEF IsEmpty, HasBoth, Intervals
<1> QED BY <1>1, BoundType DEF IsEmpty, HasBoth, Contains, LowerContains, UpperContains

LEMMA IntersectType ==
    ASSUME NEW i \in Intervals, NEW j \in Intervals
    PROVE  Intersect(i, j) \in Intervals
<1>1. \A a, b \in Intervals : a.min \in Bounds \cup {NoBound} /\ [a EXCEPT !.min = b.min] \in Intervals
  BY DEF Intervals
<1> QED BY <1>1, EmptyType DEF Intersect

\* The greater of two lower bounds lets in what both let in.
LEMMA GreaterLower ==
    ASSUME NEW a \in Bounds, NEW b \in Bounds, NEW v \in Int
    PROVE  IF LowerLess(a, b) THEN LowerContains(b, v) => LowerContains(a, v)
           ELSE LowerContains(a, v) => LowerContains(b, v)
BY BoundType DEF LowerLess, LowerContains

\* The lesser of two upper bounds lets in what both let in.
LEMMA LesserUpper ==
    ASSUME NEW a \in Bounds, NEW b \in Bounds, NEW v \in Int
    PROVE  IF UpperLess(a, b) THEN UpperContains(a, v) => UpperContains(b, v)
           ELSE UpperContains(b, v) => UpperContains(a, v)
BY BoundType DEF UpperLess, UpperContains

\* An intersection holds exactly what both intervals hold, for every pair of
\* intervals over integers of any width.
THEOREM IntersectExact ==
    ASSUME NEW i \in Intervals, NEW j \in Intervals, NEW v \in Ints
    PROVE  Contains(Intersect(i, j), v) <=> Contains(i, v) /\ Contains(j, v)
<1> DEFINE swap == i.max = NoBound \/ (j.max # NoBound /\ UpperLess(j.max, i.max))
           lhs  == IF swap THEN j ELSE i
           rhs  == IF swap THEN i ELSE j
<1>0. /\ v \in Int /\ Empty \in Intervals
      /\ i.min \in Bounds \cup {NoBound} /\ i.max \in Bounds \cup {NoBound}
      /\ j.min \in Bounds \cup {NoBound} /\ j.max \in Bounds \cup {NoBound}
  BY IntsAreInt, EmptyType DEF Intervals
<1>1. /\ lhs \in Intervals /\ rhs \in Intervals
      /\ Contains(i, v) /\ Contains(j, v) <=> Contains(lhs, v) /\ Contains(rhs, v)
      /\ lhs.max # NoBound /\ UpperContains(lhs.max, v) => (rhs.max # NoBound => UpperContains(rhs.max, v))
      /\ lhs.max = NoBound => rhs.max = NoBound
  BY <1>0, LesserUpper
<1>2. IsEmpty(Empty)
  <2>1. 1 \in Ints /\ 2 \in Ints
    BY LimitsAssumption DEF Ints
  <2>2. Bound(2, FALSE) \in Bounds /\ Bound(1, FALSE) \in Bounds
    BY <2>1, MadeBounds
  <2>3. Empty.min # NoBound /\ Empty.max # NoBound /\ Empty.min.value = 2 /\ Empty.max.value = 1
    BY <2>2, NoBoundIsNone DEF Empty, Between, Bound
  <2> QED BY <2>3 DEF IsEmpty, HasBoth
<1>3. ~Contains(Empty, v)
  BY <1>0, <1>2, EmptyHoldsNothing
<1>4. CASE IsEmpty(i) \/ IsEmpty(j)
  BY <1>0, <1>3, <1>4, EmptyHoldsNothing DEF Intersect
<1> HIDE DEF lhs, rhs
<1>5. /\ lhs.min \in Bounds \cup {NoBound} /\ lhs.max \in Bounds \cup {NoBound}
      /\ rhs.min \in Bounds \cup {NoBound} /\ rhs.max \in Bounds \cup {NoBound}
  BY <1>1 DEF Intervals
<1>6. CASE IsEmpty(Between(rhs.min, lhs.max)) /\ ~(IsEmpty(i) \/ IsEmpty(j))
  <2>1. ~Contains(Between(rhs.min, lhs.max), v)
    BY <1>0, <1>5, <1>6, BetweenType, EmptyHoldsNothing
  <2>2. ~(Contains(lhs, v) /\ Contains(rhs, v))
    BY <2>1, <1>5, BetweenType DEF Contains
  <2>3. Intersect(i, j) = Empty
    BY <1>6 DEF Intersect, lhs, rhs
  <2> QED BY <1>1, <1>3, <2>2, <2>3
<1>7. CASE ~IsEmpty(Between(rhs.min, lhs.max)) /\ ~(IsEmpty(i) \/ IsEmpty(j))
  <2> DEFINE raise == lhs.min = NoBound \/ (rhs.min # NoBound /\ LowerLess(lhs.min, rhs.min))
             low   == IF raise THEN rhs.min ELSE lhs.min
  <2>1. /\ Intersect(i, j).min = low /\ Intersect(i, j).max = lhs.max
    <3>1. Intersect(i, j) = IF raise THEN [lhs EXCEPT !.min = rhs.min] ELSE lhs
      BY <1>7 DEF Intersect, lhs, rhs
    <3> QED BY <3>1, <1>1 DEF Intervals
  <2>2. low # NoBound /\ LowerContains(low, v) =>
           (lhs.min # NoBound => LowerContains(lhs.min, v)) /\ (rhs.min # NoBound => LowerContains(rhs.min, v))
    BY <1>0, <1>5, GreaterLower
  <2>3. low = NoBound => lhs.min = NoBound /\ rhs.min = NoBound
    OBVIOUS
  <2>4. low = lhs.min \/ low = rhs.min
    OBVIOUS
  <2> HIDE DEF low
  <2> QED BY <1>1, <2>1, <2>2, <2>3, <2>4 DEF Contains
<1> QED BY <1>4, <1>6, <1>7

\* Clamping into an interval that holds something finds the nearest value it
\* holds, and never overflows on the way.
THEOREM ClampNearest ==
    ASSUME NEW i \in Intervals, NEW v \in Ints, NEW w \in Ints, Contains(i, w)
    PROVE  LET c == Clamp(i, v)
           IN  /\ Contains(i, c)
               /\ v <= w => v <= c /\ c <= w
               /\ w <= v => w <= c /\ c <= v
<1> DEFINE u == IF i.min = NoBound THEN v ELSE LowerClamp(i.min, v)
           c == IF i.max = NoBound THEN u ELSE UpperClamp(i.max, u)
<1>0. /\ v \in Int /\ w \in Int
      /\ v >= MinInt /\ v <= MaxInt /\ w >= MinInt /\ w <= MaxInt
      /\ i.min \in Bounds \cup {NoBound} /\ i.max \in Bounds \cup {NoBound}
  BY IntsAreInt DEF Intervals
<1>1. /\ u \in Int /\ (i.min # NoBound => LowerContains(i.min, u))
      /\ v <= u /\ (u = v \/ u <= w)
  <2>1. CASE i.min = NoBound
    BY <1>0, <2>1
  <2>2. CASE i.min \in Bounds
    <3>1. LowerContains(i.min, w) /\ i.min.value \in Int /\ i.min.is_inclusive \in BOOLEAN
      BY <2>2, NoBoundIsNone, BoundType DEF Contains
    <3>2. ~i.min.is_inclusive => Inc(i.min.value) = i.min.value + 1
      BY <1>0, <3>1, LimitsAssumption DEF LowerContains, Inc
    <3>3. u = LowerClamp(i.min, v)
      BY <2>2, NoBoundIsNone
    <3> QED BY <1>0, <3>1, <3>2, <3>3 DEF LowerContains, LowerClamp
  <2> QED BY <1>0, <2>1, <2>2
<1> HIDE DEF u
<1>2. /\ c \in Int /\ (i.max # NoBound => UpperContains(i.max, c))
      /\ c <= u /\ (c = u \/ w <= c)
  <2>1. CASE i.max = NoBound
    BY <1>1, <2>1
  <2>2. CASE i.max \in Bounds
    <3>1. UpperContains(i.max, w) /\ i.max.value \in Int /\ i.max.is_inclusive \in BOOLEAN
      BY <2>2, NoBoundIsNone, BoundType DEF Contains
    <3>2. ~i.max.is_inclusive => Dec(i.max.value) = i.max.value - 1
      BY <1>0, <3>1, LimitsAssumption DEF UpperContains, Dec
    <3>3. c = UpperClamp(i.max, u)
      BY <2>2, NoBoundIsNone
    <3> QED BY <1>0, <1>1, <3>1, <3>2, <3>3 DEF UpperContains, UpperClamp
  <2> QED BY <1>0, <2>1, <2>2
<1>3. c = Clamp(i, v)
  BY DEF Clamp, u
<1> HIDE DEF c
<1>4. i.min # NoBound => LowerContains(i.min, c)
  <2>1. CASE c = u
    BY <1>1, <2>1
  <2>2. CASE c # u /\ i.min # NoBound
    <3>1. LowerContains(i.min, w) /\ w <= c /\ i.min.value \in Int
      BY <1>0, <1>2, <2>2, BoundType DEF Contains
    <3> QED BY <1>0, <1>2, <3>1 DEF LowerContains
  <2> QED BY <2>1, <2>2
<1>5. Contains(i, c)
  BY <1>2, <1>4 DEF Contains
<1> QED BY <1>0, <1>1, <1>2, <1>3, <1>5

\* Clamping yields a value of the type, one in the interval if it holds any.
THEOREM ClampsToMember ==
    \A i \in Intervals : \A v \in Ints :
        /\ Clamp(i, v) \in Ints
        /\ (\E w \in Ints : Contains(i, w)) => Contains(i, Clamp(i, v))
<1> SUFFICES ASSUME NEW i \in Intervals, NEW v \in Ints
             PROVE  /\ Clamp(i, v) \in Ints
                    /\ (\E w \in Ints : Contains(i, w)) => Contains(i, Clamp(i, v))
  OBVIOUS
<1>1. i.min \in Bounds \cup {NoBound} /\ i.max \in Bounds \cup {NoBound}
  BY DEF Intervals
<1>2. \A b \in Bounds : \A w \in Ints : LowerClamp(b, w) \in Ints /\ UpperClamp(b, w) \in Ints
  BY BoundType, IntsAreInt DEF LowerClamp, UpperClamp
<1>3. Clamp(i, v) \in Ints
  BY <1>1, <1>2 DEF Clamp
<1> QED BY <1>3, ClampNearest

\* An interval that isSingleton() holds minimum() and nothing else.
THEOREM SingletonHoldsMinimum ==
    ASSUME NEW i \in Intervals, IsSingleton(i), NEW v \in Ints
    PROVE  Contains(i, v) <=> v = Minimum(i)
<1>1. i.min \in Bounds /\ i.max \in Bounds /\ i.min # NoBound /\ i.max # NoBound
  BY DEF IsSingleton, HasBoth, Intervals
<1>2. /\ i.min.value \in Int /\ i.max.value \in Int /\ v \in Int
      /\ MinInt <= i.min.value /\ i.min.value <= MaxInt /\ MinInt <= i.max.value /\ i.max.value <= MaxInt
      /\ i.min.is_inclusive \in BOOLEAN /\ i.max.is_inclusive \in BOOLEAN
  BY <1>1, BoundType, IntsAreInt
<1> QED BY <1>1, <1>2, LimitsAssumption
        DEF IsSingleton, Minimum, Contains, LowerContains, UpperContains, Inc

-----------------------------------------------------------------------------
LEMMA Typed == Spec => []TypeOK
<1>1. Init => TypeOK
  BY EmptyType DEF Init, TypeOK
<1>2. TypeOK /\ [Next]_interval => TypeOK'
  <2> SUFFICES ASSUME TypeOK, [Next]_interval PROVE interval' \in Intervals
    BY DEF TypeOK
  <2>1. NoBound \in Bounds \cup {NoBound} /\ interval.min \in Bounds \cup {NoBound}
    BY DEF TypeOK, Intervals
  <2>2. ASSUME NEW v \in Ints, NEW inc \in BOOLEAN, From(v, inc) \/ UpTo(v, inc)
        PROVE  interval' \in Intervals
    BY <2>1, <2>2, MadeBounds, BetweenType DEF From, UpTo
  <2>3. ASSUME NEW v \in Ints, Fix(v) PROVE interval' \in Intervals
    BY <2>3, MadeBounds, BetweenType DEF Fix, Singleton
  <2>4. ASSUME NEW j \in Intervals, Narrow(j) PROVE interval' \in Intervals
    BY <2>4, IntersectType DEF Narrow, TypeOK
  <2> QED BY <2>2, <2>3, <2>4 DEF Next, TypeOK
<1> QED BY <1>1, <1>2, PTL DEF Spec

\* The bounds of the JSON Schema report admit what an interval holds; those of
\* a length do where no exclusive bound is at the limit of the type.
THEOREM SchemaBoundsExact ==
    ASSUME NEW i \in Intervals, NEW v \in Ints
    PROVE  /\ AdmitsNumber(NumericBounds(i), v) <=> Contains(i, v)
           /\ ~Wraps(i) => (AdmitsLength(LengthBounds(i), v) <=> Contains(i, v))
<1>0. /\ i.min = NoBound \/ i.min \in Bounds
      /\ i.max = NoBound \/ i.max \in Bounds
      /\ v \in Int
  BY IntsAreInt DEF Intervals
<1>1. i.min # NoBound => /\ i.min.value \in Int /\ i.min.is_inclusive \in BOOLEAN
                         /\ MinInt <= i.min.value /\ i.min.value <= MaxInt
  BY <1>0, BoundType, IntsAreInt
<1>2. i.max # NoBound => /\ i.max.value \in Int /\ i.max.is_inclusive \in BOOLEAN
                         /\ MinInt <= i.max.value /\ i.max.value <= MaxInt
  BY <1>0, BoundType, IntsAreInt
<1>3. AdmitsNumber(NumericBounds(i), v) <=> Contains(i, v)
  BY <1>0, <1>1, <1>2 DEF AdmitsNumber, NumericBounds, Printed, Contains, LowerContains, UpperContains
<1>4. ASSUME ~Wraps(i), i.min # NoBound, ~i.min.is_inclusive
      PROVE  Inc(i.min.value) = i.min.value + 1
  BY <1>0, <1>1, <1>4, LimitsAssumption DEF Wraps, Bound, Bounds, Inc
<1>5. ASSUME ~Wraps(i), i.max # NoBound, ~i.max.is_inclusive
      PROVE  Dec(i.max.value) = i.max.value - 1
  BY <1>0, <1>2, <1>5, LimitsAssumption DEF Wraps, Bound, Bounds, Dec
<1>6. ASSUME ~Wraps(i)
      PROVE  AdmitsLength(LengthBounds(i), v) <=> Contains(i, v)
  <2>1. (\A m \in LengthBounds(i).minLength : m <= v) <=> (i.min # NoBound => LowerContains(i.min, v))
    BY <1>0, <1>1, <1>4, <1>6 DEF LengthBounds, Printed, LowerContains
  <2>2. (\A m \in LengthBounds(i).maxLength : v <= m) <=> (i.max # NoBound => UpperContains(i.max, v))
    BY <1>0, <1>2, <1>5, <1>6 DEF LengthBounds, Printed, UpperContains
  <2> QED BY <2>1, <2>2 DEF AdmitsLength, Contains
<1> QED BY <1>3, <1>6

-----------------------------------------------------------------------------
(***************************************************************************)
(* The properties the run checks hold of every interval a program can      *)
(* describe, over integers of any width.                                   *)
(***************************************************************************)

\* Intersections of described intervals are exact.
THEOREM DescribedIntersect == Spec => []IntersectIsExact
<1>1. TypeOK => IntersectIsExact
  BY IntersectExact DEF TypeOK, IntersectIsExact
<1> QED BY <1>1, Typed, PTL

\* Clamping to a described interval goes to its nearest member.
THEOREM DescribedClamp == Spec => []ClampIsNearest
<1>1. TypeOK => ClampIsNearest
  BY ClampNearest DEF TypeOK, ClampIsNearest
<1> QED BY <1>1, Typed, PTL

\* A described singleton is its minimum.
THEOREM DescribedSingleton == Spec => []SingletonIsItsMinimum
<1>1. TypeOK => SingletonIsItsMinimum
  BY SingletonHoldsMinimum DEF TypeOK, SingletonIsItsMinimum
<1> QED BY <1>1, Typed, PTL

\* The printed bounds of a described interval are exact.
THEOREM DescribedBounds == Spec => []SchemaBoundsAreExact
<1>1. TypeOK => SchemaBoundsAreExact
  BY SchemaBoundsExact DEF TypeOK, SchemaBoundsAreExact
<1> QED BY <1>1, Typed, PTL
=============================================================================
