---------------------------- MODULE SchemaBounds ----------------------------
(***************************************************************************)
(* The bounds that the JSON Schema report prints for an interval           *)
(* (src/report/json-schema.cpp), and what a validator that reads them      *)
(* admits. A field that is not printed has no value; a printed one has     *)
(* one. For lengths, MinInt is 0: they are std::size_t.                    *)
(***************************************************************************)
EXTENDS IntervalOps

Printed(b, value) == IF b = NoBound THEN {} ELSE {value}

\* ReportContext::reportNumericInterval: exclusive bounds are said to be so.
NumericBounds(i) ==
    [minimum |-> Printed(i.min, i.min), maximum |-> Printed(i.max, i.max)]

\* Mutant of LengthBounds: whether a bound is inclusive is not looked at.
LengthBoundsAsTheyAre(i) ==
    [minLength |-> Printed(i.min, i.min.value), maxLength |-> Printed(i.max, i.max.value)]

\* ReportContext::reportLengthInterval: JSON Schema has no exclusive lengths,
\* so that an exclusive bound is moved by one, in std::size_t.
LengthBounds(i) ==
    [minLength |-> Printed(i.min, IF i.min.is_inclusive THEN i.min.value ELSE Inc(i.min.value)),
     maxLength |-> Printed(i.max, IF i.max.is_inclusive THEN i.max.value ELSE Dec(i.max.value))]

\* JSON Schema: minimum and maximum, with or without exclusiveMinimum and
\* exclusiveMaximum; minLength and maxLength.
AdmitsNumber(b, v) ==
    /\ \A m \in b.minimum : IF m.is_inclusive THEN m.value <= v ELSE m.value < v
    /\ \A m \in b.maximum : IF m.is_inclusive THEN v <= m.value ELSE v < m.value
AdmitsLength(b, n) ==
    /\ \A m \in b.minLength : m <= n
    /\ \A m \in b.maxLength : n <= m

\* The bounds whose step by one leaves the type: nothing is below 0.
Wraps(i) == i.min = Bound(MaxInt, FALSE) \/ i.max = Bound(MinInt, FALSE)
=============================================================================
