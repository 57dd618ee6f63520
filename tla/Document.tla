------------------------------ MODULE Document ------------------------------
(***************************************************************************)
(* What an in-memory document promises to the program that holds sources   *)
(* into it: a document is a tree of values at paths, a source stands for a *)
(* path, and calls through it read and write what is at that path now. A   *)
(* source below a value that gets replaced is cut off: it never shows in   *)
(* the document again. There are no entries here and no pointers.          *)
(***************************************************************************)
EXTENDS Naturals, Sequences, SequencesExt

CONSTANTS
    Keys, MaxIndex,   \* the references steps are taken by
    Values,           \* the values of scalars
    Handles,          \* the sources of the program
    NoSource,         \* a handle that holds nullptr
    CutOff            \* a handle whose source is below a replaced value

VARIABLES
    doc,              \* path |-> a value, or what kind of container is there
    at                \* handle |-> path

vars == <<doc, at>>

Indices == 0..MaxIndex
Refs    == Keys \cup Indices

ContainerFor(r) == IF r \in Indices THEN "list" ELSE "map"

StrictlyBelow(q, p) == IsStrictPrefix(p, q)

\* The holes a list gets when a reference past its end is assigned.
Holes(p) ==
    IF p = <<>> \/ Last(p) \notin Indices THEN {}
    ELSE {Append(Front(p), i) : i \in 0..Last(p)} \ {p}

\* The document with x at p: what was below p is gone.
Put(p, x) ==
    LET old  == doc
        kept == {q \in DOMAIN old : ~StrictlyBelow(q, p)}
    IN  [q \in kept \cup Holes(p) \cup {p} |->
            IF q = p THEN x ELSE IF q \in kept THEN old[q] ELSE "null"]

\* The sources that are left when the value at p is replaced.
CutBelow(p) ==
    LET old == at
    IN  [x \in Handles |->
            IF old[x] \in {NoSource, CutOff} THEN old[x]
            ELSE IF StrictlyBelow(old[x], p) THEN CutOff ELSE old[x]]

IsHeld(s) == at[s] \notin {NoSource, CutOff}

Init ==
    /\ \E d \in Handles : at = [x \in Handles |-> IF x = d THEN <<>> ELSE NoSource]
    /\ \/ \E x \in Values \cup {"map", "list"} : doc = [p \in {<<>>} |-> x]
       \/ \E r \in Keys \cup {0}, v \in Values :
             doc = [p \in {<<>>, <<r>>} |-> IF p = <<>> THEN ContainerFor(r) ELSE v]

\* d becomes the place r below s; s becomes a container that can have it.
Walk(s, r, d) ==
    /\ IsHeld(s)
    /\ LET p    == at[s]
           k    == ContainerFor(r)
           kept == p \in DOMAIN doc /\ doc[p] = k
       IN  /\ at' = [IF kept THEN at ELSE CutBelow(p) EXCEPT ![d] = Append(p, r)]
           /\ doc' = IF kept THEN doc ELSE Put(p, k)

\* d becomes the place r below s if there is something.
Peek(s, r, d) ==
    /\ IsHeld(s)
    /\ LET q == Append(at[s], r)
       IN  at' = [at EXCEPT ![d] = IF q \in DOMAIN doc THEN q ELSE NoSource]
    /\ UNCHANGED doc

Write(s, v) ==
    /\ IsHeld(s)
    /\ at' = CutBelow(at[s])
    /\ doc' = Put(at[s], v)

Drop(s) == at' = [at EXCEPT ![s] = NoSource] /\ UNCHANGED doc

\* Through a source that is cut off only such sources can be had.
Stray(s, d) ==
    /\ at[s] = CutOff
    /\ \E x \in {CutOff, NoSource} : at' = [at EXCEPT ![d] = x]
    /\ UNCHANGED doc

Next ==
    \/ \E s, d \in Handles, r \in Refs : Walk(s, r, d) \/ Peek(s, r, d)
    \/ \E s \in Handles, v \in Values : Write(s, v)
    \/ \E s \in Handles : Drop(s)
    \/ \E s, d \in Handles : Stray(s, d)

Spec == Init /\ [][Next]_vars
=============================================================================
