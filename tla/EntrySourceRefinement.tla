------------------------ MODULE EntrySourceRefinement ------------------------
(***************************************************************************)
(* The entries and accessors of src/source/entry.cpp implement Document:   *)
(* the path of an entry is read off the chain of its holders.              *)
(***************************************************************************)
EXTENDS EntrySource, Sequences

CONSTANT CutOff

ASSUME SourcesAreNoPaths ==
    /\ CutOff \notin Seq(Refs) /\ NoSource \notin Seq(Refs)
    /\ CutOff # NoSource
ASSUME ValuesAreNoContainers == Values \cap {"null", "map", "list"} = {}

\* The places where something is stored.
Taken(h) == {a \in Accessors : h.slot[a.prev][a.ref] # Absent}

\* The path an accessor stands for, when w are those of the entries. The root
\* entry is above the document and has none.
PathOf(w, a) ==
    IF a.prev = Root THEN <<>>
    ELSE IF w[a.prev] = CutOff THEN CutOff ELSE Append(w[a.prev], a.ref)

\* The path of an entry is that of the place where it is stored, one at most in
\* a well-formed heap; CutOff when there is none, or when that is cut off.
Paths(h) ==
    LET stores == {<<a, h.slot[a.prev][a.ref]>> : a \in Taken(h)}
        path[e \in Id] ==
            LET held == {st \in stores : st[2] = e}
            IN  IF held = {} THEN CutOff ELSE PathOf(path, (CHOOSE st \in held : TRUE)[1])
    IN  path

NodeAt(h, p) ==
    IF p = Null THEN "null" ELSE IF h.kind[p] = "scalar" THEN h.val[p] ELSE h.kind[p]

\* The document: what is stored at a path that is not cut off.
DocumentOf(h, w) ==
    LET nodes == {<<PathOf(w, a), NodeAt(h, h.slot[a.prev][a.ref])>> : a \in Taken(h)}
    IN  [p \in {n[1] : n \in nodes} \ {CutOff} |-> (CHOOSE n \in nodes : n[1] = p)[2]]

docOf == DocumentOf(heap, Paths(heap))
atOf  == LET w == Paths(heap)
         IN  [x \in Handles |-> IF acc[x] = NoSource THEN NoSource ELSE PathOf(w, acc[x])]

D == INSTANCE Document WITH doc <- docOf, at <- atOf

\* Every call on a source does to the document what Document says it does, and
\* leaves every source standing for the path Document says it stands for.
ImplementsDocument == D!Spec
=============================================================================
