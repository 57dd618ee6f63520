---------------------------- MODULE NodeAnswers ----------------------------
(***************************************************************************)
(* The answers of ok() against the document that was loaded: describing    *)
(* has changed it by the time they are given.                              *)
(***************************************************************************)
EXTENDS MCNodeSchema, SequencesExt

VARIABLE loaded      \* the document before anything was described (history)

AnswersSpec == Init /\ loaded = heap /\ [][Next /\ UNCHANGED loaded]_<<vars, loaded>>

Paths == UNION {[1..n -> Keys] : n \in 0..(MaxProps - 1)}

\* The property described at a path, the place of a path in a document.
PropAt(path) ==
    FoldLeft(LAMBDA p, k : IF p = None THEN None ELSE prop[p].next[k],
             prop[RootId].next[RootRef], path)
PlaceOf(h, path) ==
    FoldLeft(LAMBDA a, k : IF a # NoSource /\ Holds(h, a, "map")
                           THEN [prev |-> Curr(h, a), ref |-> k] ELSE NoSource,
             RootAccessor, path)

\* docs/describers.md, "cray::req(...)": "Value is restricted to contain the
\* given key." When the whole document is ok(), what was loaded has every
\* required key that is described and has no default.
RequiredKeysAreThere ==
    call.op = "ok" /\ call.of = prop[RootId].next[RootRef] /\ call.answer = "yes" =>
        \A path \in Paths, k \in Keys :
            LET p == PropAt(path)
            IN  /\ p # None
                /\ k \in prop[p].needs
                /\ prop[p].next[k] # None
                /\ ~prop[prop[p].next[k]].default
                => LET a == PlaceOf(loaded, Append(path, k))
                   IN  a # NoSource /\ Curr(loaded, a) # Null
=============================================================================
