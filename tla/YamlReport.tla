----------------------------- MODULE YamlReport -----------------------------
(***************************************************************************)
(* The YAML report of a document (src/report/yaml.cpp): what it marks as   *)
(* REQUIRED or INVALID, and whether it gets to its end. Wording, layout    *)
(* and where marks are put are left out, but for one: where a list or a    *)
(* map is empty the report prints, in a comment, an example of what it may *)
(* hold, and marks in that what is required there.                         *)
(*                                                                         *)
(* The report steps with constant sources: where ok() has a source at a    *)
(* key that is missing, the report has none. An example is reported from   *)
(* Source::null(), which has nothing wherever it is stepped to.            *)
(***************************************************************************)
EXTENDS Codec

CONSTANT Multiline     \* the strings of more than one line
ASSUME MultilineAssumption == Multiline \subseteq Strs

NoSource   == [t |-> "none"]    \* a null std::shared_ptr<Source>
NullSource == [t |-> "null"]    \* Source::null()
Sources    == {NoSource, NullSource} \cup Docs

\* Source::next const.
ChildSource(d, k) ==
    IF d = NullSource THEN NullSource ELSE IF Child(d, k) = Gone THEN NoSource ELSE Child(d, k)

\* What there is to step to in a list: a map has no index.
Elements(d) ==
    IF d.t = "list" THEN d.items ELSE IF d.t = "map" THEN [i \in DOMAIN d.order |-> NoSource] ELSE <<>>

\* What decodes and what does not is the same of Source::null() and of a nil.
Content(src) == IF src = NullSource THEN NilDoc ELSE src

\* The marks in examples are kept apart from those in the document.
Marked(marks) == [ends |-> TRUE, marks |-> marks, examples |-> {}]
Stuck         == [Marked({}) EXCEPT !.ends = FALSE]    \* a null source was used, or an assertion failed

\* The reports of parts, one after the other, up to one that does not end.
InTurn(reports) ==
    LET Begins(i) == \A j \in 1..(i - 1) : reports[j].ends
    IN  [ends     |-> \A i \in DOMAIN reports : reports[i].ends,
         marks    |-> UNION {reports[i].marks : i \in {i \in DOMAIN reports : Begins(i)}},
         examples |-> UNION {reports[i].examples : i \in {i \in DOMAIN reports : Begins(i)}}]

IsScalar(p) == p.k \in {"int", "str"}

\* Mutant of ScalarReport: a value that is missing is not marked.
ScalarReportQuiet(p, src, isNeeded) ==
    IF src # NoSource /\ ~Decode(p, Content(src)).ok /\ src.t = DocType(p) THEN Marked({"INVALID"}) ELSE Marked({})

\* A property without a source decodes nothing, not even its default.
ScalarReport(p, src, isNeeded) ==
    IF src # NoSource /\ Decode(p, Content(src)).ok THEN Marked({})
    ELSE IF src.t = DocType(p) THEN Marked({"INVALID"})
    ELSE IF isNeeded THEN Marked({"REQUIRED"})
    ELSE Marked({})

IsDefault(p, src) == p.default # NoValue /\ src.t # DocType(p)
Shown(p, src)     == IF IsDefault(p, src) THEN Encode(p, p.default) ELSE src

\* Mutant of StructReport: every field is taken to be required.
StructReportNeeds(report, p, src) ==
    LET At(f) == report[f.of][ChildSource(Shown(p, src), f.key)]
    IN  IF src = NoSource THEN Stuck ELSE InTurn([i \in DOMAIN p.fields |-> At(p.fields[i])[TRUE]])

StructReport(report, p, src) ==
    LET At(f) == report[f.of][ChildSource(Shown(p, src), f.key)]
    IN  IF src = NoSource THEN Stuck
        ELSE InTurn([i \in DOMAIN p.fields |-> At(p.fields[i])[~p.fields[i].optional]])

\* Mutant of ExampleSource: what is in an example is left without a source.
ExampleSourceUnset == NoSource

ExampleSource == NullSource

\* Whether what is in the example may be marked: the container is asked for the
\* reference that was visited last, or index 0.
ExampleIsNeeded(p) ==
    p.linked /\ ((p.k = "array" /\ p.n > 0) \/ (p.k = "map" /\ p.required # {}))

Example(report, p) ==
    LET it == report[p.of][ExampleSource][ExampleIsNeeded(p)]
    IN  [ends |-> it.ends, marks |-> {}, examples |-> it.marks \cup it.examples]

\* Accessor::keys needs something to be where it points; a default is not shown.
MapReport(report, p, src) ==
    LET order   == AsMap(src).order
        Needs(k) == p.linked /\ k \in p.required
        below   == IF order = <<>> THEN Example(report, p)
                   ELSE InTurn([i \in DOMAIN order |-> report[p.of][src.at[order[i]]][Needs(order[i])]])
        missing == \E k \in p.required : Child(src, k) = Gone
    IN  IF src \in {NoSource, Gone} THEN Stuck
        ELSE [below EXCEPT !.marks = @ \cup (IF missing THEN {"REQUIRED"} ELSE {})]

\* Elements that do not go on one line: each is reported on its own.
IsSpread(p, items) ==
    ~IsScalar(p.of) \/ \E i \in DOMAIN items : items[i].t = "str" /\ p.of.k = "str" /\ items[i].value \in Multiline

\* The search for a string of many lines reads from every element; elements on
\* one line are marked as a whole. ok() is that before any report: one that left
\* an element of an array with an index past its end makes ok() ask for less.
ListReport(report, p, src, isNeeded) ==
    LET shown == Shown(p, src)
        items == Elements(shown)
        Needs(i) == p.k = "array" /\ p.linked /\ i <= p.n
    IN  IF src = NoSource \/ (IsDefault(p, src) /\ shown.t # "list") THEN Stuck
        ELSE IF items = <<>> THEN Example(report, p)
        ELSE IF p.of.k = "str" /\ shown.t # "list" THEN Stuck
        ELSE IF IsSpread(p, items) THEN InTurn([i \in DOMAIN items |-> report[p.of][items[i]][Needs(i)]])
        ELSE IF IsDefault(p, src) \/ Ok(p, src, isNeeded) THEN Marked({})
        ELSE Marked({"INVALID"})

ReportHere(report, p, src, isNeeded) ==
    CASE p.k \in {"int", "str"}    -> ScalarReport(p, src, isNeeded)
      [] p.k = "struct"            -> StructReport(report, p, src)
      [] p.k = "map"               -> MapReport(report, p, src)
      [] p.k \in {"list", "array"} -> ListReport(report, p, src, isNeeded)

Report[p \in Props] == [src \in Sources |-> [isNeeded \in BOOLEAN |-> ReportHere(Report, p, src, isNeeded)]]

-----------------------------------------------------------------------------
(***************************************************************************)
(* Properties                                                              *)
(***************************************************************************)
Reported == Report[prop][doc][TRUE]

\* The documents with maps and lists where they are described, or nothing.
Fitting[p \in Props] ==
    {d \in Docs :
        IsScalar(p) \/
        /\ d.t = DocType(p)
        /\ CASE p.k = "struct" -> \A f \in Fields(p) : d.at[f.key] # Gone => d.at[f.key] \in Fitting[f.of]
             [] p.k = "map"    -> \A k \in Keys : d.at[k] # Gone => d.at[k] \in Fitting[p.of]
             [] OTHER          -> \A i \in DOMAIN d.items : d.items[i] \in Fitting[p.of]}

\* What the report marks, ok() objects to, but for the marks in examples of what
\* is empty, which are there in a document that is ok() too: where no default is
\* printed for what is missing, no MonoMap keeps its elements from ok(), and no
\* map or list is of another type, which ok() lets pass where it is not needed.
MarkedIsNotOk ==
    ~HasDefault /\ ~Is("map") /\ doc \in Fitting[prop] /\ Reported.marks # {} =>
        ~Ok(prop, doc, TRUE)

\* What ok() objects to in a scalar, or in a struct of scalars that has a
\* required one, the report marks; oneOf() is not looked at by the report.
NotOkScalarsAreMarked ==
    /\ IsScalar(prop) \/ (prop.k = "struct" /\ (\A f \in Fields(prop) : IsScalar(f.of))
                                /\ \E f \in Fields(prop) : ~f.optional)
    /\ ~HasDefault /\ ~HasAllowed /\ ~Ok(prop, doc, TRUE)
    => Reported.ends /\ Reported.marks # {}

\* The report of a document that passes ok(), with maps and lists where they are
\* described, gets to its end, through the examples of what is empty: unless
\* something in it is missing, an optional field or a field of a struct in a
\* MonoMap, or a default is printed.
ReportIsPrinted ==
    LET NoStructIn(p) == \A q \in Parts[p] : q.k # "struct"
    IN  /\ ~HasDefault /\ ~HasOptional /\ \A p \in Parts[prop] : p.k = "map" => NoStructIn(p)
        /\ doc \in Fitting[prop] /\ Ok(prop, doc, TRUE)
        => Reported.ends
=============================================================================
