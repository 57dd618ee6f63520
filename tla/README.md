# A verification of cray

cray (this repository) is a C++20 library that reads configuration documents.
A program loads a document (YAML, or one it builds in memory), *describes* it
through `Node` objects, and asks: is the document as described (`ok()`), what is
the value here (`get()`), and what does a report of it look like. This directory
holds TLA+ modules of that library, TLC configurations that check them on small
instances, and theorems about them that TLAPS checks.

The library is sequential. It starts no thread, waits for nothing and retries
nothing, so its hard part is not concurrency: it is state shared through
pointers, changed by long sequences of legal calls whose order the program
chooses. Everything below is about those sequences, and about walks written
more than once that must agree (`ok()` and `get()`, `ok()` and the two reports,
the mutable and the constant step, the two kinds of source).

## 1. The system

| part | source | state | operations |
|---|---|---|---|
| Source interface | `src/include/cray/source.hpp` | none | `next`, `next const`, `is`, `get`, `set`, `size`, `keys` |
| In-memory source | `src/src/source/entry.cpp` | entries, owned by their holder's map or vector; accessors, each a pair of the entry above and a reference | `Source::make`, the calls of Source, dropping a source |
| YAML loader, `YamlSource` | `src/src/loaders/yaml.cpp` | nodes of yaml-cpp, shared between copies | the calls of Source; `load` |
| Loader registry | `src/src/load.cpp` | a map from names to factories | register, load by name or extension |
| Node | `src/include/cray/node.hpp` | the property above and a reference below it | `[]`, `is<T>()`, `as<T>()`, `ok()`, `type()`, pipes |
| Prop, RootProp | `src/include/cray/detail/prop.hpp` | source, holder (weak), reference, default, annotation | `assign`, `get`, `decode`, `encode`, `ok` |
| PolyMapProp | `.../detail/props/poly-map.hpp` | properties by key, required keys | `assign`, `ok`, `forEachProps` |
| Numeric, Str, MonoMap, MonoList and Array, Structured properties | `.../detail/props/*.hpp` | what each describer restricts | `ok`, `decodeFrom`, `encodeInto`, describers |
| Intervals | `.../detail/interval.hpp` | a lower and an upper bound | the describers `x < interval <= y`, `contains`, `clamp`, `isSingleton`, `isEmpty`, `&` |
| OrderedMap, OrderedSet | `.../detail/ordered_map.hpp`, `ordered_set.hpp` | a vector of keys and a hash map | insertions, `operator[]`, iteration |
| YAML report | `src/src/report/yaml.cpp` | none: it walks properties and their sources | `asYaml` |
| JSON Schema report | `src/src/report/json-schema.cpp` | none | `asJsonSchema` |

**How they interact.** `Node::operator[]` and `is<T>()` create properties and hang
them below their holder with `Prop::assign`, which asks the holder's source for
the source of the child: describing takes *mutable* steps into the document.
`ok()` hands sources down with mutable steps as well; a report hands them down
with *constant* steps, which may be null. Reports walk the same properties as
`ok()` and decide by themselves what to mark. `get()` tells the holder that the
value is needed and decodes from the source. OrderedMap is what keeps fields,
described keys and decoded maps in order; its range for calls back into code that
may put keys into it.

**What is hard, and what makes each part correct**

- *In-memory source.* A mutable step replaces whatever is in the way, while other
  sources into the same document live on. Entries must stay trees, a list must
  stay a prefix of indices with holes only where indices were skipped, a call may
  change what is read at one place only, and no source may come to a state
  where using it throws. In short: a source stands for a *path*.
- *Node and PolyMap.* The source a property keeps is old by the time it is used;
  three operations overwrite it by different means. It must stand for the place
  the property describes, `ok()` must answer what the description says, and
  asking must not change the document.
- *Properties of a type.* `ok()` and `decodeFrom_` restate the same restrictions
  five times, and three kinds of default combine. What `get()` yields must pass
  `ok()`, what passes must be had, and what is saved must be loaded again.
- *YAML source.* The same promises over nodes that yaml-cpp shares and that this
  code rebinds: a step that converts what is there leaves the source with another
  node than the document has, and an index past the end may turn a list into a map.
- *YAML report.* It must mark what `ok()` objects to and nothing else.
- *JSON Schema report.* A schema tells a validator that never sees `ok()` what a
  document is to be: it must not accept what `ok()` rejects, nor reject what a
  program saves.
- *Intervals.* Open and closed bounds at the same value, empty intervals,
  singletons written with open bounds, and the limits of the integer type.
- *OrderedMap.* Two containers changed one after the other must agree, and an
  iteration must survive insertions.

`PROJECT.json` lists every hazard at its line with the properties that cover it.

## 2. Modules

    EntryHeap           entries, accessors, and what calls on them compute
      EntryHeapProofs     lemmas about them
      EntrySource         a program holding several sources into a document
        EntrySourceRefinement  implements  Document
          EntrySourceProofs   theorems about both
      NodeSchema          describing, validating and reporting through Nodes
        NodeSchemaProofs    theorems
        NodeAnswers         the answers against the document that was loaded
    Document            what an in-memory document promises, by path
    YamlSource          sources over the shared nodes of yaml-cpp
      YamlSourceProofs    theorems
    IntervalOps         intervals of a bounded integer type
      SchemaBounds        the bounds printed for them in a JSON Schema
        Interval            the intervals describers can build
          IntervalProofs      theorems
      Codec               properties of a type: ok, decode, encode
        YamlReport          the marks of the YAML report on them
          JsonSchema          their JSON Schema, and what it accepts (with SchemaBounds)
            CodecProofs         theorems about the three
    RankRecursion       recursive functions over what has a rank
    OrderedMap          insertion order beside a hash map, and a range for
      OrderedMapProofs    theorems

MC modules give the constants their values; `PROJECT.json` maps each definition
to its lines.

**EntryHeap, EntrySource** (`entry.cpp`). `heap` is a record of four fields: what
container an entry is (`kind`), its children (`slot`: an entry, `Null` for the
null pointer in the gap of a list, or `Absent`), its value, and how many entries
were made (`used`; an identity is never used again, as a held entry cannot be
freed). `acc` gives each `shared_ptr` of the program the accessor in it, the pair
`prev`/`ref` of the code. `Resolve` is `Accessor::resolve_`: it keeps the
container that is there or puts a new one in its place. Actions: `Next_`,
`ConstNext`, `Set`, `Drop`. `is`, `get`, `size` and `keys` read only; `Reading`
is what `get` yields. Lists, maps and scalars are all here, and so is the root
entry above the document.

**Document** is the same document with no entries: a function from paths to what
is there, and each source a path. `Walk` and `Write` replace what is at the path
now and cut off the sources below; a source that is cut off never shows in the
document again. `EntrySourceRefinement` maps the heap to it by reading the path
of an entry off its holders; an entry that hangs nowhere any more has the path
`CutOff`.

**NodeSchema** (`node.hpp`, `prop.hpp`, `poly-map.hpp`) works on the same
EntryHeap. `prop` is the properties created so far (`made` of them), with their
source, holder, children in order, required keys and whether they have a
default; `node` the Node variables of the program. `Index` is `n[key]` and
`n[req(key)]`, `Is` is `is<T>()`, `Get` the pipe into `get`. A call of `ok()` or
of a report is a walk of small steps, `call`: `Ok` and `Report` begin it at a
Node, `Visit` takes the next key of the innermost loop, hands the property there
a source and comes to it (`OkOf`, `ReportOf`), `Return` ends it; describing waits
until then, as nothing else runs. `todo` is the call stack: the keys the open
loops still have to come to. A call on a null source leaves the answer `"null"`,
and stays there: the code dereferences the pointer. What `ok()` is to answer is
said without the walk: `Expected` gives for every property and every place whether
the document is as described there, by whether what is there `Fits` and what is
`Asked` for below is as described too. `NodeAnswers` adds history,
the document that was loaded, and is used by the run of that name's property only.

**YamlSource** (`loaders/yaml.cpp`). A source is a `YAML::Node`, and a Node three
things: a node, the pointer it holds, and the data there (`heap.ptr`, `heap.data`).
What yaml-cpp does with them is modelled as this code uses it and marked external
in `PROJECT.json`: `AssignData` (of a scalar), `AssignNode` (of a Node), `Subscript`,
`Size`. `Step` is the mutable `next` with its conversion (`Converted`) and its loop
that fills a list (`Filled`), `Find` is `find_`. Actions: `Next_`, `ConstNext`,
`Set`, and `Save`, which begins to save a value through `encodeInto`: `SaveElement`
is one element of the innermost loop, its step and what is set there, with the
loops that are open in `saving`. A list is saved in order, a `std::unordered_map` in
whichever order it has. Nothing else runs until the call is done. `Saves` and their
`Depth` say that a value is finite and what is in it is such a value. `Shows` compares
what is at a node with a value; it says nothing of the sources, so that
`SavedIsThere` holds of a value saved through any of them.

**IntervalOps, Interval** (`interval.hpp`). Arithmetic wraps at the limits of
the type as the code's `++` and `--` would; bounds keep whether they are
inclusive. `Interval` lets describers build an interval in every order.

**Codec** (`numeric.hpp`, `str.hpp`, `mono-map.hpp`, `mono-list.hpp`,
`structured.hpp`, `prop.hpp`). A property is a record with what its describers
set, and with whether what it holds is `linked` to it, as its `prev`: an element
that is not is never needed, whatever the array says (`ArrayOk`). The describers
`of` link; a field that is given a describer, `field(name, member, next)`, does
not, and a field that makes its own, `field(name, member)`, does but restricts
nothing below (`AsField`, `IsPlain`). A document is a tree; a value what the C++
type holds. `Ok`, `Decode` and `Encode` are `Prop::ok`, `Prop::decode` and `Prop::encodeInto` with the case of
each property an operator of its own (`MapDecode`, `StructEncode`...). Decoding
yields whether it succeeded *and* what is then in the variable, which the code
leaves there on failure. The walks over properties that are nested, `OkAt`,
`DecodeAt`, `EncodeAt` and the sets `Values`, `Meeting` and `Filled`, are recursive
functions of the property, and each case is given the function for what is below.
Documents are of one set, `Docs`, however deep they are. The state machine describes a property, describer by
describer and nested (`Of`, `To`, `AddField`, `DefaultValue`, `SetInterval`...),
and then loads a document of its shape or saves a value.

**YamlReport** (`report/yaml.cpp`, `source/null.cpp`) gives the marks of a report,
and whether it ends: `Stuck` stands for a null source used or an assertion failed.
Where a list or a map is empty, the report goes on through what it may hold with
`Source::null()` (`NullSource`), inside a comment: an `Example`, which may say
REQUIRED of what is required there. Its marks are kept apart from those in the
document (`examples`, `marks`), as the properties about marks speak of the latter.
Strings of more than one line (`Multiline`) are reported one by one, other scalars
in a list on one line that is marked as a whole. `ok()`, where a report asks it, is
as it is before any report: a report leaves the element of an array with the last
index it came to (`report/yaml.cpp:317`), and `ok()` may then ask for less, so that
the model marks at most more than the code.

**SchemaBounds, JsonSchema** (`report/json-schema.cpp`). `Schema` is the tree of
fields printed for a property, `SchemaEnds` whether it is printed to its end, and
`Accepts` what a validator of JSON Schema draft 4 makes of a document. The bounds
are of SchemaBounds, for numbers with and for lengths without exclusive ends.

**OrderedMap** (`ordered_map.hpp`). `order_` and `values_` are the two members;
`walk` is a range for in progress: where its iterator is, the end it was given,
and the keys it met. The five ways to put a key in are actions and may be
taken between two steps of the walk.

## 3. What the runs check

Every run finishes the whole state space of its bounds.

| run | question | states |
|---|---|---|
| `entry_source` | Two sources walk, read, write and drop in every order. Entries stay trees (`TreeShape`), indices a prefix with holes in lists only (`SlotsFitKind`), no call can throw (`AccessorsNeverThrow`), a call changes what is read at one place only (`OnePlaceAtATime`). | 136 422 |
| `entry_source_refinement` | Every call does to the document what `Document` says (`ImplementsDocument`). | 6 924 |
| `node_schema` | Describing, `ok()` and reports in every order, step by step. Kept sources are in place (`SourcesInPlace`), nothing but a described map is put into the document (`OnlyMapsAreMade`), `ok()` answers what the description says (`OkIsExact`), asking writes nothing (`ReadersOnlyRead`). | 847 153 |
| `node_calls` | A call, once made, comes to an answer or to a null source (`CallsEnd`). | 29 904 |
| `interval` | Every interval describers can build: intersection is exact, clamping goes to the nearest member, a singleton is its minimum, and the bounds printed in a JSON Schema admit exactly what it holds (`SchemaBoundsAreExact`). | 225 |
| `codec` | Every property nested two deep with every document of its shape: `get()` against `ok()` in both directions, values as described, saving and loading, defaults, the marks of the YAML report against `ok()`, whether it gets to its end (`ReportIsPrinted`), and what the JSON Schema accepts against `ok()` (both directions) and against what is saved. | 672 602 |
| `ordered_map` | Every way to put keys in, during a range for: order and map agree, keys stay in place, the range for meets each once. | 405 |
| `yaml_source` | Two sources into a YAML document step, write and save in every order. No part of it shows twice (`TreeShape`), a step from a place of the document leads to one (`StepsStayInTheDocument`), a jump past the end keeps a list and what it holds (`JumpsKeepLists`), what is saved is there (`SavedIsThere`). | 173 360 |
| `required_keys`, `ok_answers`, `fields_checked`, `got_elements` | One statement of a doc, a comment or an assertion each, which the code does not keep: section 5. | |

**Bounds, and why they are enough.** The bounds are constants of the cfg files.

- *EntrySource*: two handles are what a property about two sources needs. Two
  keys and the indices 0 and 1 have siblings, holes, and lists resized past the
  end. `MaxEntries` 5 makes the root, the document, and three more assignments:
  a chain three deep that is replaced at its top while a source is at its
  bottom. 4 in the refinement run, whose mapping is costly. `MaxEntries` is a
  guard (`HasRoom`), the one place where the model stops and the code does not.
- *NodeSchema*: `MaxProps` 4 has three properties besides the root: a map in a
  map with a leaf, two siblings, or one that takes the place of another. One
  Node variable suffices: the root Node describes beside it, and any other Node
  only repeats the calls of these two. The types are two, so that a scalar can be
  of the wrong one. `node_calls` has `MaxProps` 3 and no symmetry, which liveness
  does not allow: a map with a leaf is a loop, and a mutant that loses its place
  in it is caught.
- *YamlSource*: two handles again; one key and indices up to 2, so that a jump
  skips one; values as deep as a list of lists, one of them empty. `MaxNodes` 4 is
  a guard (`HasRoom`) on the nodes before a step, which may make more: a place can
  be converted, written and converted again.
- *Interval*: seven values hold every order of four bounds, with the limits of
  the type on either side.
- *Codec*: numbers 1 and 4, ranges and divisor chosen so that each restriction is
  met and missed and clamping can break `multipleOf`; strings of length 0 and 1, one
  of them of many lines;
  at most two elements or fields (`MaxElements` 2, one in a container within a
  container), the second field a string; `Props` is nested two deep (`MaxProp`) with
  three containers, restrictions and defaults (`MaxCalls`), among them a container in a
  container and a struct of structs, and `Loads` and `Saves` choose documents of a property's shape and values of its type. What a
  property does with an element of depth one it does with every deeper one, since
  it calls `ok`, `decode` and `encodeInto` of it only: the proofs are for any depth.
- *OrderedMap*: three keys have a middle one.

Keys and handles are permuted where no action or property names one
(`Symmetry`); numbers and strings of Codec are not, they differ in length and
range.

`CHECK_DEADLOCK FALSE` is given where the program may really come to an end: it
drops its last source, or has loaded the document.

**Fairness and liveness.** Whether a program makes a further call is its own
affair, so no action of the program is fair. A call that was made runs on the
only thread there is, with nothing to wait for: `Spec` of NodeSchema states weak
fairness of `Visit` and `Return`, the steps of a call under way, and of nothing
else. `CallsEnd` is what follows: the walk over properties that the program
describes and replaces comes to its end. It relies on their being a tree in
which every key is in order once, which is in `TypeOK` and proved. The other
modules take a call as one step; a range for of OrderedMap ends although keys are
put in, as `WalkMeetsKeysInOrder` says (its end is fixed).

Each property was also checked against a mutant of the code: a plausible slip in
one definition that makes TLC find the property violated. The mutants stand
beside the definitions they replace; `PROJECT.json` lists them.

## 4. What is proved

For every value of the constants that their assumptions admit; the assumptions
say that the markers (`Null`, `Absent`, `NoSource`, `NoBound`...) are distinct
from what they stand beside, and that integers have a least and a greatest value.

**EntrySourceProofs**: `TypeCorrect`, `EntriesFormTrees`, `SlotsFitTheirKinds`,
`AccessorsAreSafe`, `CallsChangeOnePlace`, for any keys, indices, values, handles
and number of entries. None of the invariants is inductive alone: that no entry
gets a second holder needs that a new entry is used by nothing yet, which needs
that only made entries are referred to, and that resolving does not throw needs
the invariant of accessors. The inductive invariant is `IInv`: the heap is
well-formed (`TypeOK`, only made entries are referred to, holders are older
than what they hold, no entry is held twice, slots fit their kinds), and every
accessor stands for a place of a made container that takes its reference. One
lemma, `MakeAndAssign`, says field by field what assigning a new entry leaves;
`Resolve` and `Store` are both of that form, so each action's step follows from
it. An entry never changes what container it is, which is why an accessor,
once safe, stays safe: the code relies on this and nowhere says it. For
`OnePlaceAtATime`, looking up an accessor in the heap after the call gives what
it gave before, unless it is the accessor that was assigned.

**EntryHeapProofs** holds what both modules over entries need: that looking up,
resolving and storing keep the heap well-formed, and what each leaves where. It
also has the one induction that is used here (`LeastNumber`): a set of numbers that
is not empty has a least one, by the well-foundedness of the library. Entries,
properties and nodes are numbered as they are made and holders come first, so the
least entry without a property has a holder that has it.

It also proves the refinement: `EntriesHavePaths` and `Implementation`, the latter that EntrySource implements Document step by step: initial documents map
to initial documents, and `Next_`, `ConstNext`, `Set` and `Drop` to what Document
does at the path of the accessor. The path of an entry is a recursive function
along its holders; what is used of it is that there is one (`EntriesHavePaths`:
every entry has the path of the place where it is stored, and no two have the same),
which is shown by the least entry that has none, and that a call keeps the paths of
all entries but those below the place it assigns, which become `CutOff`. It is
assumed that `CutOff` and the marker for a handle without a source are no paths and
not each other, and that no value is a name of a container.

**NodeSchemaProofs**: `TypeCorrect`, `SourcesStayInPlace`, `DescribingMakesOnlyMaps`
and `ReadersDoNotWrite`, for any keys, values, types, Nodes and number of
properties, all from `Inductive`, Spec => []IInv. The invariant `IInv` says of
the heap that it is well-formed; of the properties that holders are older than
what they hold, that every key described is in order once, and that what has a
source is at a place of the heap (`PropsOK`); of a call under way that its open
loops are in maps, which are where their sources are, and nested in the order of
their holders (`TodoOK`). The last is what makes readers read: the mutable step
of `Visit` meets a map, so that `Resolve` changes nothing. That a described map
never stops being one is what lets a loop go on after it has been down below; and
`SourcesInPlace` holds after describing because a step into a map finds the same
map whoever takes it. `Describe`, and with it `Index`, `Is` and `Get`, go by one
lemma about the new property and one about the step into the document.

The other theorem there is `OkAnswersExactly`: every answer of `ok()` is what the description
says of the document. The definition it is compared with, `Expected`, recurses
over the properties; it exists, as the largest set of places that agree with what
is asked for below them, and there is only one, as holders are older than what
they hold (`ExpectedExists`, `AnswersAreOne`). The invariant of the walk, `WalkOK`, is
that the place it was called at is as described if and only if all places are
that its open loops have still to come to. That `ok()` writes nothing is needed at
each of its steps: what is expected of the places that are left does not change.

**YamlSourceProofs**: `DocumentsAreTrees`, `SourcesStayInTheDocument`,
`ListsAreKept` and `WhatIsSavedIsThere`, for any keys, scalars, handles and number of
nodes, and any values that are saved. The invariant `HeapOK` says of the nodes of yaml-cpp what the code
relies on and yaml-cpp does not: a node is in one place at most, and is newer than
every node with the data it is in; of the nodes that are in a place, no two have the
same data. Nodes that a source was left with after a conversion do share data, but
are in no place, and this is what the assignment in `next` depends on: it gives the
node in the document the data of the new node, and the new node, which the source
has from then on, never gets into a document itself. All changes are of two kinds,
new data for one node that keeps what it had and gets nodes that are new
(`ExtendedOK`), and new data that a node is assigned (`AssignNodeOK`). A step
changes only what is below the node it was taken in (`Elsewhere`), so whatever led
to that node leads there still: the document is the least set with the root that
is closed (`DocumentIsLeast`). For the lists, `SizeIs` says that a list whose size
is its length has no undefined node, so that the subscript after the filling does
not turn it into a map.

That what is saved is there when the call ends needs to know, in its middle,
which nodes are to be which parts of the value, and which parts still come:
these are the sets X and Y of `SaveIsUnderWay`, the invariant of a call that
saves a value without an empty container (`SaveInv`). `Shape` says of them that
no two of the nodes have the same data, that each is or holds what it is to be
but for what comes (`IsThere`), and that each is in another one of them and
newer than some element of the node the call began at (`Below`). A part that
comes is then none of those that are there (`NextIsApart`): two parts in
different places have different data by `HeapOK`, and the node the call began
at, which may be one a source was left with and in no place, is older than all
that is below it. `Stack` says that what comes is what is left in the open
loops, that these are over different nodes, and that each but the next one is
over a node that is already what it is to be. So a loop takes its step where
everything before it is defined (`NextIsReady`), which appends or finds an
element and moves nothing (`StepGrows`); the element is in X then, and what is
in it in Y (`ShapeGrows`), as the loops are (`StackGrows`). Without a loop
nothing comes any more, and what is at the nodes of X shows (`SaveEnds`), by
induction over the depth of values. `IsFull` is what it is defined to be by
`RankRecursion`, and the nodes where values show exist as the largest set of
them that agrees with itself (`ShownExists`). An empty container breaks this at
`ThereIsDefined`: nothing is assigned for it, and what comes after it finds the
list undefined at that place.

The assumptions are that keys are not numbers, that the marker for no source is not
a node, and that what is in a value to be saved is such a value, and less deep.

**IntervalProofs**: `IntersectExact`, `ClampNearest`, `SingletonHoldsMinimum` and
`SchemaBoundsExact` hold of every interval of an integer type of any width, and
`DescribedIntersect`, `DescribedClamp`, `DescribedSingleton` and `DescribedBounds`
that the four properties of the run are invariants. The cases are the bounds that
are missing, open or closed; no induction is needed but for the type.

**OrderedMapProofs**: `OrderEnumerates`, `WalksMeetKeys`, `KeysStay`, for any keys
and values. The invariant is the conjunction of the type, of order and map
agreeing, and of what the walk met being a prefix of the order. The last is
inductive because the order only grows at its end.

**RankRecursion**: the library's theorems about recursive functions take an
operator that none of the provers can instantiate, so the one that is needed is
proved here, for a module parameter: if everything has a rank in Nat and a
definition looks only at what is of a lower rank, there is a function that is as
defined (`RankRecursion`). The induction that goes with it is again that a set of
numbers that is not empty has a least one. CodecProofs instantiates it once for each
walk, with the depth of a property as its rank, and YamlSourceProofs for `IsFull`, with the
depth of a value.

**CodecProofs**: all that the `codec` run checks, for any strings, any integers
with limits, and properties, documents and values of any depth and length:
`CodecTypes`, `WhatDecodesPassesOk`, `WhatPassesOkDecodes`,
`WhatDecodesIsAsDescribed`, `WhatIsSavedIsLoaded` and `DefaultsStandInWhole` of Codec;
`WhatIsMarkedIsNotOk`, `NotOkIsMarked` and `TheReportIsPrinted` of YamlReport; `WhatIsAcceptedIsOk`,
`WhatIsOkIsAccepted`, `WhatIsSavedIsAccepted` and `TheSchemaIsPrinted` of JsonSchema.
For each walk there is first a lemma that it is what it is defined to be
(`DecodeUnfold`, `ReportUnfold`, `AcceptsUnfold`...; a schema has the least depth of a
property with that schema), and then the properties go by induction over what is in
a property (`PropsInduction`), with one case for each kind. The preconditions are
about all parts of a property, and what no part has, no part of a part has
(`PartsInherit`, `ReportsInherit`); that the elements of every array are linked to it
is one of them (`NoLoose`, `LinkedNeeds`). Two parts need more than their own induction.
That what is saved is loaded needs that what is encoded is something (`Returns`), or
an element would be taken for a gap; and that it is a document at all needs that it
is no deeper than the property (`EncodedAre`) and that the gaps at the end of a list
are cut off (`ListsAreDocs`). For the end of reports, everything ends from
`Source::null()` (`NullReportsEnd`), and in a document only a struct depends on what
is there being ok (`OkReportsEnd`). The inductive invariant is small, `CodecInv`: the types,
and that the document is what the value saved is encoded to. The assumptions
(`PropsAssumption`, `BoundsAssumption`, `StringsAssumption`, `OrdersAssumption`,
`MarkersAssumption`) say that properties are as describers make them, with no two
fields of one key, that what is in a property is less deep, that lengths are lengths,
that a map comes in some order, and that the markers are no values.

**Only model-checked**: `CallsEnd` of NodeSchema, which is liveness. Every other
property of a passing run is a theorem.

## 5. What the code does not keep

1. `required_keys`: describing below a required key makes the map it asks for, so
   a document that lacks the key is `ok()` (`poly-map.hpp:59`).
2. `ok_answers`: a report leaves a null source in the property of a missing key;
   `ok()` of a Node there then calls through it (`poly-map.hpp:86`).
3. `fields_checked`: an array field whose elements were described does not ask for
   them, so elements of another type pass `ok()`, and `get()` fails (`array.hpp:112`).
   `OkDecodes` and `OkIsAccepted` leave such arrays out (`AllLinked`).
4. `got_elements`: `get()` of a map yields the number it stopped at, though that is
   out of the interval (`mono-map.hpp:150`).

Smaller ones have no run. They are the exceptions that the preconditions of
`DecodedPassesOk`, `OkDecodes`, `DecodedIsAsDescribed` and `MarkedIsNotOk` name:
clamping comes after the test of `multipleOf` (`numeric.hpp:131`, against
`docs/describers.md:58`); `get()` does not look at `oneOf` (`str.hpp:84`, against
`docs/describers.md:105`); to `ok()`, elements of a MonoList may be of any type
(`mono-list.hpp:109`), those of a MonoMap are not looked at (`mono-map.hpp:88`),
and an optional field may be of another type (`numeric.hpp:93`, against
`docs/describers.md:172`); a map or a list that is missing, and a string `oneOf`
rules out, are not `ok()` and not marked (`report/yaml.cpp:220`, against
`README.md:8`); an empty list of structs with a required field is `ok()`, and the
report says REQUIRED in the example it prints of one (`report/yaml.cpp:241`), which
the tests of the report ask for.

So are those of JsonSchema and YamlSource:

- The schema leaves out the sizes of lists and arrays, and what may be clamped is
  not accepted by it (`AcceptedIsOk`, `OkIsAccepted`).
- A length above or below the limit of `std::size_t` wraps (`SchemaBounds!Wraps`).
- The schema of a struct in a map or a list is printed through a null source
  unless something visited the document before (`SchemaIsPrinted`).
- The default of a list that is empty encodes nothing, and the YAML report of it
  stops at its assertion `source->is(Type::List)` (`report/yaml.cpp:234`;
  `ReportIsPrinted` leaves defaults out, `SavedIsLoaded` empty containers).
- The YAML report of an optional struct that is missing, or of a struct in a MonoMap
  whose fields are, goes through a null source (`ReportIsPrinted`).
- In a YAML document, an element that encodes nothing turns the list into a map
  at the next element (`SavedIsThere`); a source converted twice by steps no longer
  reaches the document (`StepsStayInTheDocument`); a jump past an element that was
  stepped to and never assigned also turns the list into a map (`JumpsKeepLists`).

## 6. What is not modelled

| part | why |
|---|---|
| `YamlSource::keys`, typed scalars, YAML anchors | the order of keys and the parsing of scalars are yaml-cpp's; `keys` goes on when it is told to stop, which only decoding a MonoMap could tell |
| Titles and descriptions in a JSON Schema | text from a description |
| Loader registry | a map filled by static initialisers; its hazard is the order of the linker |
| `set` and `keys` of NullSource | they do nothing |
| Num, Nil, Bool | Num is Int without the step of exclusive bounds; Nil and Bool restrict nothing |
| Mapping of C++ types, Types, References | compile time, printing and parsing |
| OrderedSet | a vector without repetitions, taken as a set |
| Annotations, comments, layout, indentation | no property is about text |
| `ListEntry::next` (mutable) | no Accessor calls it |
| Entries copied by a program | a copy shares its source; documents are made once here |

## 7. Plan

Done, in this order: EntryHeap/EntrySource, Document and its refinement, proofs;
IntervalOps and proofs; NodeSchema; Codec; YamlReport; OrderedMap and proofs;
SchemaBounds and its proof; NodeSchema in small steps with liveness and proofs;
JsonSchema; YamlSource; the proof of the refinement; the proof of what `ok()`
answers; YamlSource in small steps and its proofs; the walks of Codec and of the
reports as functions of the property, and the proofs about them; the proof that what
is saved is there.

Left, most important first:

1. Making documents out of Entries that a program copied and that share sources
   (`entry.cpp:168`), and YAML anchors, which share nodes likewise.
2. `YamlSource::keys`, with a MonoMap decoded from a YAML document.
3. `LoaderRegistry`; floating point bounds of `Num`, on dyadic rationals.
