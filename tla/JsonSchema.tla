----------------------------- MODULE JsonSchema -----------------------------
(***************************************************************************)
(* The JSON Schema report (src/report/json-schema.cpp): the schema printed *)
(* for a property, and whether it is printed to its end. A schema is seen  *)
(* here as a tree; of its fields those without a value are not printed.    *)
(*                                                                         *)
(* The report says of a property what its describer restricts, and leaves  *)
(* out the sizes of lists and arrays, defaults and clamping. What a        *)
(* validator makes of it is that of JSON Schema draft 4, the last whose    *)
(* exclusiveMinimum is a Boolean.                                          *)
(***************************************************************************)
EXTENDS YamlReport

N == INSTANCE SchemaBounds                      \* of numbers
L == INSTANCE SchemaBounds WITH MinInt <- 0     \* of lengths, which are std::size_t

-----------------------------------------------------------------------------
(***************************************************************************)
(* The schema of a property                                                *)
(***************************************************************************)
\* Mutant of IntSchema: exclusive bounds are not said to be so.
IntSchemaInclusive(p) ==
    LET At(B) == {[b EXCEPT !.is_inclusive = TRUE] : b \in B}
        bounds == N!NumericBounds(p.interval)
    IN  [type |-> "integer", multipleOf |-> {p.multiple_of} \ {0},
         bounds |-> [minimum |-> At(bounds.minimum), maximum |-> At(bounds.maximum)]]

IntSchema(p) ==
    [type |-> "integer", multipleOf |-> {p.multiple_of} \ {0}, bounds |-> N!NumericBounds(p.interval)]

\* Mutant of StrSchema: bounds of lengths are moved by one, inclusive or not.
StrSchemaMoved(p) ==
    LET Moved(b) == IF b = NoBound THEN b ELSE [b EXCEPT !.is_inclusive = FALSE]
    IN  [type |-> "string", enum |-> p.allowed,
         length |-> L!LengthBounds(I!Between(Moved(p.length.min), Moved(p.length.max)))]

StrSchema(p) == [type |-> "string", enum |-> p.allowed, length |-> L!LengthBounds(p.length)]

\* Mutant of StructSchema: every field is printed as required.
StructSchemaStrict(schema, p) ==
    [type |-> "object", required |-> FieldKeys(p),
     properties |-> [k \in FieldKeys(p) |-> schema[FieldAt(p, k).of]], additional |-> {}]

\* The fields that are no std::optional were marked as required.
StructSchema(schema, p) ==
    [type |-> "object", required |-> {k \in FieldKeys(p) : ~FieldAt(p, k).optional},
     properties |-> [k \in FieldKeys(p) |-> schema[FieldAt(p, k).of]], additional |-> {}]

MapSchema(schema, p) ==
    [type |-> "object", required |-> p.required, properties |-> <<>>, additional |-> {schema[p.of]}]

ListSchema(schema, p) == [type |-> "array", items |-> schema[p.of]]

SchemaHere(schema, p) ==
    CASE p.k = "int"    -> IntSchema(p)
      [] p.k = "str"    -> StrSchema(p)
      [] p.k = "struct" -> StructSchema(schema, p)
      [] p.k = "map"    -> MapSchema(schema, p)
      [] p.k \in {"list", "array"} -> ListSchema(schema, p)

Schema[p \in Props] == SchemaHere(Schema, p)

(***************************************************************************)
(* Whether the report of p, with src as its source, gets to its end. The   *)
(* fields of a struct get their sources on the way; what a container is    *)
(* described to hold has none before the document is visited.              *)
(***************************************************************************)
\* Mutant of SchemaEndsHere: fields are left without a source.
SchemaEndsUnset(ends, p, src) ==
    CASE p.k \in {"int", "str"} -> TRUE
      [] p.k = "struct" -> src # NoSource /\ \A f \in Fields(p) : ends[f.of][NoSource]
      [] p.k \in {"map", "list", "array"} -> ends[p.of][NoSource]

SchemaEndsHere(ends, p, src) ==
    CASE p.k \in {"int", "str"} -> TRUE
      [] p.k = "struct" -> src # NoSource /\ \A f \in Fields(p) : ends[f.of][ChildSource(src, f.key)]
      [] p.k \in {"map", "list", "array"} -> ends[p.of][NoSource]

SchemaEnds[p \in Props] == [src \in Sources |-> SchemaEndsHere(SchemaEnds, p, src)]

-----------------------------------------------------------------------------
(***************************************************************************)
(* What a validator accepts                                                *)
(***************************************************************************)
TypeIn(d) == CASE d.t = "int" -> "integer" [] d.t = "str" -> "string" [] d.t = "map" -> "object"
               [] d.t = "list" -> "array" [] d.t = "nil" -> "null" [] OTHER -> "nothing"

\* The schemas that can be printed; those in a schema are of other properties.
Schemas == {Schema[p] : p \in Props}

AcceptsObject(accepts, s, d) ==
    /\ \A k \in s.required : d.at[k] # Gone
    /\ \A k \in Keys : d.at[k] # Gone =>
          IF k \in DOMAIN s.properties THEN accepts[s.properties[k]][d.at[k]]
          ELSE \A x \in s.additional : accepts[x][d.at[k]]

AcceptsHere(accepts, s, d) ==
    /\ TypeIn(d) = s.type
    /\ CASE s.type = "integer" -> /\ \A m \in s.multipleOf : d.value % m = 0
                                  /\ N!AdmitsNumber(s.bounds, d.value)
         [] s.type = "string"  -> /\ s.enum # {} => d.value \in s.enum
                                  /\ L!AdmitsLength(s.length, LengthOf[d.value])
         [] s.type = "object"  -> AcceptsObject(accepts, s, d)
         [] s.type = "array"   -> \A i \in DOMAIN d.items : accepts[s.items][d.items[i]]

Accepts[s \in Schemas] == [d \in Docs |-> AcceptsHere(Accepts, s, d)]

-----------------------------------------------------------------------------
(***************************************************************************)
(* Properties                                                              *)
(***************************************************************************)
Accepted == Accepts[Schema[prop]][doc]

HasSize  == \E p \in Parts[prop] : p.k = "array" \/ (p.k = "list" /\ p.size # I!All)
Clamps   == \E p \in Parts[prop] : p.k = "int" /\ p.with_clamp
Wraps    == \E p \in Parts[prop] : p.k = "str" /\ L!Wraps(p.length)

\* A document that the schema accepts passes ok(): the schema leaves out the
\* sizes of lists only, and bounds of lengths that cannot be moved by one.
AcceptedIsOk == ~HasSize /\ ~Wraps /\ Accepted => Ok(prop, doc, TRUE)

\* A document that passes ok() is accepted by the schema, where ok() looks at
\* all of it: not at the elements of a MonoMap, nor at the types of elements and
\* fields that are not needed, those of an array described by field(name, member,
\* next) among them, nor at what is clamped or has a default.
OkIsAccepted ==
    /\ ~Is("map") /\ ~Is("list") /\ AllLinked /\ ~HasOptional /\ ~HasDefault /\ ~Clamps /\ ~Wraps
    /\ Ok(prop, doc, TRUE)
    => Accepted

\* What a program saves through a description, its schema accepts, of whatever
\* containers it is and whether or not fields are left out.
SavedIsAccepted ==
    saved # Unsaved /\ saved.value \in Meeting[prop] \cap Filled[prop] => Accepted

\* The schema of a document that has all that is described is printed to its
\* end, unless a struct is in a map or a list: those have no source yet, and
\* the struct asks for one though its schema needs no document.
SchemaIsPrinted ==
    LET StructsBelow(p) == IsContainer(p) /\ \E q \in Parts[p] : q.k = "struct"
    IN  ~HasOptional /\ ~HasDefault /\ (\A p \in Parts[prop] : ~StructsBelow(p)) /\ Ok(prop, doc, TRUE) =>
            SchemaEnds[prop][doc]
=============================================================================
