CONSTANTS
    Keys = {ka, kb}
    MaxIndex = 0
    nil = nil
    one = one
    Values = {nil, one}
    Nil = nil
    MaxEntries = 5
    Null = Null
    Absent = Absent
    NoSource = NoSource
    TypeOf <- MCTypeOf
    MaxProps = 4
    Nodes = {m}
SYMMETRY Symmetry
SPECIFICATION Spec
INVARIANTS TypeOK SourcesInPlace OkIsExact
PROPERTIES OnlyMapsAreMade ReadersOnlyRead
\* A call that comes to a null source goes no further.
CHECK_DEADLOCK FALSE
