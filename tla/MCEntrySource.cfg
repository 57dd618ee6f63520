CONSTANTS
    Keys = {ka, kb}
    MaxIndex = 1
    Values = {nil, one}
    Nil = nil
    MaxEntries = 5
    Null = Null
    Absent = Absent
    Handles = {s, t}
    NoSource = NoSource
SYMMETRY Symmetry
SPECIFICATION Spec
INVARIANTS TypeOK TreeShape SlotsFitKind AccessorsNeverThrow
PROPERTY OnePlaceAtATime
\* A program may drop its last source: nothing is left to call then.
CHECK_DEADLOCK FALSE
