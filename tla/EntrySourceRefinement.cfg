CONSTANTS
    Keys = {ka, kb}
    MaxIndex = 1
    Values = {nil, one}
    Nil = nil
    MaxEntries = 4
    Null = Null
    Absent = Absent
    Handles = {s, t}
    NoSource = NoSource
    CutOff = CutOff
SYMMETRY Symmetry
SPECIFICATION Spec
PROPERTY ImplementsDocument
\* A program may drop its last source: nothing is left to call then.
CHECK_DEADLOCK FALSE
