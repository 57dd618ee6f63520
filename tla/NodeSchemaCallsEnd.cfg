CONSTANTS
    Keys = {ka, kb}
    MaxIndex = 0
    nil = nil
    one = one
    Values = {nil, one}
    Nil = nil
    MaxEntries = 5
    Null = Null
    Absent = Absent
    NoSource = NoSource
    TypeOf <- MCTypeOf
    MaxProps = 3
    Nodes = {m}
SPECIFICATION Spec
PROPERTY CallsEnd
\* A call that comes to a null source goes no further.
CHECK_DEADLOCK FALSE
