CONSTANTS
    ka = ka
    kb = kb
    KeyList <- MCKeyList
    OrderOf <- MCOrderOf
    Numbers = {1, 4}
    empty = empty
    word = word
    Strs = {empty, word}
    Multiline = {word}
    LengthOf <- MCLengths
    EmptyStr = empty
    MinInt <- Lowest
    MaxInt = 4
    NoBound = NoBound
    NoValue = NoValue
    Ranges <- MCRanges
    Sizes <- MCSizes
    Divisors = {2}
    Extents = {1, 2}
    Props <- MCProps
    Depth <- MCDepth
    MaxDepth = 2
    Loads <- MCLoads
    Saves <- MCSaves
    MaxProp = 2
    MaxCalls = 3
    MaxElements = 2
SPECIFICATION Spec
INVARIANT FieldsAreChecked
\* A document is loaded or a value saved last; the exploration stops there.
CHECK_DEADLOCK FALSE
