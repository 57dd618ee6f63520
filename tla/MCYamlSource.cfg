CONSTANTS
    ka = ka
    x = x
    Keys = {ka}
    MaxIndex = 2
    Scalars = {x}
    Saves <- MCSaves
    Depth <- MCDepth
    Handles = {h1, h2}
    NoSource = NoSource
    MaxNodes = 4
SYMMETRY Symmetry
SPECIFICATION Spec
INVARIANT TreeShape
PROPERTIES StepsStayInTheDocument JumpsKeepLists SavedIsThere
\* A program may drop its last source.
CHECK_DEADLOCK FALSE
