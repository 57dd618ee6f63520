CONSTANTS
    MinInt <- Lowest
    MaxInt = 3
    NoBound = NoBound
SPECIFICATION Spec
INVARIANTS IntersectIsExact ClampIsNearest SingletonIsItsMinimum SchemaBoundsAreExact
