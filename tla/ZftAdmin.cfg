SPECIFICATION Spec
CONSTANTS
    a1 = a1
    a2 = a2
    i1 = i1
    i2 = i2
    NoItem = NoItem
    Pages <- TwoPages
    Items <- TwoItems
    TypedOn <- BothOnOne
    Limit = 1
    MaxRows = 2
    MaxAdrift = 1
    MaxLoads <- ThreeAndOne
INVARIANTS
    ListReflectsOwnWrites
    TwiceOnlyUnheard
PROPERTY
    TypedIsKept
\* The system stops when everything is typed, added and deleted.
CHECK_DEADLOCK FALSE
