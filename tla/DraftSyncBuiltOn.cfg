SPECIFICATION Spec
CONSTANTS
    p1 = p1
    p2 = p2
    e1 = e1
    e2 = e2
    q1 = q1
    q2 = q2
    l1 = l1
    Pages <- TwoPages
    Queues <- TwoQueues
    Canvas = q1
    Loose <- OneLoose
    Running <- OnlyTheFirst
    Edits <- TwoEdits
    EditedOn <- OneEach
    SaveMode <- LaterNowQuiet
    Hiding <- None
    Failing <- OnlyTheFirst
    MaxRefreshes = 2
INVARIANT
    BuiltOnItsHash
\* The system stops when all edits are made and saved.
CHECK_DEADLOCK FALSE
